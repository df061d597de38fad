--------------------------- MODULE MountStatsProofs ---------------------------
(***************************************************************************)
(* Theorems about the parser of mountstats, for any file of well-formed or *)
(* refused lines: the invariant says where the parser's loops are while    *)
(* the kernel is at any place of a block, and what they hold there.        *)
(***************************************************************************)
EXTENDS MountStats, TLAPS

\* The loop that has the scanner.
InStep ==
    /\ refused => parser.mode = "failed"
    /\ ~refused /\ (block.phase = "none" \/ ~Wanted) => parser.mode = "device"
    /\ ~refused /\ block.phase = "info" /\ Wanted => parser.mode = "stats"
    /\ ~refused /\ block.phase = "ops" /\ Wanted => parser.mode = "ops"

\* Inside a block it wants, the parser has built what the kernel has written.
Built == ~refused /\ Wanted /\ block.phase # "none" => parser.mount = block.mount

\* The mounts it will return.
Returned == ~refused => parser.mounts = written

ParserInv == MountStatsTypeOK /\ InStep /\ Built /\ Returned

-----------------------------------------------------------------------------
(* Lines of transports. *)

XprtLine(protocol, version, numeric) ==
    [kind |-> "xprt", protocol |-> protocol, numeric |-> numeric,
     figures |-> Printed(protocol, version)]

LEMMA PrintedLength ==
    ASSUME NEW protocol \in Protocols, NEW version \in Versions
    PROVE  /\ Len(Printed(protocol, version)) = TransportLen(protocol, version)
           /\ TransportLen(protocol, version) \in {7, 10, 13}
  <1>1. TransportLen(protocol, version) \in {7, 10, 13}
    BY DEF TransportLen
  <1>2. Len(Printed(protocol, version)) = TransportLen(protocol, version)
    BY <1>1 DEF Printed
  <1> QED  BY <1>1, <1>2

LEMMA MeantType ==
    ASSUME NEW protocol \in Protocols, NEW version \in Versions
    PROVE  Meant(protocol, version) \in [1 .. 13 -> TransportValues]
  BY DEF Meant, TransportValues

LEMMA ZeroType == Zero \in [1 .. 13 -> TransportValues]
  BY DEF Zero, TransportValues

\* The parser puts each figure of a line it accepts into the field it is of.
LEMMA TransportParsed ==
    ASSUME NEW protocol \in {"tcp", "udp"}, NEW version \in Versions, NEW numeric
    PROVE  parseNFSTransportStats(XprtLine(protocol, version, numeric)) = Meant(protocol, version)
  <1> DEFINE l == XprtLine(protocol, version, numeric)
             n == TransportLen(protocol, version)
             ns == [i \in 1 .. 13 |-> IF i <= Len(l.figures) THEN l.figures[i] ELSE "0"]
  <1>1. /\ n = (IF version = "1.0" THEN 10 ELSE 13) - (IF protocol = "udp" THEN 3 ELSE 0)
        /\ n \in {7, 10, 13}
    BY DEF TransportLen
  <1>2. /\ l.protocol = protocol
        /\ Len(l.figures) = n
        /\ \A i \in 1 .. n :
              l.figures[i] = TransportFields[IF protocol = "udp" /\ i > 2 THEN i + 3 ELSE i]
    BY <1>1, PrintedLength DEF XprtLine, Printed, Protocols
  <1> HIDE DEF l, n
  <1>3. \A i \in 1 .. 13 :
            ns[i] = IF i <= n THEN TransportFields[IF protocol = "udp" /\ i > 2 THEN i + 3 ELSE i]
                    ELSE "0"
    BY <1>1, <1>2
  <1>4. parseNFSTransportStats(l) =
            [i \in 1 .. 13 |-> IF protocol # "udp" \/ i <= 2 THEN ns[i]
                               ELSE IF i <= 5 THEN "0" ELSE ns[i - 3]]
    BY <1>2 DEF parseNFSTransportStats
  <1>5. ASSUME NEW i \in 1 .. 13
        PROVE  parseNFSTransportStats(l)[i] = Meant(protocol, version)[i]
    <2> HIDE DEF ns
    <2>1. CASE protocol = "tcp"
      BY <2>1, <1>1, <1>3, <1>4 DEF Meant
    <2>2. CASE protocol = "udp" /\ i <= 5
      BY <2>2, <1>1, <1>3, <1>4 DEF Meant
    <2>3. CASE protocol = "udp" /\ i > 5
      <3>1. i - 3 \in 1 .. 13 /\ i - 3 > 2
        BY <2>3
      <3>2. ns[i - 3] = IF i - 3 <= n THEN TransportFields[i] ELSE "0"
        BY <2>3, <3>1, <1>3
      <3> QED  BY <2>3, <3>2, <1>1, <1>4 DEF Meant
    <2> QED  BY <2>1, <2>2, <2>3
  <1> QED  BY <1>4, <1>5 DEF l, Meant, parseNFSTransportStats

-----------------------------------------------------------------------------
(* One line, in each loop of the parser. *)

LEMMA MountType ==
    ASSUME NEW m \in NfsMounts, NEW version \in Versions
    PROVE  Mount(m, version) \in MountRecords
  <1>1. <<>> \in Seq(Operations)
    OBVIOUS
  <1> QED  BY <1>1, ZeroType DEF Mount, MountRecords

\* A file that has failed, and a line of a mount that the parser does not want.
LEMMA PassedOver ==
    ASSUME NEW p, NEW l,
           \/ p.mode = "failed"
           \/ p.mode = "device" /\ (l.kind # "device" \/ l.mount \notin CsiMounts)
    PROVE  Parsed(p, l) = p
  BY DEF Parsed, parseMountStats

Parsers == [mode: {"device", "stats", "ops", "failed"}, mount: MountRecords,
            mounts: Seq(MountRecords)]

LEMMA FailedIs ==
    ASSUME NEW p \in Parsers
    PROVE  Failed(p) \in Parsers /\ Failed(p).mode = "failed"
  BY DEF Parsers, Failed

\* A mount is complete, or one is begun.
LEMMA ReturnIs ==
    ASSUME NEW p \in Parsers, NEW mount \in MountRecords, NEW q,
           q = [p EXCEPT !.mounts = Append(@, mount)]
    PROVE  /\ q \in Parsers
           /\ q.mode = p.mode /\ q.mounts = Append(p.mounts, mount)
  <1>1. Append(p.mounts, mount) \in Seq(MountRecords)
    BY DEF Parsers
  <1>2. q = [mode |-> p.mode, mount |-> p.mount, mounts |-> Append(p.mounts, mount)]
    BY DEF Parsers
  <1> HIDE DEF Parsers
  <1>3. p.mode \in {"device", "stats", "ops", "failed"} /\ p.mount \in MountRecords
    BY DEF Parsers
  <1> QED  BY <1>1, <1>2, <1>3 DEF Parsers

-----------------------------------------------------------------------------
(* The invariant is inductive: one lemma for each action of the kernel. *)

LEMMA InvInit == MountStatsInit => ParserInv
  <1> SUFFICES ASSUME MountStatsInit PROVE ParserInv
    OBVIOUS
  <1>1. (CHOOSE m \in NfsMounts : TRUE) \in NfsMounts
    BY MountStatsAssumption
  <1>2. Mount(CHOOSE m \in NfsMounts : TRUE, "none") \in MountRecords
    BY <1>1, MountType DEF Versions
  <1>3. block = [phase |-> "none", mount |-> Mount(CHOOSE m \in NfsMounts : TRUE, "none")]
    BY DEF MountStatsInit
  <1>4. block \in [phase: {"none", "info", "ops"}, mount: MountRecords]
    BY <1>2, <1>3
  <1>5. parser = [mode |-> "device", mount |-> block.mount, mounts |-> <<>>]
        /\ blocks = 0 /\ refused = FALSE /\ written = <<>>
    BY DEF MountStatsInit
  <1>6. <<>> \in Seq(MountRecords)
    OBVIOUS
  <1>7. parser \in Parsers /\ parser.mode = "device" /\ parser.mounts = <<>>
    BY <1>4, <1>5, <1>6 DEF Parsers
  <1>8. MountStatsTypeOK
    <2>1. blocks = 0 /\ 0 \in 0 .. MaxBlocks
      BY MountStatsAssumption DEF MountStatsInit
    <2>2. refused \in BOOLEAN
      BY <1>5
    <2>3. written \in Seq(MountRecords)
      BY <1>5, <1>6
    <2> QED  BY <2>1, <2>2, <2>3, <1>4, <1>7 DEF MountStatsTypeOK, Parsers
  <1>9. block.phase = "none"
    BY <1>3
  <1> QED  BY <1>5, <1>7, <1>8, <1>9 DEF ParserInv, InStep, Built, Returned

LEMMA InvDevice == ParserInv /\ WriteDevice => ParserInv'
  <1> SUFFICES ASSUME ParserInv,
                      NEW m \in NfsMounts, NEW type \in {"nfs", "nfs4", "nfsd"},
                      NEW version \in Versions, NEW format \in BOOLEAN,
                      block.phase = "none", blocks < MaxBlocks, blocks' = blocks + 1,
                      block' = [phase |-> IF format /\ version # "none" THEN "info" ELSE "none",
                                mount |-> Mount(m, version)],
                      WriteLine(DeviceLine(m, type, version, format), m),
                      written' = IF version = "none" /\ format /\ m \in CsiMounts
                                 THEN Append(written, Mount(m, version)) ELSE written
               PROVE  ParserInv'
    BY DEF WriteDevice
  <1> DEFINE l == DeviceLine(m, type, version, format)
             bad == ~format \/ (version # "none" /\ type \notin {"nfs", "nfs4"})
             mt == Mount(m, version)
  <1>1. /\ l.kind = "device" /\ l.mount = m /\ l.version = version
        /\ l.type = type /\ l.format = format
    BY DEF DeviceLine
  <1>2. \A v : Refused(l, v) <=> bad
    BY <1>1 DEF Refused
  <1>3. mt \in MountRecords /\ mt.mount = m
    BY MountType DEF Mount
  <1> USE DEF ParserInv
  <1> HIDE DEF l, bad, mt
  <1>4. parser' = Parsed(parser, l) /\ refused' = (refused \/ (m \in CsiMounts /\ bad))
    BY <1>2 DEF WriteLine, l
  <1>5. block' = [phase |-> IF format /\ version # "none" THEN "info" ELSE "none", mount |-> mt]
    BY DEF mt
  <1>6. /\ block' \in [phase: {"none", "info", "ops"}, mount: MountRecords]
        /\ blocks' \in 0 .. MaxBlocks /\ refused' \in BOOLEAN
        /\ written' \in Seq(MountRecords)
    <2>1. written' = (IF version = "none" /\ format /\ m \in CsiMounts
                      THEN Append(written, mt) ELSE written)
      BY DEF mt
    <2> QED  BY <1>3, <1>4, <1>5, <2>1, MountStatsAssumption DEF MountStatsTypeOK
  <1>7. CASE refused
    <2>1. parser' = parser /\ refused'
      BY <1>4, <1>7, PassedOver DEF InStep
    <2> QED  BY <2>1, <1>6, <1>7 DEF MountStatsTypeOK, InStep, Built, Returned
  <1>8. CASE ~refused /\ m \notin CsiMounts
    <2>1. parser.mode = "device" /\ parser.mounts = written
      BY <1>8 DEF InStep, Returned
    <2>2. parser' = parser
      BY <2>1, <1>1, <1>4, <1>8, PassedOver
    <2>3. ~refused' /\ written' = written
      BY <1>4, <1>8
    <2>4. ~Wanted'
      BY <1>3, <1>5, <1>8 DEF Wanted
    <2> QED  BY <2>1, <2>2, <2>3, <2>4, <1>6 DEF MountStatsTypeOK, InStep, Built, Returned
  <1>9. CASE ~refused /\ m \in CsiMounts
    <2>1. parser.mode = "device" /\ parser.mounts = written
      BY <1>9 DEF InStep, Returned
    <2>2. parser' = IF bad THEN Failed(parser)
                    ELSE IF version = "none" THEN [parser EXCEPT !.mounts = Append(@, mt)]
                    ELSE [parser EXCEPT !.mode = "stats", !.mount = mt]
      BY <2>1, <1>1, <1>2, <1>4, <1>9 DEF Parsed, parseMountStats, mt
    <2>3. written' = (IF version = "none" /\ format THEN Append(written, mt) ELSE written)
      BY <1>9 DEF mt
    <2>4. Wanted'
      BY <1>3, <1>5, <1>9 DEF Wanted
    <2>5. parser \in Parsers
      BY DEF MountStatsTypeOK, Parsers
    <2>6. CASE bad
      <3>1. parser' \in Parsers /\ parser'.mode = "failed"
        BY <2>2, <2>5, <2>6, FailedIs
      <3>2. refused'
        BY <2>6, <1>4, <1>9
      <3> QED  BY <3>1, <3>2, <1>6 DEF MountStatsTypeOK, InStep, Built, Returned, Parsers
    <2>7. CASE ~bad /\ version = "none"
      <3>1. format /\ ~refused'
        BY <2>7, <1>4, <1>9 DEF bad
      <3>2. block'.phase = "none" /\ written' = Append(written, mt)
        BY <2>3, <2>7, <3>1, <1>5
      <3>3. parser' = [parser EXCEPT !.mounts = Append(@, mt)]
        BY <2>2, <2>7
      <3>4. parser' \in Parsers /\ parser'.mode = "device" /\ parser'.mounts = written'
        BY <2>1, <2>5, <3>2, <3>3, <1>3, ReturnIs
      <3> QED  BY <3>1, <3>2, <3>4, <1>6 DEF MountStatsTypeOK, InStep, Built, Returned, Parsers
    <2>8. CASE ~bad /\ version # "none"
      <3>1. format /\ ~refused'
        BY <2>8, <1>4, <1>9 DEF bad
      <3>2. block'.phase = "info" /\ block'.mount = mt /\ written' = written
        BY <2>3, <2>8, <3>1, <1>5
      <3>3. parser' = [parser EXCEPT !.mode = "stats", !.mount = mt]
        BY <2>2, <2>8
      <3>4. parser' \in Parsers /\ parser'.mode = "stats" /\ parser'.mount = mt
            /\ parser'.mounts = written'
        <4>1. parser' = [mode |-> "stats", mount |-> mt, mounts |-> parser.mounts]
          BY <2>5, <3>3 DEF Parsers
        <4>2. parser' \in Parsers
          BY <4>1, <2>5, <1>3 DEF Parsers
        <4> QED  BY <4>1, <4>2, <2>1, <3>2
      <3> QED  BY <2>4, <3>1, <3>2, <3>4, <1>6
               DEF MountStatsTypeOK, InStep, Built, Returned, Parsers
    <2> QED  BY <2>6, <2>7, <2>8
  <1> QED  BY <1>7, <1>8, <1>9

\* What a line inside a block leaves to show, by the place of the parser.
LEMMA InBlock ==
    ASSUME ParserInv, block.phase # "none", NEW l, l.kind # "device",
           WriteLine(l, block.mount.mount), block'.phase # "none" \/ ~Wanted \/ refused',
           block' \in [phase: {"none", "info", "ops"}, mount: MountRecords],
           block'.mount.mount = block.mount.mount, UNCHANGED blocks, written' \in Seq(MountRecords),
           written' = written \/ (Wanted /\ block'.phase = "none"),
           Wanted /\ ~refused =>
               \/ parser' = Failed(parser) /\ refused'
               \/ /\ ~refused' /\ parser' \in Parsers /\ parser'.mount = block'.mount
                  /\ parser'.mode = (IF block'.phase = "info" THEN "stats" ELSE "ops")
                  /\ parser'.mounts = parser.mounts
    PROVE  ParserInv'
  <1> USE DEF ParserInv
  <1>1. parser \in Parsers
    BY DEF MountStatsTypeOK, Parsers
  <1>2. /\ parser' = Parsed(parser, l)
        /\ refused' = (refused \/ (Wanted /\ Refused(l, block.mount.version)))
    BY DEF WriteLine, Wanted
  <1>3. Wanted' = Wanted
    BY DEF Wanted
  <1>4. SUFFICES parser' \in Parsers /\ InStep' /\ Built' /\ Returned'
    <2>1. blocks' \in 0 .. MaxBlocks /\ refused' \in BOOLEAN
      BY <1>2 DEF MountStatsTypeOK
    <2> QED  BY <2>1 DEF MountStatsTypeOK, Parsers
  <1>5. CASE refused
    <2>1. parser' = parser /\ refused' /\ parser.mode = "failed"
      BY <1>2, <1>5, PassedOver DEF InStep
    <2> QED  BY <2>1, <1>1 DEF InStep, Built, Returned
  <1>6. CASE ~refused /\ ~Wanted
    <2>1. parser.mode = "device" /\ parser.mounts = written
      BY <1>6 DEF InStep, Returned
    <2>2. parser' = parser /\ ~refused' /\ written' = written
      BY <2>1, <1>2, <1>6, PassedOver
    <2> QED  BY <2>1, <2>2, <1>1, <1>3, <1>6 DEF InStep, Built, Returned
  <1>7. CASE ~refused /\ Wanted
    <2>1. CASE parser' = Failed(parser) /\ refused'
      BY <2>1, <1>1, FailedIs DEF InStep, Built, Returned
    <2>2. CASE /\ ~refused' /\ parser' \in Parsers /\ parser'.mount = block'.mount
               /\ parser'.mode = (IF block'.phase = "info" THEN "stats" ELSE "ops")
               /\ parser'.mounts = parser.mounts
      <3>1. block'.phase # "none" /\ block'.phase \in {"info", "ops"} /\ written' = written
        BY <2>2, <1>7
      <3> QED  BY <2>2, <3>1, <1>3, <1>7 DEF InStep, Built, Returned
    <2> QED  BY <2>1, <2>2, <1>7
  <1> QED  BY <1>5, <1>6, <1>7

LEMMA InvInfo == ParserInv /\ WriteInfo => ParserInv'
  <1> SUFFICES ASSUME ParserInv,
                      NEW field \in InfoLines, NEW n \in {0, 1, 7, 8, 27}, NEW numeric \in BOOLEAN,
                      block.phase = "info",
                      WriteLine([kind |-> "info", field |-> field, n |-> n, numeric |-> numeric],
                                block.mount.mount),
                      UNCHANGED <<block, blocks, written>>
               PROVE  ParserInv'
    BY DEF WriteInfo
  <1> DEFINE l == [kind |-> "info", field |-> field, n |-> n, numeric |-> numeric]
  <1>1. l.kind = "info"
    OBVIOUS
  <1> HIDE DEF l
  <1>2. /\ parser' = Parsed(parser, l)
        /\ refused' = (refused \/ (Wanted /\ Refused(l, block.mount.version)))
    BY DEF WriteLine, Wanted, l
  <1>3. ASSUME Wanted, ~refused
        PROVE  \/ parser' = Failed(parser) /\ refused'
               \/ /\ ~refused' /\ parser' \in Parsers /\ parser'.mount = block'.mount
                  /\ parser'.mode = (IF block'.phase = "info" THEN "stats" ELSE "ops")
                  /\ parser'.mounts = parser.mounts
    <2>1. /\ parser.mode = "stats" /\ parser.mount = block.mount
          /\ parser.mount.version = block.mount.version /\ parser \in Parsers
      BY <1>3 DEF ParserInv, InStep, Built, MountStatsTypeOK, Parsers
    <2>2. parser' = IF Refused(l, block.mount.version) THEN Failed(parser) ELSE parser
      BY <2>1, <1>1, <1>2 DEF Parsed, parseMountStatsNFS
    <2> QED  BY <2>1, <2>2, <1>2, <1>3
  <1> QED  BY <1>1, <1>3, InBlock DEF ParserInv, MountStatsTypeOK, l

LEMMA InvPerOp == ParserInv /\ WritePerOp => ParserInv'
  <1> SUFFICES ASSUME ParserInv, WritePerOp PROVE ParserInv'
    OBVIOUS
  <1> DEFINE l == [kind |-> "per-op"]
  <1>1. l.kind = "per-op" /\ ~Refused(l, block.mount.version)
    BY DEF Refused
  <1>2. /\ block.phase = "info" /\ WriteLine(l, block.mount.mount)
        /\ block' = [block EXCEPT !.phase = "ops"] /\ UNCHANGED <<blocks, written>>
    BY DEF WritePerOp
  <1> HIDE DEF l
  <1>3. /\ parser' = Parsed(parser, l)
        /\ refused' = (refused \/ (Wanted /\ Refused(l, block.mount.version)))
    BY <1>2 DEF WriteLine, Wanted
  <1>4. /\ block' \in [phase: {"none", "info", "ops"}, mount: MountRecords]
        /\ block'.phase = "ops" /\ block'.mount = block.mount
    BY <1>2 DEF ParserInv, MountStatsTypeOK
  <1>5. ASSUME Wanted, ~refused
        PROVE  /\ ~refused' /\ parser' \in Parsers /\ parser'.mount = block'.mount
               /\ parser'.mode = "ops" /\ parser'.mounts = parser.mounts
    <2>1. parser.mode = "stats" /\ parser.mount = block.mount /\ parser \in Parsers
      BY <1>2, <1>5 DEF ParserInv, InStep, Built, MountStatsTypeOK, Parsers
    <2>2. parser' = [parser EXCEPT !.mode = "ops"]
      BY <2>1, <1>1, <1>3 DEF Parsed, parseMountStatsNFS
    <2>3. /\ parser' \in Parsers /\ parser'.mount = parser.mount
          /\ parser'.mode = "ops" /\ parser'.mounts = parser.mounts
      BY <2>1, <2>2 DEF Parsers
    <2> QED  BY <2>1, <2>3, <1>1, <1>3, <1>4, <1>5
  <1> QED  BY <1>1, <1>2, <1>4, <1>5, InBlock DEF ParserInv, MountStatsTypeOK

LEMMA InvTransport == ParserInv /\ WriteTransport => ParserInv'
  <1> SUFFICES ASSUME ParserInv, NEW protocol \in Protocols, NEW version \in Versions,
                      NEW numeric \in BOOLEAN, block.phase = "info",
                      block' = [block EXCEPT !.mount.transport = Meant(protocol, version)],
                      WriteLine([kind |-> "xprt", protocol |-> protocol, numeric |-> numeric,
                                 figures |-> Printed(protocol, version)], block.mount.mount),
                      UNCHANGED <<blocks, written>>
               PROVE  ParserInv'
    BY DEF WriteTransport
  <1> DEFINE l == XprtLine(protocol, version, numeric)
             mt == [block.mount EXCEPT !.transport = Meant(protocol, version)]
  <1>1. l.kind = "xprt" /\ l.protocol = protocol
    BY DEF XprtLine
  <1>2. /\ block \in [phase: {"none", "info", "ops"}, mount: MountRecords]
        /\ block.mount \in MountRecords
    BY DEF ParserInv, MountStatsTypeOK
  <1>3. mt \in MountRecords /\ mt.mount = block.mount.mount
    BY <1>2, MeantType DEF MountRecords
  <1>4. block' = [block EXCEPT !.mount = mt]
    BY <1>2 DEF MountRecords
  <1> HIDE DEF mt
  <1>5. /\ block' \in [phase: {"none", "info", "ops"}, mount: MountRecords]
        /\ block'.phase = "info" /\ block'.mount = mt
    BY <1>2, <1>3, <1>4
  <1>6. WriteLine(l, block.mount.mount)
    BY DEF XprtLine
  <1>7. /\ parser' = Parsed(parser, l)
        /\ refused' = (refused \/ (Wanted /\ Refused(l, block.mount.version)))
    BY <1>6 DEF WriteLine, Wanted
  <1>8. ASSUME Wanted, ~refused
        PROVE  \/ parser' = Failed(parser) /\ refused'
               \/ /\ ~refused' /\ parser' \in Parsers /\ parser'.mount = block'.mount
                  /\ parser'.mode = (IF block'.phase = "info" THEN "stats" ELSE "ops")
                  /\ parser'.mounts = parser.mounts
    <2>1. /\ parser.mode = "stats" /\ parser.mount = block.mount
          /\ parser.mount.version = block.mount.version /\ parser \in Parsers
      BY <1>8 DEF ParserInv, InStep, Built, MountStatsTypeOK, Parsers
    <2>2. parser' = IF Refused(l, block.mount.version) THEN Failed(parser)
                    ELSE [parser EXCEPT !.mount.transport = parseNFSTransportStats(l)]
      BY <2>1, <1>1, <1>7 DEF Parsed, parseMountStatsNFS
    <2>3. CASE Refused(l, block.mount.version)
      BY <2>2, <2>3, <1>7, <1>8
    <2>4. CASE ~Refused(l, block.mount.version)
      <3>1. protocol \in {"tcp", "udp"}
        BY <2>4, <1>1 DEF Refused, TransportRefused
      <3>2. parseNFSTransportStats(l) = Meant(protocol, version)
        BY <3>1, TransportParsed
      <3>3. parser' = [parser EXCEPT !.mount.transport = Meant(protocol, version)]
        BY <2>2, <2>4, <3>2
      <3>4. parser' = [parser EXCEPT !.mount = mt]
        BY <2>1, <3>3, <1>2 DEF Parsers, MountRecords, mt
      <3>5. /\ parser' \in Parsers /\ parser'.mount = mt
            /\ parser'.mode = "stats" /\ parser'.mounts = parser.mounts
        BY <2>1, <3>4, <1>3 DEF Parsers
      <3> QED  BY <2>4, <3>5, <1>5, <1>7, <1>8
    <2> QED  BY <2>3, <2>4
  <1> HIDE DEF l
  <1>9. written' \in Seq(MountRecords) /\ UNCHANGED blocks /\ UNCHANGED written
    BY DEF ParserInv, MountStatsTypeOK
  <1> QED  BY <1>1, <1>3, <1>5, <1>6, <1>8, <1>9, InBlock

LEMMA InvOperation == ParserInv /\ WriteOperation => ParserInv'
  <1> SUFFICES ASSUME ParserInv, NEW op \in Operations, NEW n \in {7, 8, 9}, NEW numeric \in BOOLEAN,
                      block.phase = "ops",
                      block' = [block EXCEPT !.mount.ops = Append(@, op)],
                      WriteLine([kind |-> "op", op |-> op, n |-> n, numeric |-> numeric],
                                block.mount.mount),
                      UNCHANGED <<blocks, written>>
               PROVE  ParserInv'
    BY DEF WriteOperation
  <1> DEFINE l == [kind |-> "op", op |-> op, n |-> n, numeric |-> numeric]
             ops == Append(block.mount.ops, op)
             mt == [block.mount EXCEPT !.ops = ops]
  <1>1. l.kind = "op" /\ l.op = op
    OBVIOUS
  <1>2. /\ block \in [phase: {"none", "info", "ops"}, mount: MountRecords]
        /\ block.mount \in MountRecords
    BY DEF ParserInv, MountStatsTypeOK
  <1>3. ops \in Seq(Operations)
    BY <1>2 DEF MountRecords
  <1>4. block' = [block EXCEPT !.mount = mt]
    BY <1>2 DEF MountRecords
  <1> HIDE DEF l, ops
  <1>5. mt \in MountRecords /\ mt.mount = block.mount.mount
    BY <1>2, <1>3 DEF MountRecords
  <1>6. /\ parser' = Parsed(parser, l) /\ WriteLine(l, block.mount.mount)
        /\ refused' = (refused \/ (Wanted /\ Refused(l, block.mount.version)))
    BY DEF WriteLine, Wanted, l
  <1>7. /\ block' \in [phase: {"none", "info", "ops"}, mount: MountRecords]
        /\ block'.phase = "ops" /\ block'.mount = mt
    BY <1>2, <1>4, <1>5
  <1>8. ASSUME Wanted, ~refused
        PROVE  \/ parser' = Failed(parser) /\ refused'
               \/ /\ ~refused' /\ parser' \in Parsers /\ parser'.mount = block'.mount
                  /\ parser'.mode = "ops" /\ parser'.mounts = parser.mounts
    <2>1. /\ parser.mode = "ops" /\ parser.mount = block.mount
          /\ parser.mount.version = block.mount.version /\ parser \in Parsers
      BY <1>8 DEF ParserInv, InStep, Built, MountStatsTypeOK, Parsers
    <2>2. CASE Refused(l, block.mount.version)
      <3>1. parser' = Failed(parser)
        BY <2>1, <2>2, <1>1, <1>6 DEF Parsed, parseNFSOperationStats
      <3> QED  BY <3>1, <2>2, <1>6, <1>8
    <2>3. CASE ~Refused(l, block.mount.version)
      <3>1. parser' = [parser EXCEPT !.mount.ops = Append(@, op)]
        BY <2>1, <2>3, <1>1, <1>6 DEF Parsed, parseNFSOperationStats
      <3>2. Append(parser.mount.ops, op) = ops
        BY <2>1 DEF ops
      <3>3. parser' = [parser EXCEPT !.mount = mt]
        BY <2>1, <3>1, <3>2, <1>2 DEF Parsers, MountRecords, mt
      <3>4. /\ parser' \in Parsers /\ parser'.mount = mt
            /\ parser'.mode = "ops" /\ parser'.mounts = parser.mounts
        <4> HIDE DEF mt
        <4> QED  BY <2>1, <3>3, <1>5 DEF Parsers
      <3> QED  BY <2>3, <3>4, <1>6, <1>7, <1>8
    <2> QED  BY <2>2, <2>3
  <1>9. written' \in Seq(MountRecords) /\ UNCHANGED blocks /\ UNCHANGED written
    BY DEF ParserInv, MountStatsTypeOK
  <1> QED  BY <1>1, <1>5, <1>6, <1>7, <1>8, <1>9, InBlock

LEMMA InvBlank == ParserInv /\ WriteBlank => ParserInv'
  <1> SUFFICES ASSUME ParserInv, WriteBlank PROVE ParserInv'
    OBVIOUS
  <1> DEFINE l == [kind |-> "blank"]
  <1>1. l.kind = "blank" /\ ~Refused(l, block.mount.version)
    BY DEF Refused
  <1>2. /\ block.phase = "ops" /\ WriteLine(l, block.mount.mount) /\ UNCHANGED blocks
        /\ block' = [block EXCEPT !.phase = "none"]
        /\ written' = IF Wanted THEN Append(written, block.mount) ELSE written
    BY DEF WriteBlank
  <1> HIDE DEF l
  <1>3. parser' = Parsed(parser, l) /\ (refused' <=> refused)
    BY <1>1, <1>2 DEF WriteLine
  <1>4. /\ block' \in [phase: {"none", "info", "ops"}, mount: MountRecords]
        /\ block'.phase = "none" /\ block.mount \in MountRecords
    BY <1>2 DEF ParserInv, MountStatsTypeOK
  <1>5. parser \in Parsers /\ written' \in Seq(MountRecords)
    BY <1>2, <1>4 DEF ParserInv, MountStatsTypeOK, Parsers
  <1>6. refused' \in BOOLEAN /\ blocks' \in 0 .. MaxBlocks
    BY <1>2 DEF WriteLine, ParserInv, MountStatsTypeOK
  <1>7. SUFFICES parser' \in Parsers /\ InStep' /\ Returned'
    BY <1>4, <1>5, <1>6 DEF ParserInv, MountStatsTypeOK, Parsers, Built
  <1>8. CASE refused
    <2>1. parser' = parser /\ parser.mode = "failed"
      BY <1>3, <1>8, PassedOver DEF ParserInv, InStep
    <2> QED  BY <2>1, <1>3, <1>5, <1>8 DEF InStep, Returned
  <1>9. CASE ~refused /\ ~Wanted
    <2>1. parser.mode = "device" /\ parser.mounts = written
      BY <1>9 DEF ParserInv, InStep, Returned
    <2>2. parser' = parser /\ written' = written
      BY <2>1, <1>1, <1>2, <1>3, <1>9, PassedOver
    <2> QED  BY <2>1, <2>2, <1>3, <1>4, <1>5, <1>9 DEF InStep, Returned
  <1>10. CASE ~refused /\ Wanted
    <2>1. parser.mode = "ops" /\ parser.mount = block.mount /\ parser.mounts = written
      BY <1>2, <1>10 DEF ParserInv, InStep, Built, Returned
    <2>2. parser' = [parser EXCEPT !.mode = "device", !.mounts = Append(@, block.mount)]
      BY <2>1, <1>1, <1>3 DEF Parsed, parseNFSOperationStats
    <2>3. parser' = [mode |-> "device", mount |-> parser.mount,
                     mounts |-> Append(written, block.mount)]
      BY <2>1, <2>2, <1>5 DEF Parsers
    <2>4. written' = Append(written, block.mount)
      BY <1>2, <1>10
    <2>5. parser' = [mode |-> "device", mount |-> block.mount, mounts |-> written']
      BY <2>1, <2>3, <2>4
    <2>6. parser' \in Parsers
      BY <2>5, <1>4, <1>5 DEF Parsers
    <2> QED  BY <2>5, <2>6, <1>3, <1>4, <1>10 DEF InStep, Returned
  <1> QED  BY <1>8, <1>9, <1>10

LEMMA InvReadError == ParserInv /\ ReadError => ParserInv'
  <1> SUFFICES ASSUME ParserInv, ReadError PROVE ParserInv'
    OBVIOUS
  <1>1. parser \in Parsers /\ parser' = Failed(parser)
    BY DEF ReadError, ParserInv, MountStatsTypeOK, Parsers
  <1>2. parser' \in Parsers /\ parser'.mode = "failed"
    BY <1>1, FailedIs
  <1> QED  BY <1>2 DEF ReadError, ParserInv, MountStatsTypeOK, Parsers, InStep, Built, Returned

LEMMA InvStep == ParserInv /\ [MountStatsNext]_mountStatsVars => ParserInv'
  <1> SUFFICES ASSUME ParserInv, [MountStatsNext]_mountStatsVars PROVE ParserInv'
    OBVIOUS
  <1>1. CASE UNCHANGED mountStatsVars
    BY <1>1 DEF mountStatsVars, ParserInv, MountStatsTypeOK, InStep, Built, Returned, Wanted
  <1> QED  BY <1>1, InvDevice, InvInfo, InvTransport, InvPerOp, InvOperation, InvBlank,
              InvReadError DEF MountStatsNext

LEMMA InvAlways == MountStatsSpec => []ParserInv
  BY InvInit, InvStep, PTL DEF MountStatsSpec

-----------------------------------------------------------------------------
(* The theorems. *)

\* Parser and kernel keep to their types: the lists that the parser returns have
\* only mounts of the file, with 13 transport figures whatever the line had.
\* (The records of mountstats.go.)
THEOREM ParserTypeCorrect == MountStatsSpec => []MountStatsTypeOK
  <1>1. ParserInv => MountStatsTypeOK
    BY DEF ParserInv
  <1> QED  BY <1>1, InvAlways, PTL

\* For any file, of any mounts, versions and lines, the parser returns the
\* wanted mounts in order, each with its own operations and transport figures, or
\* it returns an error because of a line of a wanted mount.  (The loops of
\* parseMountStats, parseMountStatsNFS and parseNFSOperationStats.)
THEOREM ReturnsTheMounts == MountStatsSpec => []ParsedIsWritten
  <1>1. ParserInv => ParsedIsWritten
    BY DEF ParserInv, InStep, Returned, ParsedIsWritten
  <1> QED  BY <1>1, InvAlways, PTL
=============================================================================
