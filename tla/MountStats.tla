------------------------------ MODULE MountStats ------------------------------
(***************************************************************************)
(* pkg/metric/mountstats.go: the parser of /proc/[pid]/mountstats.  The    *)
(* kernel writes a block of lines per mount; the parser takes one line at  *)
(* a time and must keep in step with the blocks: a device line it wants    *)
(* begins a mount, the line per-op ends its statistics, a blank line ends  *)
(* its operations, and one line it refuses fails the file as a whole.      *)
(***************************************************************************)
EXTENDS Integers, Sequences

CONSTANTS NfsMounts,    \* the mounts in the file
          CsiMounts,    \* those with an NFS device line below the kubelet's CSI directories
          Operations,   \* the names of operations
          MaxBlocks     \* bound: the blocks of the file

ASSUME MountStatsAssumption ==
    NfsMounts # {} /\ CsiMounts \subseteq NfsMounts /\ MaxBlocks \in Nat

VARIABLES
  block,    \* the block the kernel is writing
  blocks,   \* how many it has begun
  refused,  \* a line the parser must refuse, or a read error, has occurred
  written,  \* the mounts of the complete blocks the parser is to return
  parser    \* mode: the loop the parser is in; mount: what it is building;
            \* mounts: what it will return
mountStatsVars == <<block, blocks, refused, written, parser>>

Versions  == {"none", "1.0", "1.1", "1.2"}
Protocols == {"tcp", "udp", "rdma"}

\* The fields of NFSTransportStats after Protocol; the kernel prints them in
\* this order, 3 to 5 for tcp only, 11 to 13 since version 1.1.
TransportFields ==
    <<"Port", "Bind", "Connect", "ConnectIdleTime", "IdleTimeSeconds", "Sends",
      "Receives", "BadTransactionIDs", "CumulativeActiveRequests", "CumulativeBacklog",
      "MaximumRPCSlotsUsed", "CumulativeSendingQueue", "CumulativePendingQueue">>

\* fieldTransport10TCPLen, ..10UDPLen, ..11TCPLen and ..11UDPLen.
TransportLen(protocol, version) ==
    (IF version = "1.0" THEN 10 ELSE 13) - (IF protocol = "udp" THEN 3 ELSE 0)

\* The figures of an xprt line, and what they mean.
Printed(protocol, version) ==
    [i \in 1 .. TransportLen(protocol, version) |->
        TransportFields[IF protocol = "udp" /\ i > 2 THEN i + 3 ELSE i]]
Meant(protocol, version) ==
    [i \in 1 .. 13 |->
        IF (protocol = "udp" /\ i \in 3 .. 5) \/ (version = "1.0" /\ i > 10)
        THEN "0" ELSE TransportFields[i]]

\* Bug: the figures of udp are not moved past the connection's.
Bug_UdpIsNotMoved(l) == [i \in 1 .. 13 |-> IF i <= Len(l.figures) THEN l.figures[i] ELSE "0"]

\* Bug: fields the version does not have are not there at all.
Bug_NotPadded(l) == l.figures

parseNFSTransportStats(l) ==
    LET ns == [i \in 1 .. 13 |-> IF i <= Len(l.figures) THEN l.figures[i] ELSE "0"]
    IN  [i \in 1 .. 13 |-> IF l.protocol # "udp" \/ i <= 2 THEN ns[i]
                           ELSE IF i <= 5 THEN "0" ELSE ns[i - 3]]

Zero == [i \in 1 .. 13 |-> "0"]

\* Mount: a mount under construction, or returned.
Mount(m, version) == [mount |-> m, version |-> version, transport |-> Zero, ops |-> <<>>]

-----------------------------------------------------------------------------
(* The lines, and those that the parser refuses. *)

\* format: parseMount finds the words mounted, on, with and fstype at their places.
DeviceLine(m, type, version, format) ==
    [kind |-> "device", mount |-> m, type |-> type, version |-> version, format |-> format]

InfoLines == {"opts:", "age:", "bytes:", "events:", "caps:"}

\* Too few fields, or not the number there must be, or not numbers.
InfoRefused(field, n, numeric) ==
    CASE field = "opts:"   -> n < 1
      [] field = "age:"    -> n < 1 \/ ~numeric
      [] field = "bytes:"  -> n # 8 \/ ~numeric
      [] field = "events:" -> n # 27 \/ ~numeric
      [] OTHER             -> FALSE

TransportRefused(l, version) ==
    \/ version \notin {"1.0", "1.1"}
    \/ l.protocol \notin {"tcp", "udp"}
    \/ Len(l.figures) # TransportLen(l.protocol, version)
    \/ ~l.numeric

Refused(l, version) ==
    CASE l.kind = "device" -> ~l.format \/ (l.version # "none" /\ l.type \notin {"nfs", "nfs4"})
      [] l.kind = "info"   -> InfoRefused(l.field, l.n, l.numeric)
      [] l.kind = "xprt"   -> TransportRefused(l, version)
      [] l.kind = "op"     -> l.n < 8 \/ ~l.numeric
      [] OTHER             -> FALSE

-----------------------------------------------------------------------------
(* The parser: what one line makes of it. *)

Failed(p) == [p EXCEPT !.mode = "failed"]

\* parseMountStats: the lines it does not look for are skipped; a device line
\* without statistics is a mount already.
parseMountStats(p, l) ==
    IF l.kind # "device" \/ l.mount \notin CsiMounts THEN p
    ELSE IF Refused(l, l.version) THEN Failed(p)
    ELSE IF l.version = "none" THEN [p EXCEPT !.mounts = Append(@, Mount(l.mount, "none"))]
    ELSE [p EXCEPT !.mode = "stats", !.mount = Mount(l.mount, l.version)]

\* Bug: per-op is one more line of the statistics.
Bug_PerOpDoesNotBreak(p, l) ==
    IF l.kind = "blank" THEN [p EXCEPT !.mode = "ops"]
    ELSE IF l.kind \in {"info", "xprt"} /\ Refused(l, p.mount.version) THEN Failed(p)
    ELSE IF l.kind = "xprt" THEN [p EXCEPT !.mount.transport = parseNFSTransportStats(l)]
    ELSE p

parseMountStatsNFS(p, l) ==
    IF l.kind \in {"blank", "per-op"} THEN [p EXCEPT !.mode = "ops"]
    ELSE IF l.kind \in {"info", "xprt"} /\ Refused(l, p.mount.version) THEN Failed(p)
    ELSE IF l.kind = "xprt" THEN [p EXCEPT !.mount.transport = parseNFSTransportStats(l)]
    ELSE p

\* A line that is no operation has a word where a figure must be.
parseNFSOperationStats(p, l) ==
    IF l.kind = "blank" THEN [p EXCEPT !.mode = "device", !.mounts = Append(@, p.mount)]
    ELSE IF l.kind # "op" \/ Refused(l, p.mount.version) THEN Failed(p)
    ELSE [p EXCEPT !.mount.ops = Append(@, l.op)]

Parsed(p, l) ==
    CASE p.mode = "device" -> parseMountStats(p, l)
      [] p.mode = "stats"  -> parseMountStatsNFS(p, l)
      [] p.mode = "ops"    -> parseNFSOperationStats(p, l)
      [] OTHER             -> p

-----------------------------------------------------------------------------
(* The kernel, which writes the lines of one mount after the other. *)

Wanted == block.mount.mount \in CsiMounts

\* A line of mount m.
WriteLine(l, m) ==
    /\ parser' = Parsed(parser, l)
    /\ refused' = (refused \/ (m \in CsiMounts /\ Refused(l, block.mount.version)))

WriteDevice ==
    \E m \in NfsMounts, type \in {"nfs", "nfs4", "nfsd"}, version \in Versions, format \in BOOLEAN :
        /\ block.phase = "none" /\ blocks < MaxBlocks
        /\ blocks' = blocks + 1
        /\ block' = [phase |-> IF format /\ version # "none" THEN "info" ELSE "none",
                     mount |-> Mount(m, version)]
        /\ WriteLine(DeviceLine(m, type, version, format), m)
        /\ written' = IF version = "none" /\ format /\ m \in CsiMounts
                      THEN Append(written, Mount(m, version)) ELSE written

WriteInfo ==
    \E field \in InfoLines, n \in {0, 1, 7, 8, 27}, numeric \in BOOLEAN :
        /\ block.phase = "info"
        /\ WriteLine([kind |-> "info", field |-> field, n |-> n, numeric |-> numeric],
                     block.mount.mount)
        /\ UNCHANGED <<block, blocks, written>>

\* The figures as the block's version has them, or as another version would.
WriteTransport ==
    \E protocol \in Protocols, version \in Versions, numeric \in BOOLEAN :
        /\ block.phase = "info"
        /\ block' = [block EXCEPT !.mount.transport = Meant(protocol, version)]
        /\ WriteLine([kind |-> "xprt", protocol |-> protocol, numeric |-> numeric,
                      figures |-> Printed(protocol, version)], block.mount.mount)
        /\ UNCHANGED <<blocks, written>>

WritePerOp ==
    /\ block.phase = "info"
    /\ block' = [block EXCEPT !.phase = "ops"]
    /\ WriteLine([kind |-> "per-op"], block.mount.mount)
    /\ UNCHANGED <<blocks, written>>

\* Eight figures, a ninth in newer kernels.  (Each operation once.)
WriteOperation ==
    \E op \in Operations, n \in {7, 8, 9}, numeric \in BOOLEAN :
        /\ block.phase = "ops" /\ \A i \in DOMAIN block.mount.ops : block.mount.ops[i] # op
        /\ block' = [block EXCEPT !.mount.ops = Append(@, op)]
        /\ WriteLine([kind |-> "op", op |-> op, n |-> n, numeric |-> numeric],
                     block.mount.mount)
        /\ UNCHANGED <<blocks, written>>

WriteBlank ==
    /\ block.phase = "ops"
    /\ block' = [block EXCEPT !.phase = "none"]
    /\ WriteLine([kind |-> "blank"], block.mount.mount)
    /\ written' = IF Wanted THEN Append(written, block.mount) ELSE written
    /\ UNCHANGED blocks

\* The scanner fails: every loop returns s.Err().
ReadError ==
    /\ block.phase # "none"
    /\ parser' = Failed(parser)
    /\ refused' = TRUE
    /\ UNCHANGED <<block, blocks, written>>

MountStatsInit ==
    /\ block = [phase |-> "none", mount |-> Mount(CHOOSE m \in NfsMounts : TRUE, "none")]
    /\ blocks = 0 /\ refused = FALSE /\ written = <<>>
    /\ parser = [mode |-> "device", mount |-> block.mount, mounts |-> <<>>]

MountStatsNext ==
    \/ WriteDevice \/ WriteInfo \/ WriteTransport \/ WritePerOp \/ WriteOperation
    \/ WriteBlank \/ ReadError

MountStatsSpec == MountStatsInit /\ [][MountStatsNext]_mountStatsVars

-----------------------------------------------------------------------------
(* Properties. *)

TransportValues == {"0"} \cup {TransportFields[i] : i \in 1 .. 13}
MountRecords == [mount: NfsMounts, version: Versions, transport: [1 .. 13 -> TransportValues],
                 ops: Seq(Operations)]

MountStatsTypeOK ==
    /\ block \in [phase: {"none", "info", "ops"}, mount: MountRecords]
    /\ blocks \in 0 .. MaxBlocks
    /\ refused \in BOOLEAN
    /\ written \in Seq(MountRecords)
    /\ parser \in [mode: {"device", "stats", "ops", "failed"}, mount: MountRecords,
                   mounts: Seq(MountRecords)]

\* Between two blocks the parser has every mount that it looks for, in order,
\* with its own operations and each transport figure in its own field, unless
\* a line of such a mount had to be refused; then the file has failed, and a
\* line of another mount never does that.  (The loops parseMountStats,
\* parseMountStatsNFS and parseNFSOperationStats hand one scanner on.)
ParsedIsWritten ==
    block.phase = "none" =>
        IF refused THEN parser.mode = "failed"
        ELSE parser.mode = "device" /\ parser.mounts = written
=============================================================================
