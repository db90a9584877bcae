------------------------------- MODULE NvSync -------------------------------
(***************************************************************************)
(* The synchronisation protocol between the co-processor (CP) and nvitemd: *)
(* the packet layer (src/apps/nvitem/nvitem_packet.c) and the request      *)
(* analyzer (src/apps/nvitem/nvitem_sync.c) over the channel               *)
(* (nvitem_channe_spipe.c).                                                *)
(*                                                                         *)
(* A request is a stream of 32-bit words: a HEAD token, one BODY token per *)
(* dirty range followed by the data of the range, and a TAIL token.  The   *)
(* CP cuts the stream into packets numbered by (idxGrp, idxSub), one group *)
(* per request.  The analyzer consumes a packet in a loop, one token or    *)
(* one piece of data per iteration, which is one action here.              *)
(* backupData and restoreData are single steps: NvBuf has their details.   *)
(***************************************************************************)
EXTENDS Integers, Sequences, FiniteSetsExt

CONSTANTS
    Requests,     \* what the CP may send: [part, ranges], a range is [start, count, data]
    PartIds,      \* partition ids the daemon knows (getCtlId)
    SectNum,      \* sectors of a partition
    SectWords,    \* words per sector (RAMNV_SECT_SIZE / 4)
    PacketWords,  \* words a packet can carry (PACKETSIZE / 4)
    CutKinds,     \* where the CP may end a packet: inside "data", inside a
                  \* "token", or at the end of an "item"
    Channels,     \* the values of reliable to consider
    MaxGroup      \* bound on the number of requests

ASSUME SizesAssumption == /\ SectNum \in Nat \ {0} /\ SectWords \in Nat \ {0}
                          /\ PacketWords \in Nat \ {0} /\ MaxGroup \in Nat
ASSUME ModesAssumption == /\ CutKinds \subseteq {"data", "token", "item"}
                          /\ Channels \subseteq BOOLEAN

\* A range holds count sectors from start on, all inside the partition: writeData relies on
\* the CP for that.  Words and partition ids are unsigned.
ASSUME RequestsAssumption ==
    /\ PartIds \subseteq Nat
    /\ \A r \in Requests :
         /\ r.part \in Nat /\ r.ranges \in Seq([start : Nat, count : Nat, data : Seq(Nat)])
         /\ \A i \in 1 .. Len(r.ranges) :
              /\ Len(r.ranges[i].data) = r.ranges[i].count * SectWords
              /\ r.ranges[i].start + r.ranges[i].count <= SectNum

TokenWords == 5      \* sizeof(SYNC_REQ) / 4: the largest of head, body and tail
HEAD == 0
BODY == 1
TAIL == 2
Pad  == 0            \* unused words of the union SYNC_REQ

Words   == 0 .. SectNum * SectWords - 1    \* word addresses in a partition
None    == [grp |-> -1, sub |-> 0, words |-> <<>>]

Token(r, type, idx, w4, w5) == <<type, idx, r.part, w4, w5>>

\* The i-th range of a request: its body token and its data.
Announced(r, i) ==
    Token(r, BODY, i, r.ranges[i].start, r.ranges[i].count) \o r.ranges[i].data

\* The head of a request and its first i ranges.
UpTo(r) ==
    LET upTo[i \in 0 .. Len(r.ranges)] ==
            IF i = 0 THEN Token(r, HEAD, 0, SectWords, Pad) ELSE upTo[i - 1] \o Announced(r, i)
    IN  upTo

Stream == [r \in Requests |->
    UpTo(r)[Len(r.ranges)] \o Token(r, TAIL, Len(r.ranges) + 1, Pad, Pad)]

\* The words of a request up to the end of its i-th range, and up to the end of the
\* token that announces this range.
RangeEnd == [r \in Requests |-> [i \in 0 .. Len(r.ranges) |-> Len(UpTo(r)[i])]]
DataStart(r, i) == RangeEnd[r][i - 1] + TokenWords

\* How a packet ends if it is cut after the first n words of the stream.
CutKind == [r \in Requests |-> [n \in 1 .. Len(Stream[r]) |->
    IF \E i \in 1 .. Len(r.ranges) : DataStart(r, i) < n /\ n < RangeEnd[r][i] THEN "data"
    ELSE IF \/ n \in {RangeEnd[r][i] : i \in 0 .. Len(r.ranges)} \cup {Len(Stream[r])}
            \/ \E i \in 1 .. Len(r.ranges) : n = DataStart(r, i) THEN "item"
    ELSE "token"]]

\* The content of a partition after a request is applied to it.
Apply(r, c) ==
    [a \in Words |->
        LET hit == {i \in 1 .. Len(r.ranges) :
                      a - r.ranges[i].start * SectWords \in 0 .. Len(r.ranges[i].data) - 1}
        IN  IF hit = {} THEN c[a]
            ELSE r.ranges[Max(hit)].data[a - r.ranges[Max(hit)].start * SectWords + 1]]

VARIABLES
    reliable,   \* fixed: no packet is lost, repeated or read twice, and no
                \* request is given up
    \* the CP
    reqOf,      \* the request of every group started so far
    sent,       \* words of the current group handed to the channel
    nextSub,    \* idxSub of the next packet of the group
    lastSent,   \* the packet sent last
    wire,       \* the packet on its way to the daemon, or None
    rsp,        \* the last response: group, sub and value (-1: none)
    \* nvitem_packet.c
    packet,     \* packeBuf: the packet read last
    idxGrp, idxSub,
    \* nvitem_sync.c
    buf,        \* what is left of the packet: *buf, *size
    syncState,  \* 0: head expected, 1: body or tail expected, 2: in data
    syncBusy,
    syncReqFrame,
    part,       \* _id
    start, len, \* _start, _len, in words
    \* nvitem_buf.c
    chan,       \* fromChannel, by partition
    bak,        \* backup, by partition
    done        \* history: the groups that were committed

cp     == <<reliable, reqOf, sent, nextSub, lastSent>>
sync   == <<syncState, syncBusy, syncReqFrame, part, start, len>>
stages == <<chan, bak, done>>
vars   == <<cp, wire, rsp, packet, idxGrp, idxSub, buf, sync, stages>>

grp == Len(reqOf) - 1      \* idxGrp of the current request

Response(v) == rsp' = [grp |-> packet.grp, sub |-> packet.sub, val |-> v]

SyncIdle == /\ syncState = 0 /\ syncBusy = FALSE /\ syncReqFrame = 0
            /\ part = -1 /\ start = 0 /\ len = 0

SyncInit == /\ syncState' = 0 /\ syncBusy' = FALSE /\ syncReqFrame' = 0
            /\ part' = -1 /\ start' = 0 /\ len' = 0

Init ==
    /\ reliable \in Channels
    /\ reqOf = <<>> /\ sent = 0 /\ nextSub = 0 /\ lastSent = None
    /\ wire = None
    /\ rsp = [grp |-> -1, sub |-> 0, val |-> -1]
    /\ packet = None /\ idxGrp = -1 /\ idxSub = 0
    /\ buf = <<>>
    /\ SyncIdle
    /\ chan = [p \in PartIds |-> [a \in Words |-> 0]]
    /\ bak = chan
    /\ done = {}

-----------------------------------------------------------------------------
(* The co-processor and the channel (outside this repository).             *)

Complete == grp >= 0 => sent = Len(Stream[reqOf[grp + 1]])

\* A new request in a new group.  An unreliable CP may give the old one up.
NewRequest(r) ==
    /\ wire = None
    /\ grp < MaxGroup
    /\ reliable => Complete
    /\ reqOf' = Append(reqOf, r)
    /\ sent' = 0 /\ nextSub' = 0
    /\ UNCHANGED <<reliable, lastSent, wire, rsp, packet, idxGrp, idxSub, buf, sync, stages>>

\* The next n words of the request, in one packet, as soon as the channel is free:
\* a packet that ends with an item gets no response a CP could wait for.
SendNext(n) ==
    /\ wire = None
    /\ grp >= 0
    /\ n <= Len(Stream[reqOf[grp + 1]]) - sent
    /\ \/ sent + n = Len(Stream[reqOf[grp + 1]])
       \/ CutKind[reqOf[grp + 1]][sent + n] \in CutKinds
    /\ wire' = [grp |-> grp, sub |-> nextSub,
                words |-> SubSeq(Stream[reqOf[grp + 1]], sent + 1, sent + n)]
    /\ lastSent' = wire'
    /\ sent' = sent + n /\ nextSub' = nextSub + 1
    /\ UNCHANGED <<reliable, reqOf, rsp, packet, idxGrp, idxSub, buf, sync, stages>>

\* The response was late or lost: the packet is sent again.
Resend ==
    /\ ~reliable
    /\ wire = None
    /\ lastSent # None
    /\ wire' = lastSent
    /\ UNCHANGED <<cp, rsp, packet, idxGrp, idxSub, buf, sync, stages>>

Lose ==
    /\ ~reliable
    /\ wire # None
    /\ wire' = None
    /\ UNCHANGED <<cp, rsp, packet, idxGrp, idxSub, buf, sync, stages>>

-----------------------------------------------------------------------------
(* nvitemd *)

\* _syncReset(SYNC_FAIL_RESET): once the head was read, fromChannel may have
\* changed and is restored.
RestoreOnFail ==
    chan' = IF syncState # 0 THEN [chan EXCEPT ![part] = bak[part]] ELSE chan

\* Variant: any packet of the current group is taken.
ClassifyAnySub(p) ==
    IF idxGrp = p.grp THEN "continue"
    ELSE IF p.sub = 0 THEN "start" ELSE "skip"

\* _getPacket: a packet continues its group, starts a new one, or is skipped.
Classify(p) ==
    IF idxGrp = p.grp
      THEN IF p.sub = idxSub + 1 THEN "continue" ELSE "skip"
      ELSE IF p.sub = 0 THEN "start" ELSE "skip"

\* Variant: a packet without a head is acknowledged.
RefuseAcked(p) == rsp' = [grp |-> p.grp, sub |-> p.sub, val |-> 1]

\* A packet of the current group while no request is in progress.
Refuse(p) == rsp' = [grp |-> p.grp, sub |-> p.sub, val |-> 0]

\* The packet layer has put p into packeBuf; syncAnalyzer takes it from there.
Take(p) ==
    /\ buf = <<>>
    /\ packet' = p
    /\ CASE Classify(p) = "skip" ->
              UNCHANGED <<rsp, idxGrp, idxSub, buf, sync, stages>>
         [] Classify(p) = "continue" /\ ~syncBusy ->
              /\ idxSub' = idxSub + 1
              /\ Refuse(p)
              /\ UNCHANGED <<idxGrp, buf, sync, stages>>
         [] Classify(p) = "continue" /\ syncBusy ->
              /\ idxSub' = idxSub + 1
              /\ buf' = p.words
              /\ UNCHANGED <<rsp, idxGrp, sync, stages>>
         [] Classify(p) = "start" ->
              /\ idxGrp' = p.grp /\ idxSub' = 0
              /\ buf' = p.words
              /\ IF syncBusy
                   THEN /\ RestoreOnFail
                        /\ syncState' = 0 /\ syncReqFrame' = 0
                        /\ part' = -1 /\ start' = 0 /\ len' = 0
                   ELSE UNCHANGED <<chan, syncState, syncReqFrame, part, start, len>>
              /\ syncBusy' = TRUE
              /\ UNCHANGED <<rsp, bak, done>>

GetPacket ==
    /\ wire # None
    /\ Take(wire)
    /\ wire' = None
    /\ UNCHANGED cp

\* read() returns -1, which as a uint32 is not less than the size asked for:
\* packeBuf still holds the packet before, which is taken once more.
ReadError ==
    /\ ~reliable
    /\ packet # None
    /\ Take(packet)
    /\ UNCHANGED <<cp, wire>>

\* A short read: syncAnalyzer returns, main closes and opens the channel and
\* initialises the packet layer and the analyzer.  packeBuf still holds the packet
\* before, or, its front overwritten, none (that a later failing read then takes
\* the mixture for a packet is left out).
ChannelFails ==
    /\ ~reliable
    /\ buf = <<>>
    /\ RestoreOnFail
    /\ SyncInit
    /\ idxGrp' = -1 /\ idxSub' = 0
    /\ wire' = None
    /\ packet' \in {packet, None}
    /\ UNCHANGED <<cp, rsp, buf, bak, done>>

Fail == /\ RestoreOnFail
        /\ SyncInit
        /\ Response(0)
        /\ buf' = <<>>
        /\ UNCHANGED <<bak, done>>

\* Too few words for a token: SYNC_CONTINUE.  The words at hand are not kept.
TokenMissing == /\ Len(buf) < TokenWords
                /\ Response(1)
                /\ buf' = <<>>
                /\ UNCHANGED <<sync, stages>>

RestOf(n) == SubSeq(buf, n + 1, Len(buf))

\* Variant: the result of getCtlId is not looked at.
AnyHead == buf[1] = HEAD

\* A head for a partition of the configuration.
KnownHead == buf[1] = HEAD /\ buf[3] \in PartIds

\* _syncGetHead
GetHead ==
    /\ buf # <<>> /\ syncState = 0
    /\ \/ TokenMissing
       \/ /\ Len(buf) >= TokenWords
          /\ ~KnownHead
          /\ Fail
       \/ /\ Len(buf) >= TokenWords
          /\ KnownHead
          /\ syncReqFrame' = buf[2]
          /\ part' = buf[3]
          /\ syncState' = 1
          /\ buf' = RestOf(TokenWords)
          /\ UNCHANGED <<rsp, syncBusy, start, len, stages>>
    /\ UNCHANGED <<cp, wire, packet, idxGrp, idxSub>>

\* Variant: the frame counter is not advanced.
SameFrame == syncReqFrame

\* The reqIdx that the next token of the request must carry.
NextFrame == syncReqFrame + 1

\* _syncGetBody: a range is announced, the request ends, or it is refused.
GetBody ==
    /\ buf # <<>> /\ syncState = 1
    /\ \/ TokenMissing
       \/ /\ Len(buf) >= TokenWords
          /\ buf[1] \notin {BODY, TAIL} \/ buf[2] # NextFrame
          /\ Fail
       \/ /\ Len(buf) >= TokenWords
          /\ buf[1] = BODY /\ buf[2] = NextFrame
          /\ syncReqFrame' = NextFrame
          /\ start' = buf[4] * SectWords
          /\ len' = buf[5] * SectWords
          /\ syncState' = 2
          /\ buf' = RestOf(TokenWords)
          /\ UNCHANGED <<rsp, syncBusy, part, stages>>
       \/ /\ Len(buf) >= TokenWords
          /\ buf[1] = TAIL /\ buf[2] = NextFrame
          /\ bak' = [bak EXCEPT ![part] = chan[part]]
          /\ done' = done \cup {idxGrp}
          /\ SyncInit
          /\ Response(1)
          /\ buf' = <<>>
          /\ UNCHANGED chan
    /\ UNCHANGED <<cp, wire, packet, idxGrp, idxSub>>

\* _syncGetData: as much of the range as the packet holds.
GetData ==
    /\ buf # <<>> /\ syncState = 2
    /\ LET n == Min({len, Len(buf)}) IN
       /\ chan' = [chan EXCEPT ![part] =
                     [a \in Words |-> IF a - start \in 0 .. n - 1 THEN buf[a - start + 1] ELSE @[a]]]
       /\ start' = start + n
       /\ len' = len - n
       /\ buf' = RestOf(n)
    /\ IF len <= Len(buf)
         THEN syncState' = 1 /\ UNCHANGED rsp
         ELSE Response(1) /\ UNCHANGED syncState
    /\ UNCHANGED <<cp, wire, packet, idxGrp, idxSub, syncBusy, syncReqFrame, part, bak, done>>

-----------------------------------------------------------------------------
Cp == \/ \E r \in Requests : NewRequest(r)
      \/ \E n \in 1 .. PacketWords : SendNext(n)

Next == \/ Cp
        \/ Resend
        \/ Lose
        \/ GetPacket
        \/ ReadError
        \/ ChannelFails
        \/ GetHead
        \/ GetBody
        \/ GetData

Spec == Init /\ [][Next]_vars

\* The daemon's main thread runs, and a reliable CP goes on with its request.
FairSpec == /\ Spec
            /\ WF_vars(GetPacket) /\ WF_vars(GetHead \/ GetBody \/ GetData)
            /\ WF_vars(\E n \in 1 .. PacketWords : SendNext(n))

-----------------------------------------------------------------------------
(* Properties *)

\* The parser's state, the packet channel and the item under construction in
\* range.
TypeOK ==
    /\ wire.sub \in Nat /\ wire.words \in Seq(Nat)
    /\ rsp.val \in {-1, 0, 1}
    /\ idxGrp \in -1 .. MaxGroup /\ idxSub \in Nat
    /\ buf \in Seq(Nat)
    /\ syncState \in 0 .. 2 /\ syncBusy \in BOOLEAN /\ syncReqFrame \in Nat
    /\ syncState # 0 => syncBusy /\ part \in PartIds
    /\ start \in Nat /\ len \in Nat
    /\ chan \in [PartIds -> [Words -> Nat]]
    /\ bak \in [PartIds -> [Words -> Nat]]
    /\ done \subseteq 0 .. MaxGroup

\* Whatever packets are lost, repeated or abandoned and whenever the channel
\* breaks, backup changes only by applying one whole request of the CP.
CommitIsWhole ==
    [][bak' # bak \/ done' # done =>
         LET r == reqOf[idxGrp + 1]
         IN  bak' = [bak EXCEPT ![r.part] = Apply(r, @)]]_vars

\* A response 1 to the last packet of a request means that it was committed.
LastAckMeansCommitted ==
    \A g \in 0 .. grp :
      LET r == reqOf[g + 1] IN
      rsp.grp = g /\ rsp.val = 1 /\ lastSent.grp = g /\ rsp.sub = lastSent.sub
         /\ sent = Len(Stream[r]) /\ grp = g
      => g \in done

\* A well-formed request for a known partition that the CP delivers in order and
\* without loss is committed in the end, wherever its packets are cut: a packet
\* that ends inside an item is to be continued by the next one (SYNC_CONTINUE,
\* "wait for continuous information").  It holds for cuts in the data and between
\* items, and fails for cuts inside a token, whose first part is not kept.
RequestCommitted ==
    \A g \in 0 .. MaxGroup :
      reliable /\ grp = g /\ reqOf[g + 1].part \in PartIds ~> g \in done
=============================================================================
