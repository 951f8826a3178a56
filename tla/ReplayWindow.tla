---------------------------- MODULE ReplayWindow ----------------------------
(***************************************************************************)
(* The anti-replay window of one receiver (internal/crypto/replay.go): per *)
(* peer, the highest sequence number accepted and a bitmap of two words    *)
(* for the numbers below it.                                               *)
(*                                                                         *)
(* The environment is an honest peer that numbers its frames one by one,   *)
(* wrapping at SeqSpace, and a radio channel that loses, duplicates and    *)
(* reorders them.  Frames are known here by their number before wrapping,  *)
(* so that the history can tell a frame from its successor one wrap later; *)
(* Accept sees only the wrapped number.                                    *)
(*                                                                         *)
(* A word of the bitmap is the set of positions of its set bits.  The      *)
(* window's time stamp is abstracted to whether it is older than the       *)
(* pruning age.                                                            *)
(***************************************************************************)
EXTENDS Integers, FiniteSets

CONSTANTS
    Peers,       \* senders
    Word,        \* bits in a bitmap word: 64 in the code
    SeqSpace,    \* number of sequence numbers: 65536 in the code
    FirstFrame,  \* number of the first frame a peer sends
    LastFrame,   \* bound: number of the last one
    Arrivals     \* bound: how far ahead of the newest accepted frame, or behind
                 \* it, a frame arrives

ASSUME ReplayAssumption ==
    /\ Word \in Nat \ {0}
    /\ SeqSpace \in Nat \ {0}
    /\ FirstFrame \in Nat
    /\ LastFrame \in Nat
    /\ Arrivals \subseteq Int

Half == SeqSpace \div 2
WindowSize == 2 * Word
Bits == 0..(Word - 1)

VARIABLES
    tracked,   \* the peers that have an entry in windows
    lastSeq,   \* nodeWindow.lastSeq of each of them
    bitmap,    \* nodeWindow.bitmap: the words 0 and 1
    stale,     \* peers whose lastSeen is older than the pruning age
    sent,      \* number of the last frame each peer has sent
    accepted,  \* history: frames accepted since the entry was made
    replayed,  \* history: frames accepted twice by the same entry
    refused    \* history: frames inside the window refused though never accepted

vars == <<tracked, lastSeq, bitmap, stale, sent, accepted, replayed, refused>>

TypeOK ==
    /\ tracked \subseteq Peers
    /\ lastSeq \in [Peers -> Nat]
    /\ bitmap \in [Peers -> [{0, 1} -> SUBSET Bits]]
    /\ stale \subseteq Peers
    /\ sent \in [Peers -> Int]
    /\ accepted \in [Peers -> SUBSET Nat]
    /\ replayed \subseteq Peers \X Nat
    /\ refused \subseteq Peers \X Nat

EmptyBitmap == [w \in {0, 1} |-> {}]

Init ==
    /\ tracked = {}
    /\ lastSeq = [p \in Peers |-> 0]
    /\ bitmap = [p \in Peers |-> EmptyBitmap]
    /\ stale = {}
    /\ sent = [p \in Peers |-> FirstFrame - 1]
    /\ accepted = [p \in Peers |-> {}]
    /\ replayed = {}
    /\ refused = {}

-----------------------------------------------------------------------------
(* The bitmap *)

ShiftLeft(word, n) == {b + n : b \in {c \in word : c + n < Word}}
ShiftRight(word, n) == {b - n : b \in {c \in word : c >= n}}

\* Both words for a new lastSeq alone.
FreshBitmap == [w \in {0, 1} |-> IF w = 0 THEN {0} ELSE {}]

\* Mutant: bits leaving the low word are lost.
ShiftWindowNoCarry(bm, n) ==
    [w \in {0, 1} |->
        IF w = 0
        THEN {0} \cup (IF n < Word THEN ShiftLeft(bm[0], n) ELSE {})
        ELSE IF n < Word THEN ShiftLeft(bm[1], n) ELSE ShiftRight(bm[0], n - Word)]

\* shiftWindow, for 0 < n < WindowSize.  From a full word on, the old low word
\* is shifted right into the high one, as the code has it.
ShiftWindow(bm, n) ==
    [w \in {0, 1} |->
        IF w = 0
        THEN {0} \cup (IF n < Word THEN ShiftLeft(bm[0], n) ELSE {})
        ELSE IF n < Word
             THEN ShiftLeft(bm[1], n) \cup ShiftRight(bm[0], Word - n)
             ELSE ShiftRight(bm[0], n - Word)]

\* Position of the bit that stands for lastSeq minus diff.
WordOf(diff) == diff \div Word

BitOf(diff) == diff % Word

-----------------------------------------------------------------------------
(* Accept *)

\* Mutant: no wrap-around of the sequence.
NormalizeSeqNever(seq, last) == seq

\* normalizeSequenceNumbers: the pair it returns, of which the second component
\* is stored back into the window.
NormalizeSeq(seq, last) ==
    IF seq < last /\ last - seq > Half THEN seq + SeqSpace ELSE seq
NormalizeLast(seq, last) ==
    IF seq > last /\ seq - last > Half THEN last + SeqSpace ELSE last

Newest(p) == CHOOSE n \in accepted[p] : \A m \in accepted[p] : m <= n

\* What the history records of the verdict on frame n.
Accepts(p, n) ==
    /\ accepted' = [accepted EXCEPT ![p] = @ \cup {n}]
    /\ replayed' = IF n \in accepted[p] THEN replayed \cup {<<p, n>>} ELSE replayed
    /\ UNCHANGED refused

Refuses(p, n) ==
    /\ refused' = IF n \notin accepted[p] /\ n > Newest(p) - WindowSize
                  THEN refused \cup {<<p, n>>} ELSE refused
    /\ UNCHANGED <<accepted, replayed>>

\* createNewWindow: the first frame of a peer is always accepted.
AcceptFirst(p, n) ==
    /\ p \notin tracked
    /\ tracked' = tracked \cup {p}
    /\ lastSeq' = [lastSeq EXCEPT ![p] = n % SeqSpace]
    /\ bitmap' = [bitmap EXCEPT ![p] = FreshBitmap]
    /\ Accepts(p, n)

\* acceptFutureSequence.
AcceptFuture(p, n, seq, last) ==
    /\ seq > last
    /\ lastSeq' = [lastSeq EXCEPT ![p] = seq]
    /\ bitmap' = [bitmap EXCEPT ![p] =
                    IF seq - last >= WindowSize THEN FreshBitmap ELSE ShiftWindow(@, seq - last)]
    /\ Accepts(p, n)

\* The very number of lastSeq: accepted only if its bit were clear, and left
\* unmarked even then.
AcceptSame(p, n, seq, last) ==
    /\ seq = last
    /\ lastSeq' = [lastSeq EXCEPT ![p] = last]
    /\ UNCHANGED bitmap
    /\ IF 0 \notin bitmap[p][0] THEN Accepts(p, n) ELSE Refuses(p, n)

\* Mutant: the accepted frame is not marked.
AcceptPastUnmarked(p, n, seq, last) ==
    /\ seq < last
    /\ lastSeq' = [lastSeq EXCEPT ![p] = last]
    /\ UNCHANGED bitmap
    /\ LET diff == last - seq
       IN  IF diff < WindowSize /\ BitOf(diff) \notin bitmap[p][WordOf(diff)]
           THEN Accepts(p, n)
           ELSE Refuses(p, n)

\* Mutant: a frame older than the window is let through.
AcceptPastAnyAge(p, n, seq, last) ==
    /\ seq < last
    /\ lastSeq' = [lastSeq EXCEPT ![p] = last]
    /\ LET diff == last - seq
       IN  \/ /\ diff >= WindowSize
              /\ UNCHANGED bitmap
              /\ Accepts(p, n)
           \/ /\ diff < WindowSize
              /\ BitOf(diff) \notin bitmap[p][WordOf(diff)]
              /\ bitmap' = [bitmap EXCEPT ![p][WordOf(diff)] = @ \cup {BitOf(diff)}]
              /\ Accepts(p, n)
           \/ /\ diff < WindowSize
              /\ BitOf(diff) \in bitmap[p][WordOf(diff)]
              /\ UNCHANGED bitmap
              /\ Refuses(p, n)

\* acceptPastSequence.
AcceptPast(p, n, seq, last) ==
    /\ seq < last
    /\ lastSeq' = [lastSeq EXCEPT ![p] = last]
    /\ LET diff == last - seq
           unmarked == diff < WindowSize /\ BitOf(diff) \notin bitmap[p][WordOf(diff)]
       IN  IF unmarked
           THEN /\ bitmap' = [bitmap EXCEPT ![p][WordOf(diff)] = @ \cup {BitOf(diff)}]
                /\ Accepts(p, n)
           ELSE UNCHANGED bitmap /\ Refuses(p, n)

\* Accept, for a frame the channel delivers.  The entry's time stamp is renewed
\* whatever the verdict.
Accept(p, n) ==
    /\ n <= sent[p]
    /\ p \in tracked => n - Newest(p) \in Arrivals
    /\ stale' = stale \ {p}
    /\ UNCHANGED sent
    /\ \/ AcceptFirst(p, n)
       \/ LET seq == NormalizeSeq(n % SeqSpace, lastSeq[p])
              last == NormalizeLast(n % SeqSpace, lastSeq[p])
          IN  /\ p \in tracked
              /\ UNCHANGED tracked
              /\ \/ AcceptFuture(p, n, seq, last)
                 \/ AcceptSame(p, n, seq, last)
                 \/ AcceptPast(p, n, seq, last)

-----------------------------------------------------------------------------
(* The other steps *)

\* The peer sends its next frame; whether it arrives is up to the channel.
Send(p) ==
    /\ sent[p] < LastFrame
    /\ sent' = [sent EXCEPT ![p] = @ + 1]
    /\ UNCHANGED <<tracked, lastSeq, bitmap, stale, accepted, replayed, refused>>

\* Nothing is heard from the peer for the pruning age of 24 hours.
GrowStale(p) ==
    /\ p \in tracked \ stale
    /\ stale' = stale \cup {p}
    /\ UNCHANGED <<tracked, lastSeq, bitmap, sent, accepted, replayed, refused>>

\* PruneStale deletes the entries of peers not heard from; the history starts
\* again with the next entry.
PruneStale ==
    /\ stale # {}
    /\ tracked' = tracked \ stale
    /\ lastSeq' = [p \in Peers |-> IF p \in stale THEN 0 ELSE lastSeq[p]]
    /\ bitmap' = [p \in Peers |-> IF p \in stale THEN EmptyBitmap ELSE bitmap[p]]
    /\ accepted' = [p \in Peers |-> IF p \in stale THEN {} ELSE accepted[p]]
    /\ stale' = {}
    /\ UNCHANGED <<sent, replayed, refused>>

Next ==
    \/ \E p \in Peers, n \in FirstFrame..LastFrame : Accept(p, n)
    \/ \E p \in Peers : Send(p)
    \/ \E p \in Peers : GrowStale(p)
    \/ PruneStale

Spec == Init /\ [][Next]_vars

-----------------------------------------------------------------------------
(* Properties *)

\* No frame is accepted twice while its peer is tracked: what the window is for.
NoReplay == replayed = {}

\* A frame inside the window that has not been accepted yet is never refused:
\* reordering and loss cost no frame, across the wrap of the sequence; but only
\* across the first one, as lastSeq keeps the 65536 added to it.
NoFalseRefusal == \A r \in refused : r[2] >= 2 * SeqSpace

\* The frames the bitmap marks, by their distance from lastSeq.
Marked(p) == bitmap[p][0] \cup {b + Word : b \in bitmap[p][1]}

\* The window is exactly the set of accepted frames it covers: lastSeq is the
\* newest of them and the bits are the accepted ones among the WindowSize last,
\* also when the newest frames after the second wrap are refused.
WindowIsHistory ==
    \A p \in tracked :
        /\ lastSeq[p] % SeqSpace = Newest(p) % SeqSpace
        /\ Marked(p) = {k \in 0..(WindowSize - 1) : Newest(p) - k \in accepted[p]}

\* What the receiver takes, by a wrapped number and two words of bits, is what a
\* filter takes that knows the numbers without their wraps and remembers every
\* frame: nothing twice, and nothing from before the window of the newest.
Filter == INSTANCE AntiReplay WITH Frames <- FirstFrame..LastFrame
ImplementsFilter == Filter!Spec

=============================================================================
