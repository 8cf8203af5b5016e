-------------------------------- MODULE Chat --------------------------------
(***************************************************************************)
(* service/chat for one channel: the sequence, the ring of retained        *)
(* messages and the ledger of idempotency keys, which one compare-and-set  *)
(* writes together, and a reader that pages through the ring.              *)
(*                                                                         *)
(* Publishers retry whatever they published, and two of them may use one   *)
(* key.  Channels share nothing, and a reader changes nothing, so one of   *)
(* each is enough.  Permissions, types and bodies of messages are decided  *)
(* before the write and left out.                                          *)
(***************************************************************************)
EXTENDS Naturals, FiniteSets, Sequences

CONSTANTS
  Senders,
  RequestIds,   \* idempotency keys
  Retain,       \* ChannelRule.Retain
  MinKeys,      \* DefaultRetain
  MaxKeys,      \* MaxRequestKeys
  MaxPage,      \* MaxPageSize
  MaxSeq        \* bound: the last sequence

ASSUME ChatAssumption ==
  /\ Retain \in Nat \ {0} /\ MaxPage \in Nat \ {0} /\ MaxSeq \in Nat
  /\ MinKeys \in Nat /\ MaxKeys \in Nat
  /\ Retain <= MaxKeys /\ MinKeys <= MaxKeys

VARIABLES
  lastSeq,   \* channelState.LastSeq
  ring,      \* channelState.Ring
  requests,  \* channelState.Requests, 0 where a key is not remembered
  evicted,   \* channelState.Evicted
  log,       \* history: every message ever stored
  answer,    \* the last message a publisher was answered, and who it was for
  reader     \* what a client has of the channel

state == <<lastSeq, ring, requests, evicted>>
vars == <<lastSeq, ring, requests, evicted, log, answer, reader>>

Message == [seq: Nat \ {0}, from: Senders, request: RequestIds]

NoAnswer == [for |-> "nobody"]

\* A client keeps the messages it has (by sequence), the cursor for the next
\* page, and whether the last page told it that it has everything.
Closed == [cursor |-> 0, feed |-> <<>>, current |-> FALSE]

Init ==
  /\ lastSeq = 0
  /\ ring = <<>>
  /\ requests = [r \in RequestIds |-> 0]
  /\ evicted = 0
  /\ log = <<>>
  /\ answer = NoAnswer
  /\ reader = Closed

-----------------------------------------------------------------------------
(* Publishing.                                                             *)

LeastOf(a, b) == IF a < b THEN a ELSE b

requestKeyBudget ==
  LET budget == IF 2 * Retain < MinKeys THEN MinKeys ELSE 2 * Retain
  IN  LeastOf(budget, MaxKeys)

\* The half of trim that bounds the ledger: the keys of the latest sequences stay.
TrimKeys(keys) ==
  [r \in RequestIds |->
     IF Cardinality({q \in RequestIds : keys[q] > keys[r]}) < requestKeyBudget
     THEN keys[r] ELSE 0]

\* The half that bounds the ring.
Surplus(messages) == IF Len(messages) > Retain THEN Len(messages) - Retain ELSE 0

\* A key nobody remembers: sequence, message, key and retention in one write.
Store(f, r) ==
  LET message == [seq |-> lastSeq + 1, from |-> f, request |-> r]
      next == Append(ring, message)
      drop == Surplus(next)
  IN
  /\ requests[r] = 0
  /\ lastSeq < MaxSeq
  /\ lastSeq' = lastSeq + 1
  /\ ring' = SubSeq(next, drop + 1, Len(next))
  /\ evicted' = evicted + drop
  /\ requests' = TrimKeys([requests EXCEPT ![r] = lastSeq + 1])
  /\ log' = Append(log, message)
  /\ answer' = [for |-> f, key |-> r, message |-> message]
  /\ UNCHANGED reader

\* A retry of what is still retained.  Another sender's key is refused, and so is
\* a key whose message is gone; both change nothing.
Replay(f, r) ==
  \E i \in DOMAIN ring :
    /\ requests[r] # 0 /\ ring[i].seq = requests[r]
    /\ ring[i].from = f
    /\ answer' = [for |-> f, key |-> r, message |-> ring[i]]
    /\ UNCHANGED <<state, log, reader>>

-----------------------------------------------------------------------------
(* Retention by age.  The stamps a prune judges come from the clocks of    *)
(* the publishers and need not be in order, so any prefix of the ring may  *)
(* be what is due.                                                         *)

\* Mutant: the keys go with their messages.
PruneWithKeys(n) ==
  /\ n \in 1..Len(ring)
  /\ ring' = SubSeq(ring, n + 1, Len(ring))
  /\ evicted' = evicted + n
  /\ requests' = [r \in RequestIds |-> IF requests[r] <= evicted + n THEN 0 ELSE requests[r]]
  /\ UNCHANGED <<lastSeq, log, answer, reader>>

\* Mutant: what is pruned is not counted.
PruneUncounted(n) ==
  /\ n \in 1..Len(ring)
  /\ ring' = SubSeq(ring, n + 1, Len(ring))
  /\ UNCHANGED <<lastSeq, requests, evicted, log, answer, reader>>

Prune(n) ==
  /\ n \in 1..Len(ring)
  /\ ring' = SubSeq(ring, n + 1, Len(ring))
  /\ evicted' = evicted + n
  /\ UNCHANGED <<lastSeq, requests, log, answer, reader>>

-----------------------------------------------------------------------------
(* Reading.                                                                *)

OldestSeq == IF ring = <<>> THEN 0 ELSE ring[1].seq
UpTo(seq) == Cardinality({i \in DOMAIN ring : ring[i].seq <= seq})

Page(from, to, next, hasMore, gap) ==
  LET messages == SubSeq(ring, from + 1, to) IN
  [messages |-> messages, hasMore |-> hasMore, gap |-> gap,
   next |-> IF messages = <<>> THEN next ELSE messages[Len(messages)].seq]

NewestPage(limit) ==
  LET start == IF Len(ring) > limit THEN Len(ring) - limit ELSE 0
  IN  Page(start, Len(ring), lastSeq, start > 0, FALSE)

GapAfter(seq) == IF ring = <<>> THEN seq < lastSeq ELSE seq + 1 < OldestSeq

\* Mutant: one lost message is not a gap.
PageAfterWide(seq, limit) ==
  LET start == UpTo(seq)
      end == LeastOf(start + limit, Len(ring))
      gap == IF ring = <<>> THEN seq < lastSeq ELSE seq + 2 < OldestSeq
  IN  Page(start, end, seq, end < Len(ring), gap)

\* Mutant: a full page is the last one.
PageAfterShort(seq, limit) ==
  LET start == UpTo(seq)
      end == LeastOf(start + limit, Len(ring))
  IN  Page(start, end, seq, end + 1 < Len(ring), GapAfter(seq))

PageAfter(seq, limit) ==
  LET start == UpTo(seq)
      end == LeastOf(start + limit, Len(ring))
  IN  Page(start, end, seq, end < Len(ring), GapAfter(seq))

PageBefore(seq, limit) ==
  LET end == UpTo(seq - 1)
      start == IF end > limit THEN end - limit ELSE 0
  IN  Page(start, end, lastSeq, start > 0, FALSE)

Seqs(page) == [i \in DOMAIN page.messages |-> page.messages[i].seq]

\* A client opens the channel with the newest page.  A cursor of 0 is no cursor,
\* so this is also what a client does that found the channel unused.
Open(limit) ==
  LET page == NewestPage(limit) IN
  /\ reader' = [cursor |-> page.next, feed |-> Seqs(page), current |-> FALSE]
  /\ UNCHANGED <<state, log, answer>>

\* The next page.  Told of a gap the client starts anew with what it was given.
Forward(limit) ==
  LET page == PageAfter(reader.cursor, limit) IN
  /\ reader.cursor > 0
  /\ reader' = [cursor |-> page.next,
                feed |-> IF page.gap THEN Seqs(page) ELSE reader.feed \o Seqs(page),
                current |-> ~page.hasMore /\ ~page.gap]
  /\ UNCHANGED <<state, log, answer>>

\* Scrolling back leaves the cursor where it is.
Back(limit) ==
  /\ reader.feed # <<>>
  /\ reader' = [reader EXCEPT !.feed = Seqs(PageBefore(Head(reader.feed), limit)) \o @,
                              !.current = FALSE]
  /\ UNCHANGED <<state, log, answer>>

-----------------------------------------------------------------------------

Next ==
  \/ \E f \in Senders, r \in RequestIds : Store(f, r) \/ Replay(f, r)
  \/ \E n \in 1..Retain : Prune(n)
  \/ \E limit \in 1..MaxPage : Open(limit) \/ Forward(limit) \/ Back(limit)

Spec == Init /\ [][Next]_vars

-----------------------------------------------------------------------------
(* Properties.                                                             *)

\* Every variable has its type, the ring and the ledger keep within their bounds,
\* and no cursor is beyond what was issued (store, trim, History).
TypeOK ==
  /\ lastSeq \in Nat /\ evicted \in Nat
  /\ ring \in Seq(Message) /\ Len(ring) <= Retain
  /\ requests \in [RequestIds -> 0..lastSeq]
  /\ Cardinality({r \in RequestIds : requests[r] # 0}) <= requestKeyBudget
  /\ log \in Seq(Message)
  /\ answer # NoAnswer => answer \in [for: Senders, key: RequestIds, message: Message]
  /\ reader \in [cursor: 0..lastSeq, feed: Seq(Nat), current: BOOLEAN]

\* The ring and the ledger keep within their bounds, the ring is the unbroken tail
\* of everything ever stored, in order, and what is not in it is counted as evicted,
\* by whichever of trim and Prune dropped it.
RingIsTheTail ==
  /\ TypeOK
  /\ evicted + Len(ring) = lastSeq
  /\ Len(log) = lastSeq
  /\ \A i \in DOMAIN ring : ring[i] = log[evicted + i] /\ ring[i].seq = evicted + i

\* A key stores a second message only when at least as many messages as the ledger
\* remembers keys came in between, whatever was replayed and pruned meanwhile
\* (store, trim, Prune); and a publisher is answered its own message, the one that
\* was stored under its key, also when that collides with another's (sameSender).
StoredOncePerWindow ==
  /\ \A i, j \in DOMAIN log :
       i < j /\ log[i].request = log[j].request => j - i > requestKeyBudget
  /\ answer # NoAnswer =>
       /\ answer.message.from = answer.for
       /\ answer.message.request = answer.key
       /\ log[answer.message.seq] = answer.message

\* What a client has is one unbroken run of the channel up to its cursor, each
\* message once and in order, however it paged and whatever was stored, trimmed
\* and pruned between its pages; where the run breaks it was told of a gap
\* (pageOf).
FeedHasNoHoles ==
  /\ \A i \in DOMAIN reader.feed : reader.feed[i] = Head(reader.feed) + i - 1
  /\ reader.feed # <<>> => reader.feed[Len(reader.feed)] = reader.cursor

\* A client that is told there is no more and no gap is up to date (pageOf).
NoMoreMeansAll ==
  [][reader' # reader /\ reader'.current => reader'.cursor = lastSeq]_vars
=============================================================================
