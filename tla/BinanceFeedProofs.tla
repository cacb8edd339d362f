-------------------------- MODULE BinanceFeedProofs --------------------------
(***************************************************************************)
(* A ready book is right, whatever the feed loses and however it connects  *)
(* again: the feed implements SourceBook, and after a late or an empty     *)
(* snapshot the levels updated since the connection came up are right.     *)
(***************************************************************************)
EXTENDS BinanceFeed, DataLemmas

(***************************************************************************)
(* The levels of a book after n updates.                                   *)
(***************************************************************************)

LevelsOf(h, n) ==
  {p \in Price : Cardinality({i \in 1 .. n : h[i] = p}) % 2 = 1}

\* What Binance does later leaves them ...
LEMMA LevelsKept ==
  ASSUME NEW h \in Seq(Price), NEW p \in Price, NEW n \in Nat, n <= Len(h)
  PROVE  LevelsOf(Append(h, p), n) = LevelsOf(h, n)
<1>1. \A i \in 1 .. n : Append(h, p)[i] = h[i]
  BY AppendProperties, LenProperties
<1>2. \A q \in Price : {i \in 1 .. n : Append(h, p)[i] = q} = {i \in 1 .. n : h[i] = q}
  BY <1>1
<1> QED
  BY <1>2 DEF LevelsOf

\* ... and so do the updates of other levels.
LEMMA Untouched ==
  ASSUME NEW h, NEW m \in Nat, NEW n \in Nat, m <= n,
         NEW p \in Price, \A i \in m + 1 .. n : h[i] # p
  PROVE  p \in LevelsOf(h, m) <=> p \in LevelsOf(h, n)
<1>1. \A i \in 1 .. n : i \in 1 .. m \/ i \in m + 1 .. n
  OBVIOUS
<1>2. {i \in 1 .. m : h[i] = p} = {i \in 1 .. n : h[i] = p}
  BY <1>1
<1> QED
  BY <1>2 DEF LevelsOf

(***************************************************************************)
(* One diff.                                                               *)
(***************************************************************************)

\* A diff of updates that Binance has sent.
IsDiff(d, n) == d = Diff(d.first, d.last) /\ d.first \in 1 .. d.last /\ d.last \in 1 .. n

\* What UpdatedLevelsAreRight and ImplementsSourceBook say of a book.
Recent(b) ==
  \A i \in since + 1 .. b.id : hist[i] \in b.levels <=> hist[i] \in LevelsAt(b.id)

Whole(b) == b.levels = LevelsAt(b.id)

LEMMA AppliedIsBook ==
  ASSUME NEW b \in Book, NEW d, d.last \in Nat
  PROVE  /\ Applied(b, d) \in Book
         /\ Applied(b, d).ready = b.ready
         /\ Applied(b, d).id = IF d.last <= b.id THEN b.id ELSE d.last
<1>1. CASE d.last <= b.id
  BY <1>1 DEF Applied, Stale
<1>2. CASE ~(d.last <= b.id)
  <2>1. LevelsAt(d.last) \subseteq Price
    BY DEF LevelsAt
  <2>2. b.levels \subseteq Price
    BY DEF Book
  <2>3. (b.levels \ Touched(d)) \cup (Touched(d) \cap LevelsAt(d.last)) \subseteq Price
    BY <2>1, <2>2
  <2> QED
    BY <1>2, <2>3 DEF Applied, Stale, Book
<1> QED
  BY <1>1, <1>2

\* The levels a diff touches are those of its last update, the others stay.
LEMMA AppliedLevels ==
  ASSUME NEW b \in Book, NEW d, d.last \in Nat, ~(d.last <= b.id)
  PROVE  \A p : p \in Applied(b, d).levels <=>
           IF p \in Touched(d) THEN p \in LevelsAt(d.last) ELSE p \in b.levels
BY DEF Applied, Stale, Book

\* A diff that follows a book without a gap keeps it whole.
LEMMA AppliedWhole ==
  ASSUME TypeOK, NEW b \in Book, Whole(b), NEW d, IsDiff(d, sent), d.first <= b.id + 1
  PROVE  Whole(Applied(b, d))
<1>1. /\ b.id \in Nat /\ sent \in Nat /\ d.first \in Nat /\ d.last \in Nat
      /\ d.first >= 1
  BY LenProperties DEF TypeOK, IsDiff, Book
<1>2. CASE d.last <= b.id
  BY <1>2 DEF Applied, Stale
<1>3. CASE ~(d.last <= b.id)
  <2>1. Applied(b, d).levels \subseteq Price /\ Applied(b, d).id = d.last
    BY <1>1, <1>3, AppliedIsBook DEF Book
  <2>2. ASSUME NEW p \in Price
        PROVE  p \in Applied(b, d).levels <=> p \in LevelsAt(d.last)
    <3>1. CASE p \in Touched(d)
      BY <1>1, <1>3, <3>1, AppliedLevels
    <3>2. CASE p \notin Touched(d)
      <4>1. \A i \in b.id + 1 .. d.last : hist[i] # p
        BY <1>1, <3>2 DEF Touched
      <4>2. p \in LevelsOf(hist, b.id) <=> p \in LevelsOf(hist, d.last)
        BY <1>1, <1>3, <4>1, Untouched
      <4>3. p \in Applied(b, d).levels <=> p \in LevelsAt(b.id)
        BY <1>1, <1>3, <3>2, AppliedLevels DEF Whole
      <4> QED
        BY <4>2, <4>3 DEF LevelsAt, LevelsOf
    <3> QED
      BY <3>1, <3>2
  <2>3. LevelsAt(d.last) \subseteq Price
    BY DEF LevelsAt
  <2> QED
    BY <2>1, <2>2, <2>3 DEF Whole
<1> QED
  BY <1>2, <1>3

\* ... and one that leaves out nothing of the connection keeps right what the
\* connection has updated.
LEMMA AppliedRecent ==
  ASSUME TypeOK, NEW b \in Book, Recent(b), NEW d, IsDiff(d, sent),
         d.first <= b.id + 1 \/ d.first <= since + 1
  PROVE  Recent(Applied(b, d))
<1>1. /\ b.id \in Nat /\ sent \in Nat /\ d.first \in Nat /\ d.last \in Nat
      /\ d.first >= 1 /\ since \in Nat /\ d.last <= sent /\ sent <= Len(hist)
      /\ Len(hist) \in Nat
  BY LenProperties DEF TypeOK, IsDiff, Book
<1>2. CASE d.last <= b.id
  BY <1>2 DEF Applied, Stale
<1>3. CASE ~(d.last <= b.id)
  <2>1. Applied(b, d).id = d.last
    BY <1>1, <1>3, AppliedIsBook
  <2>2. ASSUME NEW i \in since + 1 .. d.last
        PROVE  hist[i] \in Applied(b, d).levels <=> hist[i] \in LevelsAt(d.last)
    <3>1. CASE hist[i] \in Touched(d)
      BY <1>1, <1>3, <3>1, AppliedLevels
    <3>2. CASE hist[i] \notin Touched(d)
      <4>1. ~(i \in d.first .. d.last)
        BY <3>2 DEF Touched
      <4>2. i \in Nat /\ i >= since + 1 /\ i <= d.last /\ i < d.first
        BY <1>1, <4>1
      <4>3. d.first <= b.id + 1 /\ i \in since + 1 .. b.id
        BY <1>1, <4>2
      <4>4. hist[i] \in Price
        BY <1>1, <4>2, ElementOfSeq DEF TypeOK
      <4>5. \A j \in b.id + 1 .. d.last : hist[j] # hist[i]
        BY <1>1, <3>2, <4>3 DEF Touched
      <4>6. hist[i] \in LevelsOf(hist, b.id) <=> hist[i] \in LevelsOf(hist, d.last)
        BY <1>1, <1>3, <4>4, <4>5, Untouched
      <4>7. hist[i] \in Applied(b, d).levels <=> hist[i] \in b.levels
        BY <1>1, <1>3, <3>2, AppliedLevels
      <4>8. hist[i] \in b.levels <=> hist[i] \in LevelsAt(b.id)
        BY <4>3 DEF Recent
      <4> QED
        BY <4>6, <4>7, <4>8 DEF LevelsAt, LevelsOf
    <3> QED
      BY <3>1, <3>2
  <2> QED
    BY <2>1, <2>2 DEF Recent
<1> QED
  BY <1>2, <1>3

(***************************************************************************)
(* The buffered diffs, one after the other.                                *)
(***************************************************************************)

\* The buffer holds diffs one after the other, from the connection's first on.
BufferGoesOn ==
  /\ Ready => buffer = << >>
  /\ \A k \in DOMAIN buffer :
       /\ IsDiff(buffer[k], sent)
       /\ buffer[k].first <= (IF k = 1 THEN since ELSE buffer[k - 1].last) + 1

\* The diffs of the buffer, applied as the recursive definition says.
LEMMA CatchingUp ==
  ASSUME NEW b \in Book, buffer \in Seq(Message)
  PROVE  \E g :
           /\ g[0] = b
           /\ \A k \in 1 .. Len(buffer) : g[k] = Applied(g[k - 1], buffer[k])
           /\ CaughtUp(b) = g[Len(buffer)]
<1> DEFINE n == Len(buffer)
           step == [k \in 1 .. n |-> [x \in Book |-> Applied(x, buffer[k])]]
           after == CHOOSE g : g = [i \in 0 .. n |->
                      IF i = 0 THEN b ELSE Applied(g[i - 1], buffer[i])]
<1>1. n \in Nat /\ \A k \in 1 .. n : buffer[k] \in Message
  BY LenProperties, ElementOfSeq
<1>2. \A k \in 1 .. n, x \in Book : Applied(x, buffer[k]) \in Book
  BY <1>1, AppliedIsBook DEF Message
<1>3. CaughtUp(b) = after[n]
  BY DEF CaughtUp
<1>4. step \in Steps(n, Book)
  BY <1>2 DEF Steps
<1> HIDE DEF n, step, after
<1>5. PICK g \in Values(n, Book) : Rounds(g, b, n, step)
  BY <1>1, <1>4, RecursionOver
<1>6. \A k \in 1 .. n : g[k] = Applied(g[k - 1], buffer[k])
  <2>1. \A k \in 1 .. n : k - 1 \in 0 .. n
    BY <1>1
  <2>2. \A k \in 1 .. n : g[k - 1] \in Book
    BY <2>1 DEF Values
  <2> QED
    BY <1>5, <2>2 DEF step, Rounds
<1>7. g = [i \in 0 .. n |-> IF i = 0 THEN b ELSE Applied(g[i - 1], buffer[i])]
  BY <1>1, <1>5, <1>6 DEF Values, Rounds
<1>8. after = [i \in 0 .. n |-> IF i = 0 THEN b ELSE Applied(after[i - 1], buffer[i])]
  BY <1>7 DEF after
<1>9. after[0] = b /\ \A k \in 1 .. n : after[k] = Applied(after[k - 1], buffer[k])
  BY <1>1, <1>8
<1> QED
  BY <1>3, <1>9 DEF n

\* Where the first k buffered diffs bring a book b.
Brought(b, c, k) ==
  /\ c \in Book /\ c.ready = b.ready
  /\ c.id >= b.id /\ c.id <= Len(hist)
  /\ k > 0 => c.id >= buffer[k].last
  /\ Recent(c)
  /\ Whole(b) /\ b.id >= since => Whole(c)

LEMMA BroughtOn ==
  ASSUME TypeOK, BufferGoesOn, NEW b \in Book, NEW c, NEW k \in Nat,
         k + 1 \in DOMAIN buffer, Brought(b, c, k)
  PROVE  Brought(b, Applied(c, buffer[k + 1]), k + 1)
<1> DEFINE d == buffer[k + 1]
<1>1. IsDiff(d, sent) /\ d.first <= (IF k + 1 = 1 THEN since ELSE buffer[k].last) + 1
  <2>1. (k + 1) - 1 = k
    OBVIOUS
  <2> QED
    BY <2>1 DEF BufferGoesOn
<1>2. /\ c \in Book /\ c.id \in Nat /\ b.id \in Nat /\ since \in Nat
      /\ d.last \in Nat /\ d.first \in Nat /\ sent \in Nat /\ d.last <= sent
      /\ Len(hist) \in Nat /\ sent <= Len(hist)
  BY <1>1, LenProperties DEF Brought, Book, TypeOK, IsDiff
<1>3. /\ Applied(c, d) \in Book /\ Applied(c, d).ready = b.ready
      /\ Applied(c, d).id = IF d.last <= c.id THEN c.id ELSE d.last
  BY <1>2, AppliedIsBook DEF Brought
<1>4. d.first <= since + 1 \/ d.first <= c.id + 1
  <2>1. CASE k = 0
    BY <1>1, <2>1
  <2>2. CASE k > 0
    <3>1. buffer[k].last \in Nat
      <4>1. k \in DOMAIN buffer
        BY <2>2, LenProperties DEF TypeOK
      <4> QED
        BY <1>2, <4>1 DEF BufferGoesOn, IsDiff
    <3> QED
      BY <1>1, <1>2, <2>2, <3>1 DEF Brought
  <2> QED
    BY <2>1, <2>2
<1> HIDE DEF d
<1>5. Recent(Applied(c, d))
  BY <1>1, <1>2, <1>4, AppliedRecent DEF Brought
<1>6. ASSUME Whole(b), b.id >= since PROVE Whole(Applied(c, d))
  <2>1. Whole(c) /\ d.first <= c.id + 1
    BY <1>2, <1>4, <1>6 DEF Brought
  <2> QED
    BY <1>1, <1>2, <2>1, AppliedWhole
<1>7. /\ Applied(c, d).id >= b.id /\ Applied(c, d).id <= Len(hist)
      /\ Applied(c, d).id >= d.last
  BY <1>2, <1>3 DEF Brought
<1> QED
  BY <1>3, <1>5, <1>6, <1>7 DEF Brought, d

\* ... all of them.
LEMMA CaughtUpIsRight ==
  ASSUME TypeOK, BufferGoesOn, NEW b \in Book, b.id <= Len(hist), Recent(b)
  PROVE  Brought(b, CaughtUp(b), Len(buffer))
<1> DEFINE n == Len(buffer)
<1>1. n \in Nat /\ DOMAIN buffer = 1 .. n
  BY LenProperties DEF TypeOK
<1>2. PICK g : /\ g[0] = b
               /\ \A k \in 1 .. n : g[k] = Applied(g[k - 1], buffer[k])
               /\ CaughtUp(b) = g[n]
  BY CatchingUp DEF TypeOK
<1> HIDE DEF n
<1> DEFINE S == {k \in Nat : k <= n => Brought(b, g[k], k)}
<1>3. 0 \in S
  BY <1>2 DEF Brought, Book
<1>4. ASSUME NEW k \in S PROVE k + 1 \in S
  <2> SUFFICES ASSUME k + 1 <= n PROVE Brought(b, g[k + 1], k + 1)
    OBVIOUS
  <2>1. k \in Nat /\ k + 1 \in 1 .. n /\ (k + 1) - 1 = k
    BY <1>1
  <2>2. g[k + 1] = Applied(g[k], buffer[k + 1]) /\ Brought(b, g[k], k)
    BY <1>1, <1>2, <2>1
  <2> QED
    BY <1>1, <2>1, <2>2, BroughtOn
<1> HIDE DEF S
<1>5. S = Nat
  <2>1. S \in SUBSET Nat
    BY DEF S
  <2> QED
    BY <1>3, <1>4, <2>1, AllNumbers
<1> QED
  BY <1>1, <1>2, <1>5 DEF S, n

(***************************************************************************)
(* The invariant.                                                          *)
(***************************************************************************)

\* What a connection has given to the book, or to the buffer, so far.
Got == IF Ready THEN IF book.id > since THEN book.id ELSE since
       ELSE IF buffer = << >> THEN since ELSE buffer[Len(buffer)].last

\* It stays so, except that a snapshot that outlives its connection may come last.
GoesOn == "overlap" \notin faults \/ ~Ready

\* On the wire there is all that Binance has sent and the book has not got.
WireGoesOn ==
  /\ conn # "up" => wire = << >>
  /\ \A k \in DOMAIN wire : wire[k] # Trade => IsDiff(wire[k], sent)
  /\ \A k, l \in DOMAIN wire :
       k < l /\ wire[k] # Trade /\ wire[l] # Trade => wire[k].last < wire[l].first
  /\ ~Ready => \A k \in DOMAIN wire : wire[k] # Trade => Got < wire[k].first
  /\ GoesOn /\ conn = "up" =>
       \A u \in Got + 1 .. sent :
         \E k \in DOMAIN wire : wire[k] # Trade /\ u \in wire[k].first .. wire[k].last

\* No id is ahead of Binance.
IdsExist ==
  /\ \A f \in Fetch : fetches[f].id <= Len(hist)
  /\ book # NoBook => book.id <= Len(hist)

\* One snapshot at a time, of the connection that is up or was up to the stop.
OneSnapshot ==
  "overlap" \notin faults =>
    /\ UnderWay # {} => conn \in {"up", "stopped"} /\ ~Ready
    /\ \A f, g \in UnderWay : f = g

\* Without gaps, all of a ready book is right.
WholeBook ==
  Gapless =>
    /\ \A f \in Fetch : fetches[f].at = "taken" => fetches[f].id >= since
    /\ Ready => book.levels = LevelsAt(book.id)
    /\ conn = "up" /\ Ready => book.id >= since

FeedInv ==
  /\ TypeOK
  /\ IdsExist /\ BufferGoesOn /\ WireGoesOn /\ OneSnapshot
  /\ WholeBook /\ UpdatedLevelsAreRight

LEMMA Facts ==
  ASSUME FeedInv
  PROVE  /\ Len(hist) \in Nat /\ sent \in 0 .. Len(hist) /\ since \in 0 .. sent
         /\ sent \in Nat /\ since \in Nat
         /\ DOMAIN buffer = 1 .. Len(buffer) /\ Len(buffer) \in Nat
         /\ DOMAIN wire = 1 .. Len(wire) /\ Len(wire) \in Nat
         /\ Ready => book \in Book /\ book.id \in Nat /\ book.id <= Len(hist)
         /\ \A f \in Fetch : fetches[f].id \in Nat
         /\ Got \in Nat
<1>1. /\ Len(hist) \in Nat /\ sent \in 0 .. Len(hist) /\ since \in 0 .. sent
      /\ sent \in Nat /\ since \in Nat
      /\ DOMAIN buffer = 1 .. Len(buffer) /\ Len(buffer) \in Nat
      /\ DOMAIN wire = 1 .. Len(wire) /\ Len(wire) \in Nat
  BY LenProperties DEF FeedInv, TypeOK
<1>2. Ready => book \in Book /\ book.id \in Nat /\ book.id <= Len(hist)
  BY DEF FeedInv, TypeOK, IdsExist, Ready, Book
<1>3. \A f \in Fetch : fetches[f].id \in Nat
  BY DEF FeedInv, TypeOK
<1>4. Got \in Nat
  <2>1. CASE Ready
    BY <1>1, <1>2, <2>1 DEF Got
  <2>2. CASE ~Ready /\ buffer = << >>
    BY <1>1, <2>2 DEF Got
  <2>3. CASE ~Ready /\ buffer # << >>
    <3>1. Len(buffer) \in DOMAIN buffer
      BY <1>1, <2>3, EmptySeq DEF FeedInv, TypeOK
    <3>2. buffer[Len(buffer)].last \in Nat /\ Got = buffer[Len(buffer)].last
      BY <1>1, <2>3, <3>1 DEF Got, FeedInv, BufferGoesOn, IsDiff
    <3> QED
      BY <3>2
  <2> QED
    BY <2>1, <2>2, <2>3
<1> QED
  BY <1>1, <1>2, <1>3, <1>4

\* What is received next follows what there is.
LEMMA NextFollows ==
  ASSUME FeedInv, conn = "up", wire # << >>, Head(wire) # Trade
  PROVE  /\ IsDiff(Head(wire), sent)
         /\ GoesOn => Head(wire).first <= Got + 1
         /\ ~Ready => Got < Head(wire).first
<1> DEFINE d == Head(wire)
<1>1. 1 \in DOMAIN wire /\ d = wire[1]
  BY Facts, EmptySeq DEF FeedInv, TypeOK
<1>2. IsDiff(d, sent)
  BY <1>1 DEF FeedInv, WireGoesOn
<1>3. d.first \in Nat /\ d.last \in Nat /\ d.first <= d.last /\ d.last <= sent
  BY <1>2, Facts DEF IsDiff
<1>4. ASSUME GoesOn PROVE d.first <= Got + 1
  <2>1. CASE Got + 1 > sent
    BY <1>3, <2>1, Facts
  <2>2. CASE ~(Got + 1 > sent)
    <3>1. Got + 1 \in Got + 1 .. sent
      BY <2>2, Facts
    <3>2. PICK k \in DOMAIN wire :
            wire[k] # Trade /\ Got + 1 \in wire[k].first .. wire[k].last
      BY <1>4, <3>1 DEF FeedInv, WireGoesOn
    <3>3. k = 1 \/ d.last < wire[k].first
      BY <1>1, <3>2, Facts DEF FeedInv, WireGoesOn
    <3>4. wire[k].first \in Nat
      BY <3>2, Facts DEF FeedInv, WireGoesOn, IsDiff
    <3> QED
      BY <1>1, <1>3, <3>2, <3>3, <3>4, Facts
  <2> QED
    BY <2>1, <2>2
<1>5. ~Ready => Got < d.first
  BY <1>1 DEF FeedInv, WireGoesOn
<1> QED
  BY <1>2, <1>4, <1>5

\* Without what is received, the wire still holds what comes after it.
LEMMA ReadOn ==
  ASSUME FeedInv, wire # << >>
  PROVE  /\ Tail(wire) \in Seq(Message) /\ DOMAIN Tail(wire) = 1 .. Len(wire) - 1
         /\ \A k \in DOMAIN Tail(wire) :
              k + 1 \in DOMAIN wire /\ Tail(wire)[k] = wire[k + 1]
         /\ \A k \in DOMAIN wire : k = 1 \/ k - 1 \in DOMAIN Tail(wire)
<1>1. Len(wire) \in Nat /\ Len(wire) >= 1 /\ wire \in Seq(Message)
  BY Facts, EmptySeq DEF FeedInv, TypeOK
<1>2. /\ Tail(wire) \in Seq(Message) /\ Len(Tail(wire)) = Len(wire) - 1
      /\ \A k \in 1 .. Len(wire) - 1 : Tail(wire)[k] = wire[k + 1]
  BY <1>1, HeadTailProperties
<1>3. DOMAIN Tail(wire) = 1 .. Len(wire) - 1
  BY <1>1, <1>2, LenProperties
<1> QED
  BY <1>1, <1>2, <1>3, Facts

\* The book or the buffer it goes to, once it is received, is right again.
LEMMA AppliedFollows ==
  ASSUME FeedInv, conn = "up", Ready, wire # << >>, Head(wire) # Trade
  PROVE  LET b == Applied(book, Head(wire))
         IN  /\ b \in Book /\ b.ready
             /\ b.id >= book.id /\ b.id >= Head(wire).last /\ b.id <= Len(hist)
             /\ "overlap" \notin faults => Recent(b)
             /\ Gapless => Whole(b)
<1> DEFINE d == Head(wire)
           b == Applied(book, d)
<1>1. /\ IsDiff(d, sent) /\ d.first \in Nat /\ d.last \in Nat /\ d.last <= sent
      /\ "overlap" \notin faults => d.first <= Got + 1
  BY NextFollows, Facts DEF IsDiff, GoesOn
<1>2. /\ book \in Book /\ book.ready /\ book.id \in Nat /\ book.id <= Len(hist)
      /\ Got = IF book.id > since THEN book.id ELSE since
  BY Facts DEF Ready, Got
<1> HIDE DEF d
<1>3. /\ b \in Book /\ b.ready
      /\ b.id = IF d.last <= book.id THEN book.id ELSE d.last
  BY <1>1, <1>2, AppliedIsBook
<1>4. ASSUME "overlap" \notin faults PROVE Recent(b)
  <2>1. Recent(book)
    BY <1>4 DEF FeedInv, UpdatedLevelsAreRight, Recent
  <2>2. d.first <= book.id + 1 \/ d.first <= since + 1
    BY <1>1, <1>2, <1>4
  <2> QED
    BY <1>1, <1>2, <2>1, <2>2, AppliedRecent DEF FeedInv
<1>5. ASSUME Gapless PROVE Whole(b)
  <2>1. Whole(book) /\ book.id >= since /\ "overlap" \notin faults
    BY <1>5 DEF FeedInv, WholeBook, Whole, Gapless
  <2>2. d.first <= book.id + 1
    BY <1>1, <1>2, <2>1, Facts
  <2> QED
    BY <1>1, <1>2, <2>1, <2>2, AppliedWhole DEF FeedInv
<1> QED
  BY <1>1, <1>2, <1>3, <1>4, <1>5, Facts DEF d

\* ... and so is a snapshot with the diffs that have come since.
LEMMA SnapshotIsRight ==
  ASSUME FeedInv, NEW f \in Fetch, fetches[f].at = "taken",
         NEW b \in Answer(fetches[f].id)
  PROVE  LET c == CaughtUp(b)
         IN  /\ c \in Book /\ c.ready /\ c.id <= Len(hist)
             /\ buffer # << >> => c.id >= buffer[Len(buffer)].last
             /\ Recent(c)
             /\ Gapless => Whole(c) /\ c.id >= since
<1> DEFINE c == CaughtUp(b)
<1>1. /\ b \in Book /\ b.ready /\ b.id <= Len(hist) /\ b.id \in Nat
      /\ \/ b.id = fetches[f].id /\ Whole(b)
         \/ b.id = 0 /\ "refused" \in faults
  <2>1. CASE b = [levels |-> LevelsAt(fetches[f].id), id |-> fetches[f].id, ready |-> TRUE]
    <3>1. LevelsAt(fetches[f].id) \subseteq Price
      BY DEF LevelsAt
    <3> QED
      BY <2>1, <3>1, Facts DEF Book, Whole, FeedInv, IdsExist
  <2>2. CASE b = [EmptyBook EXCEPT !.ready = TRUE] /\ "refused" \in faults
    <3>1. b = [levels |-> {}, id |-> 0, ready |-> TRUE]
      BY <2>2 DEF EmptyBook
    <3>2. b \in Book
      BY <3>1 DEF Book
    <3> QED
      BY <2>2, <3>1, <3>2, Facts
  <2> QED
    BY <2>1, <2>2 DEF Answer
<1>2. Recent(b)
  BY <1>1, Facts DEF Recent, Whole
<1>3. Brought(b, c, Len(buffer))
  BY <1>1, <1>2, CaughtUpIsRight DEF FeedInv
<1>4. c \in Book /\ c.ready /\ c.id <= Len(hist) /\ Recent(c) /\ c.id \in Nat
  BY <1>1, <1>3 DEF Brought, Book
<1>5. buffer # << >> => c.id >= buffer[Len(buffer)].last
  <2>1. buffer # << >> => Len(buffer) > 0
    BY Facts, EmptySeq DEF FeedInv, TypeOK
  <2> QED
    BY <1>3, <2>1 DEF Brought
<1>6. ASSUME Gapless PROVE Whole(c) /\ c.id >= since
  <2>1. Whole(b) /\ b.id >= since
    BY <1>1, <1>6 DEF Gapless, FeedInv, WholeBook
  <2> QED
    BY <1>1, <1>3, <1>4, <2>1, Facts DEF Brought
<1> QED
  BY <1>4, <1>5, <1>6

(***************************************************************************)
(* Binance: its updates, diffs, trades and snapshots.                      *)
(***************************************************************************)

LEMMA InitInv == Init => FeedInv
<1> SUFFICES ASSUME Init PROVE FeedInv
  OBVIOUS
<1>1. /\ hist \in Seq(Price) /\ buffer \in Seq(Message) /\ wire \in Seq(Message)
      /\ Len(hist) = 0 /\ DOMAIN buffer = {} /\ DOMAIN wire = {}
  BY EmptySeq, LenProperties DEF Init
<1>2. TypeOK
  <2>1. fetches \in [Fetch -> [at: {"none", "asked", "taken"}, id: Nat]]
    BY DEF Init, NoFetch
  <2>2. since \in 0 .. sent /\ sent \in 0 .. Len(hist)
    BY <1>1 DEF Init
  <2> QED
    BY <1>1, <2>1, <2>2 DEF Init, TypeOK
<1>3. IdsExist
  BY <1>1 DEF Init, IdsExist, NoFetch
<1>4. BufferGoesOn /\ WireGoesOn /\ UpdatedLevelsAreRight
  BY <1>1 DEF Init, BufferGoesOn, WireGoesOn, UpdatedLevelsAreRight, Ready
<1>5. OneSnapshot
  BY DEF Init, OneSnapshot, UnderWay
<1>6. WholeBook
  BY DEF Init, WholeBook, Ready, NoFetch
<1> QED
  BY <1>2, <1>3, <1>4, <1>5, <1>6 DEF FeedInv

LEMMA UpdateKeeps ==
  ASSUME FeedInv, Update
  PROVE  FeedInv'
<1>1. PICK p \in Price : hist' = Append(hist, p)
  BY DEF Update
<1>2. UNCHANGED <<faults, book, buffer, conn, since, sent, wire, busy, fetches>>
  BY DEF Update, stream
<1>3. /\ hist \in Seq(Price) /\ hist' \in Seq(Price) /\ Len(hist') = Len(hist) + 1
      /\ \A i \in 1 .. Len(hist) : hist'[i] = hist[i]
  BY <1>1, AppendProperties DEF FeedInv, TypeOK
<1>4. \A n \in Nat : n <= Len(hist) => LevelsOf(hist', n) = LevelsOf(hist, n)
  BY <1>1, <1>3, LevelsKept
<1>5. (Ready' <=> Ready) /\ (Gapless' <=> Gapless) /\ UnderWay' = UnderWay
  BY <1>2 DEF Ready, Gapless, UnderWay
<1>6. TypeOK'
  BY <1>2, <1>3, Facts DEF FeedInv, TypeOK
<1>7. IdsExist'
  <2>1. \A f \in Fetch : fetches'[f].id <= Len(hist')
    BY <1>2, <1>3, Facts DEF FeedInv, IdsExist
  <2>2. book # NoBook => book.id <= Len(hist')
    BY <1>3, Facts DEF FeedInv, IdsExist, TypeOK, Book
  <2> QED
    BY <1>2, <2>1, <2>2 DEF IdsExist
<1>8. BufferGoesOn' /\ WireGoesOn'
  BY <1>2, <1>5 DEF FeedInv, BufferGoesOn, WireGoesOn, GoesOn, IsDiff, Got
<1>9. OneSnapshot'
  BY <1>2, <1>5 DEF FeedInv, OneSnapshot
<1>10. WholeBook'
  <2>1. ASSUME Gapless, Ready PROVE book.levels = LevelsOf(hist', book.id)
    <3>1. book.levels = LevelsOf(hist, book.id)
      BY <2>1 DEF FeedInv, WholeBook, LevelsAt, LevelsOf
    <3> QED
      BY <1>4, <2>1, <3>1, Facts
  <2>2. ASSUME Gapless, Ready PROVE (book.levels = LevelsAt(book.id))'
    BY <1>2, <2>1, <2>2 DEF LevelsAt, LevelsOf
  <2>3. ASSUME Gapless
        PROVE  /\ \A f \in Fetch : fetches[f].at = "taken" => fetches[f].id >= since
               /\ conn = "up" /\ Ready => book.id >= since
    BY <2>3 DEF FeedInv, WholeBook
  <2> QED
    BY <1>2, <1>5, <2>2, <2>3 DEF WholeBook
<1>11. UpdatedLevelsAreRight'
  <2> SUFFICES ASSUME "overlap" \notin faults, conn = "up", Ready,
                      NEW i \in since + 1 .. book.id
               PROVE  hist'[i] \in book.levels <=> hist'[i] \in LevelsOf(hist', book.id)
    BY <1>2, <1>5 DEF UpdatedLevelsAreRight, LevelsAt, LevelsOf
  <2>1. i \in 1 .. Len(hist)
    BY Facts
  <2> QED
    BY <1>3, <1>4, <2>1, Facts DEF FeedInv, UpdatedLevelsAreRight, LevelsAt, LevelsOf
<1> QED
  BY <1>6, <1>7, <1>8, <1>9, <1>10, <1>11 DEF FeedInv

\* Nothing the book is made of changes.
LEMMA BookKeeps ==
  ASSUME FeedInv, UNCHANGED <<faults, hist, book, since>>
  PROVE  /\ (Ready' <=> Ready) /\ (Gapless' <=> Gapless)
         /\ book # NoBook => (book.id <= Len(hist))'
         /\ \A n : LevelsOf(hist', n) = LevelsOf(hist, n)
         /\ conn' = conn => UpdatedLevelsAreRight'
         /\ conn' # "up" => UpdatedLevelsAreRight'
         /\ /\ Gapless =>
                 \A f \in Fetch : fetches'[f].at = "taken" => fetches'[f].id >= since
            /\ conn' # "up" \/ conn' = conn
            => WholeBook'
<1>1. (Ready' <=> Ready) /\ (Gapless' <=> Gapless)
  BY DEF Ready, Gapless
<1>2. book # NoBook => (book.id <= Len(hist))'
  BY DEF FeedInv, IdsExist
<1>3. \A n : LevelsOf(hist', n) = LevelsOf(hist, n)
  BY DEF LevelsOf
<1>4. conn' = conn \/ conn' # "up" => UpdatedLevelsAreRight'
  BY <1>1 DEF FeedInv, UpdatedLevelsAreRight, LevelsAt
<1>5. ASSUME Gapless =>
               \A f \in Fetch : fetches'[f].at = "taken" => fetches'[f].id >= since,
             conn' # "up" \/ conn' = conn
      PROVE  WholeBook'
  BY <1>1, <1>5 DEF FeedInv, WholeBook, LevelsAt
<1> QED
  BY <1>1, <1>2, <1>3, <1>4, <1>5

LEMMA GotIsSent ==
  ASSUME FeedInv, ~Ready
  PROVE  Got <= sent
<1>1. CASE buffer = << >>
  BY <1>1, Facts DEF Got
<1>2. CASE buffer # << >>
  <2>1. Len(buffer) \in DOMAIN buffer
    BY <1>2, Facts, EmptySeq DEF FeedInv, TypeOK
  <2> QED
    BY <1>2, <2>1, Facts DEF Got, FeedInv, BufferGoesOn, IsDiff
<1> QED
  BY <1>1, <1>2

LEMMA SendsDiffKeeps ==
  ASSUME FeedInv, SendsDiff
  PROVE  FeedInv'
<1> DEFINE d == Diff(sent + 1, Len(hist))
           n == Len(wire)
<1>1. /\ conn = "up" /\ sent < Len(hist) /\ wire' = Append(wire, d) /\ sent' = Len(hist)
      /\ UNCHANGED <<faults, hist, book, buffer, conn, since, busy, fetches>>
  BY DEF SendsDiff
<1>2. /\ d \in Message /\ d # Trade
      /\ d.first = sent + 1 /\ d.last = Len(hist) /\ d = Diff(d.first, d.last)
  BY Facts DEF Diff, Message, Trade
<1> HIDE DEF d
<1>3. /\ wire' \in Seq(Message) /\ DOMAIN wire' = 1 .. n + 1 /\ n \in Nat
      /\ DOMAIN wire = 1 .. n
      /\ \A k \in 1 .. n : wire'[k] = wire[k]
      /\ wire'[n + 1] = d
  BY <1>1, <1>2, AppendProperties, LenProperties DEF FeedInv, TypeOK
<1> HIDE DEF n
<1>4. Got' = Got /\ UnderWay' = UnderWay /\ (Ready' <=> Ready)
  BY <1>1 DEF Got, UnderWay, Ready
<1>5. \A e : IsDiff(e, sent) => IsDiff(e, sent')
  BY <1>1, Facts DEF IsDiff
<1>6. TypeOK'
  BY <1>1, <1>3, Facts DEF FeedInv, TypeOK
<1>7. IdsExist' /\ OneSnapshot'
  BY <1>1, <1>4 DEF FeedInv, IdsExist, OneSnapshot
<1>8. BufferGoesOn'
  BY <1>1, <1>4, <1>5 DEF FeedInv, BufferGoesOn
<1>9. WireGoesOn'
  <2>1. conn' # "up" => wire' = << >>
    BY <1>1
  <2>2. ASSUME NEW k \in DOMAIN wire', wire'[k] # Trade PROVE IsDiff(wire'[k], sent')
    <3>1. CASE k \in 1 .. n
      BY <1>3, <1>5, <2>2, <3>1 DEF FeedInv, WireGoesOn
    <3>2. CASE k = n + 1
      BY <1>1, <1>2, <1>3, <3>2, Facts DEF IsDiff
    <3> QED
      BY <1>3, <3>1, <3>2
  <2>3. ASSUME NEW k \in DOMAIN wire', NEW l \in DOMAIN wire', k < l,
               wire'[k] # Trade, wire'[l] # Trade
        PROVE  wire'[k].last < wire'[l].first
    <3>1. CASE l \in 1 .. n
      BY <1>3, <2>3, <3>1 DEF FeedInv, WireGoesOn
    <3>2. CASE l = n + 1
      <4>1. k \in 1 .. n /\ IsDiff(wire[k], sent) /\ wire'[k] = wire[k]
        BY <1>3, <2>3, <3>2 DEF FeedInv, WireGoesOn
      <4> QED
        BY <1>2, <1>3, <3>2, <4>1, Facts DEF IsDiff
    <3> QED
      BY <1>3, <3>1, <3>2
  <2>4. ASSUME GoesOn, NEW u \in Got' + 1 .. sent'
        PROVE  \E k \in DOMAIN wire' :
                 wire'[k] # Trade /\ u \in wire'[k].first .. wire'[k].last
    <3>1. CASE u \in Got + 1 .. sent
      <4>1. PICK k \in DOMAIN wire : wire[k] # Trade /\ u \in wire[k].first .. wire[k].last
        BY <1>1, <2>4, <3>1 DEF FeedInv, WireGoesOn
      <4> QED
        BY <1>3, <4>1
    <3>2. CASE u \in sent + 1 .. Len(hist)
      BY <1>2, <1>3, <3>2
    <3> QED
      BY <1>1, <1>4, <2>4, <3>1, <3>2, Facts
  <2>5. ASSUME ~Ready, NEW k \in DOMAIN wire', wire'[k] # Trade PROVE Got < wire'[k].first
    <3>1. CASE k \in 1 .. n
      BY <1>3, <2>5, <3>1 DEF FeedInv, WireGoesOn
    <3>2. CASE k = n + 1
      BY <1>2, <1>3, <2>5, <3>2, GotIsSent, Facts
    <3> QED
      BY <1>3, <3>1, <3>2
  <2> QED
    BY <1>1, <1>4, <2>1, <2>2, <2>3, <2>4, <2>5 DEF WireGoesOn, GoesOn
<1>10. WholeBook' /\ UpdatedLevelsAreRight'
  <2>1. Gapless => \A f \in Fetch : fetches'[f].at = "taken" => fetches'[f].id >= since
    BY <1>1 DEF FeedInv, WholeBook
  <2> QED
    BY <1>1, <2>1, BookKeeps
<1> QED
  BY <1>6, <1>7, <1>8, <1>9, <1>10 DEF FeedInv

LEMMA SendsTradeKeeps ==
  ASSUME FeedInv, SendsTrade
  PROVE  FeedInv'
<1> DEFINE n == Len(wire)
<1>1. /\ conn = "up" /\ wire' = Append(wire, Trade)
      /\ UNCHANGED <<faults, hist, book, buffer, conn, since, sent, busy, fetches>>
  BY DEF SendsTrade
<1>2. /\ wire' \in Seq(Message) /\ DOMAIN wire' = 1 .. n + 1 /\ n \in Nat
      /\ DOMAIN wire = 1 .. n
      /\ \A k \in 1 .. n : wire'[k] = wire[k]
      /\ wire'[n + 1] = Trade
  <2>1. Trade \in Message
    BY DEF Trade, Message
  <2> QED
    BY <1>1, <2>1, AppendProperties, LenProperties DEF FeedInv, TypeOK
<1> HIDE DEF n
<1>3. \A k \in DOMAIN wire' : wire'[k] # Trade => k \in DOMAIN wire /\ wire'[k] = wire[k]
  BY <1>2
<1>4. Got' = Got /\ UnderWay' = UnderWay /\ (Ready' <=> Ready)
  BY <1>1 DEF Got, UnderWay, Ready
<1>5. TypeOK'
  BY <1>1, <1>2, Facts DEF FeedInv, TypeOK
<1>6. IdsExist' /\ OneSnapshot' /\ BufferGoesOn'
  BY <1>1, <1>4 DEF FeedInv, IdsExist, OneSnapshot, BufferGoesOn, IsDiff
<1>7. WireGoesOn'
  <2>1. \A k \in DOMAIN wire : k \in DOMAIN wire' /\ wire'[k] = wire[k]
    BY <1>2
  <2>2. /\ \A k \in DOMAIN wire' : wire'[k] # Trade => IsDiff(wire'[k], sent')
        /\ \A k, l \in DOMAIN wire' :
             k < l /\ wire'[k] # Trade /\ wire'[l] # Trade => wire'[k].last < wire'[l].first
    BY <1>1, <1>3 DEF FeedInv, WireGoesOn, IsDiff
  <2>3. ASSUME GoesOn, NEW u \in Got' + 1 .. sent'
        PROVE  \E k \in DOMAIN wire' :
                 wire'[k] # Trade /\ u \in wire'[k].first .. wire'[k].last
    <3>1. PICK k \in DOMAIN wire : wire[k] # Trade /\ u \in wire[k].first .. wire[k].last
      BY <1>1, <1>4, <2>3 DEF FeedInv, WireGoesOn
    <3> QED
      BY <2>1, <3>1
  <2>4. ~Ready => \A k \in DOMAIN wire' : wire'[k] # Trade => Got < wire'[k].first
    BY <1>3 DEF FeedInv, WireGoesOn
  <2> QED
    BY <1>1, <1>4, <2>2, <2>3, <2>4 DEF WireGoesOn, GoesOn
<1>8. WholeBook' /\ UpdatedLevelsAreRight'
  <2>1. Gapless => \A f \in Fetch : fetches'[f].at = "taken" => fetches'[f].id >= since
    BY <1>1 DEF FeedInv, WholeBook
  <2> QED
    BY <1>1, <2>1, BookKeeps
<1> QED
  BY <1>5, <1>6, <1>7, <1>8 DEF FeedInv

LEMMA ServesSnapshotKeeps ==
  ASSUME FeedInv, NEW f \in Fetch, ServesSnapshot(f)
  PROVE  FeedInv'
<1>1. /\ fetches[f].at = "asked"
      /\ UNCHANGED <<faults, hist, book, buffer, conn, since, sent, wire, busy>>
  BY DEF ServesSnapshot, stream
<1>2. PICK n \in IF "lag" \in faults THEN 0 .. Len(hist) ELSE {Len(hist)} :
        fetches' = [fetches EXCEPT ![f] = [at |-> "taken", id |-> n]]
  BY DEF ServesSnapshot
<1>3. n \in Nat /\ n <= Len(hist) /\ ("lag" \in faults \/ n = Len(hist))
  BY Facts
<1>4. fetches' \in [Fetch -> [at: {"none", "asked", "taken"}, id: Nat]]
  BY <1>2, <1>3 DEF FeedInv, TypeOK
<1>5. \A g \in Fetch : fetches'[g] = IF g = f THEN [at |-> "taken", id |-> n] ELSE fetches[g]
  BY <1>2 DEF FeedInv, TypeOK
<1>6. UnderWay' = UnderWay
  <2>1. fetches[f] # NoFetch /\ [at |-> "taken", id |-> n] # NoFetch
    BY <1>1 DEF NoFetch
  <2> QED
    BY <1>5, <2>1 DEF UnderWay
<1>7. Got' = Got /\ (Ready' <=> Ready)
  BY <1>1 DEF Got, Ready
<1>8. TypeOK'
  BY <1>1, <1>4 DEF FeedInv, TypeOK
<1>9. IdsExist'
  BY <1>1, <1>3, <1>5 DEF FeedInv, IdsExist
<1>10. BufferGoesOn' /\ WireGoesOn' /\ OneSnapshot'
  BY <1>1, <1>6, <1>7 DEF FeedInv, BufferGoesOn, WireGoesOn, GoesOn, OneSnapshot
<1>11. WholeBook' /\ UpdatedLevelsAreRight'
  <2>1. ASSUME Gapless, NEW g \in Fetch, fetches'[g].at = "taken"
        PROVE  fetches'[g].id >= since
    <3>1. CASE g = f
      BY <1>3, <1>5, <2>1, <3>1, Facts DEF Gapless
    <3>2. CASE g # f
      BY <1>5, <2>1, <3>2 DEF FeedInv, WholeBook
    <3> QED
      BY <3>1, <3>2
  <2> QED
    BY <1>1, <2>1, BookKeeps
<1> QED
  BY <1>8, <1>9, <1>10, <1>11 DEF FeedInv

LEMMA SnapshotFailsKeeps ==
  ASSUME FeedInv, NEW f \in Fetch, SnapshotFails(f)
  PROVE  FeedInv'
<1>1. /\ fetches' = [fetches EXCEPT ![f] = NoFetch]
      /\ UNCHANGED <<faults, hist, book, buffer, conn, since, sent, wire, busy>>
  BY DEF SnapshotFails, stream
<1>2. fetches' \in [Fetch -> [at: {"none", "asked", "taken"}, id: Nat]]
  BY <1>1 DEF FeedInv, TypeOK, NoFetch
<1>3. \A g \in Fetch : fetches'[g] = IF g = f THEN NoFetch ELSE fetches[g]
  BY <1>1 DEF FeedInv, TypeOK
<1>4. UnderWay' \subseteq UnderWay
  BY <1>3 DEF UnderWay
<1>5. Got' = Got /\ (Ready' <=> Ready)
  BY <1>1 DEF Got, Ready
<1>6. TypeOK'
  BY <1>1, <1>2 DEF FeedInv, TypeOK
<1>7. IdsExist'
  BY <1>1, <1>3, Facts DEF FeedInv, IdsExist, NoFetch
<1>8. BufferGoesOn' /\ WireGoesOn' /\ OneSnapshot'
  BY <1>1, <1>4, <1>5 DEF FeedInv, BufferGoesOn, WireGoesOn, GoesOn, OneSnapshot
<1>9. WholeBook' /\ UpdatedLevelsAreRight'
  <2>1. Gapless => \A g \in Fetch : fetches'[g].at = "taken" => fetches'[g].id >= since
    BY <1>3 DEF FeedInv, WholeBook, NoFetch
  <2> QED
    BY <1>1, <2>1, BookKeeps
<1> QED
  BY <1>6, <1>7, <1>8, <1>9 DEF FeedInv

(***************************************************************************)
(* The symbol and its connection.                                          *)
(***************************************************************************)

\* An end, with the book as it is.
LEMMA EndKeeps ==
  ASSUME FeedInv, wire' = << >>, busy' = FALSE,
         (conn' \in {"down", "ending"} /\ MayEnd) \/ conn' = "stopped",
         conn # "off",
         UNCHANGED <<faults, hist, book, buffer, since, sent, fetches>>
  PROVE  FeedInv'
<1>1. /\ UnderWay' = UnderWay /\ (Ready' <=> Ready) /\ conn' # "up"
      /\ conn' \in {"off", "down", "up", "ending", "stopped"} /\ conn' # "off"
  BY DEF UnderWay, Ready
<1>2. wire' \in Seq(Message) /\ DOMAIN wire' = {}
  BY EmptySeq, LenProperties
<1>3. TypeOK'
  BY <1>1, <1>2 DEF FeedInv, TypeOK
<1>4. IdsExist' /\ BufferGoesOn'
  BY <1>1 DEF FeedInv, IdsExist, BufferGoesOn
<1>5. WireGoesOn'
  BY <1>1, <1>2 DEF WireGoesOn
<1>6. OneSnapshot'
  BY <1>1 DEF FeedInv, OneSnapshot, MayEnd
<1>7. WholeBook' /\ UpdatedLevelsAreRight'
  <2>1. Gapless => \A f \in Fetch : fetches'[f].at = "taken" => fetches'[f].id >= since
    BY DEF FeedInv, WholeBook
  <2> QED
    BY <1>1, <2>1, BookKeeps
<1> QED
  BY <1>3, <1>4, <1>5, <1>6, <1>7 DEF FeedInv

LEMMA AddedKeeps ==
  ASSUME FeedInv, Added
  PROVE  FeedInv'
<1>1. /\ conn = "off" /\ book' = EmptyBook /\ buffer' = << >> /\ conn' = "down"
      /\ UNCHANGED <<faults, hist, since, sent, wire, busy, fetches>>
  BY DEF Added
<1>2. /\ EmptyBook \in Book /\ EmptyBook.id = 0 /\ ~EmptyBook.ready
      /\ EmptyBook # NoBook
  <2>1. EmptyBook \in Book /\ EmptyBook.id = 0 /\ ~EmptyBook.ready
    BY DEF EmptyBook, Book
  <2> QED
    BY <2>1, FeedAssumption
<1>3. buffer' \in Seq(Message) /\ DOMAIN buffer' = {}
  BY <1>1, EmptySeq, LenProperties
<1>4. wire = << >> /\ UnderWay' = UnderWay /\ ~Ready'
  BY <1>1, <1>2 DEF FeedInv, WireGoesOn, UnderWay, Ready
<1>5. TypeOK'
  BY <1>1, <1>2, <1>3 DEF FeedInv, TypeOK
<1>6. IdsExist'
  BY <1>1, <1>2, Facts DEF FeedInv, IdsExist
<1>7. BufferGoesOn' /\ WireGoesOn'
  <2>1. DOMAIN wire' = {}
    BY <1>1, <1>4, EmptySeq, LenProperties
  <2> QED
    BY <1>1, <1>3, <1>4, <2>1 DEF BufferGoesOn, WireGoesOn
<1>8. OneSnapshot'
  BY <1>1, <1>4 DEF FeedInv, OneSnapshot
<1>9. WholeBook' /\ UpdatedLevelsAreRight'
  BY <1>1, <1>4 DEF FeedInv, WholeBook, UpdatedLevelsAreRight, Gapless
<1> QED
  BY <1>5, <1>6, <1>7, <1>8, <1>9 DEF FeedInv

LEMMA RemovedKeeps ==
  ASSUME FeedInv, Removed
  PROVE  FeedInv'
<1>1. /\ conn = "ending" /\ book' = NoBook /\ buffer' = << >> /\ conn' = "off"
      /\ UNCHANGED <<faults, hist, since, sent, wire, busy, fetches>>
  BY DEF Removed
<1>2. buffer' \in Seq(Message) /\ DOMAIN buffer' = {}
  BY <1>1, EmptySeq, LenProperties
<1>3. wire = << >> /\ UnderWay' = UnderWay /\ ~Ready'
  BY <1>1 DEF FeedInv, WireGoesOn, UnderWay, Ready
<1>4. TypeOK'
  BY <1>1, <1>2 DEF FeedInv, TypeOK
<1>5. IdsExist'
  BY <1>1 DEF FeedInv, IdsExist
<1>6. BufferGoesOn' /\ WireGoesOn'
  <2>1. DOMAIN wire' = {}
    BY <1>1, <1>3, EmptySeq, LenProperties
  <2> QED
    BY <1>1, <1>2, <1>3, <2>1 DEF BufferGoesOn, WireGoesOn
<1>7. OneSnapshot'
  BY <1>1, <1>3 DEF FeedInv, OneSnapshot
<1>8. WholeBook' /\ UpdatedLevelsAreRight'
  BY <1>1, <1>3 DEF FeedInv, WholeBook, UpdatedLevelsAreRight, Gapless
<1> QED
  BY <1>4, <1>5, <1>6, <1>7, <1>8 DEF FeedInv

LEMMA ConnectsKeeps ==
  ASSUME FeedInv, Connects
  PROVE  FeedInv'
<1>1. /\ conn = "down" /\ conn' = "up" /\ since' = Len(hist) /\ sent' = Len(hist)
      /\ book' = Reset(book) /\ buffer' = << >>
      /\ UNCHANGED <<faults, hist, wire, busy>>
  BY DEF Connects
<1>2. PICK f \in Fetch \ UnderWay : fetches' = [fetches EXCEPT ![f].at = "asked"]
  BY DEF Connects, AskSnapshot
<1>3. /\ book' \in Book /\ ~book'.ready /\ book'.id = book.id /\ book \in Book
      /\ book' # NoBook
  <2>1. book \in Book
    BY <1>1 DEF FeedInv, TypeOK
  <2>2. book' \in Book /\ ~book'.ready /\ book'.id = book.id
    BY <1>1, <2>1 DEF Reset, Book
  <2> QED
    BY <2>1, <2>2, FeedAssumption
<1>4. /\ fetches' \in [Fetch -> [at: {"none", "asked", "taken"}, id: Nat]]
      /\ \A g \in Fetch : fetches'[g] = IF g = f THEN [at |-> "asked", id |-> 0] ELSE fetches[g]
  <2>1. fetches[f] = [at |-> "none", id |-> 0]
    BY DEF UnderWay, NoFetch
  <2> QED
    BY <1>2, <2>1 DEF FeedInv, TypeOK
<1>5. /\ wire' = << >> /\ DOMAIN wire' = {} /\ buffer' \in Seq(Message)
      /\ DOMAIN buffer' = {}
  BY <1>1, EmptySeq, LenProperties DEF FeedInv, WireGoesOn
<1>6. ~Ready' /\ Got' = Len(hist)
  BY <1>1, <1>3 DEF Ready, Got
<1>7. TypeOK'
  BY <1>1, <1>3, <1>4, <1>5, Facts DEF FeedInv, TypeOK
<1>8. IdsExist'
  <2>1. book.id <= Len(hist)
    BY <1>3, FeedAssumption DEF FeedInv, IdsExist
  <2>2. \A g \in Fetch : fetches'[g].id <= Len(hist)
    BY <1>4, Facts DEF FeedInv, IdsExist
  <2> QED
    BY <1>1, <1>3, <2>1, <2>2 DEF IdsExist
<1>9. BufferGoesOn'
  BY <1>5, <1>6 DEF BufferGoesOn
<1>10. WireGoesOn'
  BY <1>1, <1>5, <1>6, Facts DEF WireGoesOn
<1>11. "overlap" \notin faults => UnderWay = {}
  BY <1>1 DEF FeedInv, OneSnapshot
<1>12. OneSnapshot'
  <2>1. "overlap" \notin faults => UnderWay' \subseteq {f}
    BY <1>4, <1>11 DEF UnderWay
  <2> QED
    BY <1>1, <1>6, <2>1 DEF OneSnapshot
<1>13. WholeBook'
  <2>1. ASSUME Gapless, NEW g \in Fetch PROVE fetches'[g].at # "taken"
    BY <1>4, <1>11, <2>1 DEF Gapless, UnderWay, NoFetch
  <2> QED
    BY <1>1, <1>6, <2>1 DEF WholeBook, Gapless
<1>14. UpdatedLevelsAreRight'
  BY <1>6 DEF UpdatedLevelsAreRight
<1> QED
  BY <1>7, <1>8, <1>9, <1>10, <1>12, <1>13, <1>14 DEF FeedInv

(***************************************************************************)
(* Diffs, trades and snapshots.                                            *)
(***************************************************************************)

\* Without what is received, the wire still goes on from what there is.
LEMMA WireKeeps ==
  ASSUME FeedInv, conn = "up", wire # << >>, wire' = Tail(wire),
         UNCHANGED <<faults, conn, sent>>, Ready' <=> Ready,
         GoesOn =>
           \A u \in Got' + 1 .. sent :
             /\ u \in Got + 1 .. sent
             /\ Head(wire) # Trade => ~(u \in Head(wire).first .. Head(wire).last),
         ~Ready => Got' = IF Head(wire) = Trade THEN Got ELSE Head(wire).last
  PROVE  WireGoesOn'
<1>1. /\ \A k \in DOMAIN wire' : k + 1 \in DOMAIN wire /\ wire'[k] = wire[k + 1] /\ k \in Nat
      /\ \A k \in DOMAIN wire : k = 1 \/ k - 1 \in DOMAIN wire'
  BY ReadOn, Facts
<1>2. Head(wire) = wire[1]
  BY HeadTailProperties DEF FeedInv, TypeOK
<1>3. /\ \A k \in DOMAIN wire' : wire'[k] # Trade => IsDiff(wire'[k], sent')
      /\ \A k, l \in DOMAIN wire' :
           k < l /\ wire'[k] # Trade /\ wire'[l] # Trade => wire'[k].last < wire'[l].first
  BY <1>1 DEF FeedInv, WireGoesOn
<1>4. ASSUME GoesOn, NEW u \in Got' + 1 .. sent
      PROVE  \E k \in DOMAIN wire' :
               wire'[k] # Trade /\ u \in wire'[k].first .. wire'[k].last
  <2>1. PICK k \in DOMAIN wire : wire[k] # Trade /\ u \in wire[k].first .. wire[k].last
    BY <1>4 DEF FeedInv, WireGoesOn
  <2>2. k # 1
    BY <1>2, <1>4, <2>1
  <2>3. k - 1 \in DOMAIN wire' /\ wire'[k - 1] = wire[k]
    <3>1. k - 1 \in DOMAIN wire' /\ (k - 1) + 1 = k
      BY <1>1, <2>2, Facts
    <3> QED
      BY <1>1, <3>1
  <2> QED
    BY <2>1, <2>3
<1>5. ASSUME ~Ready, NEW k \in DOMAIN wire', wire'[k] # Trade PROVE Got' < wire'[k].first
  <2>1. k + 1 \in DOMAIN wire /\ wire'[k] = wire[k + 1] /\ 1 \in DOMAIN wire /\ 1 < k + 1
    BY <1>1, Facts
  <2>2. CASE Head(wire) = Trade
    BY <1>5, <2>1, <2>2 DEF FeedInv, WireGoesOn
  <2>3. CASE Head(wire) # Trade
    BY <1>2, <1>5, <2>1, <2>3 DEF FeedInv, WireGoesOn
  <2> QED
    BY <2>2, <2>3
<1> QED
  BY <1>3, <1>4, <1>5 DEF WireGoesOn, GoesOn

LEMMA ReceivesTradeKeeps ==
  ASSUME FeedInv, ReceivesTrade
  PROVE  FeedInv'
<1>1. /\ conn = "up" /\ wire # << >> /\ Head(wire) = Trade /\ wire' = Tail(wire)
      /\ busy' = TRUE
      /\ UNCHANGED <<faults, hist, book, buffer, conn, since, sent, fetches>>
  BY DEF ReceivesTrade
<1>2. Got' = Got /\ UnderWay' = UnderWay /\ (Ready' <=> Ready)
  BY <1>1 DEF Got, UnderWay, Ready
<1>3. TypeOK'
  BY <1>1, ReadOn DEF FeedInv, TypeOK
<1>4. IdsExist' /\ OneSnapshot' /\ BufferGoesOn'
  BY <1>1, <1>2 DEF FeedInv, IdsExist, OneSnapshot, BufferGoesOn
<1>5. WireGoesOn'
  <2>1. ~Ready => Got' = IF Head(wire) = Trade THEN Got ELSE Head(wire).last
    BY <1>1, <1>2
  <2> QED
    BY <1>1, <1>2, <2>1, WireKeeps
<1>6. WholeBook' /\ UpdatedLevelsAreRight'
  <2>1. Gapless => \A f \in Fetch : fetches'[f].at = "taken" => fetches'[f].id >= since
    BY <1>1 DEF FeedInv, WholeBook
  <2> QED
    BY <1>1, <2>1, BookKeeps
<1> QED
  BY <1>3, <1>4, <1>5, <1>6 DEF FeedInv

LEMMA CallbackReturnsKeeps ==
  ASSUME FeedInv, CallbackReturns
  PROVE  FeedInv'
<1>1. /\ busy' = FALSE
      /\ UNCHANGED <<faults, hist, book, buffer, conn, since, sent, wire, fetches>>
  BY DEF CallbackReturns
<1>2. Got' = Got /\ UnderWay' = UnderWay /\ (Ready' <=> Ready)
  BY <1>1 DEF Got, UnderWay, Ready
<1>3. TypeOK'
  BY <1>1 DEF FeedInv, TypeOK
<1>4. IdsExist' /\ OneSnapshot' /\ BufferGoesOn' /\ WireGoesOn'
  BY <1>1, <1>2 DEF FeedInv, IdsExist, OneSnapshot, BufferGoesOn, WireGoesOn, GoesOn
<1>5. WholeBook' /\ UpdatedLevelsAreRight'
  <2>1. Gapless => \A f \in Fetch : fetches'[f].at = "taken" => fetches'[f].id >= since
    BY <1>1 DEF FeedInv, WholeBook
  <2> QED
    BY <1>1, <2>1, BookKeeps
<1> QED
  BY <1>3, <1>4, <1>5 DEF FeedInv

LEMMA ReceivesDiffKeeps ==
  ASSUME FeedInv, ReceivesDiff
  PROVE  FeedInv'
<1> DEFINE d == Head(wire)
<1>1. /\ conn = "up" /\ ~busy /\ wire # << >> /\ d # Trade /\ wire' = Tail(wire)
      /\ UNCHANGED <<faults, hist, conn, since, sent, busy, fetches>>
      /\ IF book.ready
           THEN book' = Applied(book, d) /\ UNCHANGED buffer
           ELSE buffer' = Append(buffer, d) /\ UNCHANGED book
  BY DEF ReceivesDiff, Buffered
<1>2. /\ IsDiff(d, sent) /\ d.first \in Nat /\ d.last \in Nat
      /\ d.first <= d.last /\ d.last <= sent
      /\ GoesOn => d.first <= Got + 1
      /\ ~Ready => Got < d.first
      /\ d \in Message
  <2>1. d \in Message
    BY <1>1, HeadTailProperties DEF FeedInv, TypeOK
  <2> QED
    BY <1>1, <2>1, NextFollows, Facts DEF IsDiff
<1>3. book \in Book /\ book # NoBook /\ (Ready <=> book.ready)
  BY <1>1 DEF FeedInv, TypeOK, Ready
<1>4. UnderWay' = UnderWay /\ (Gapless' <=> Gapless)
  BY <1>1 DEF UnderWay, Gapless
<1>5. wire' \in Seq(Message)
  BY <1>1, ReadOn
<1>6. CASE Ready
  <2> DEFINE b == Applied(book, d)
  <2>1. book' = b /\ buffer' = buffer /\ buffer = << >>
    BY <1>1, <1>3, <1>6 DEF FeedInv, BufferGoesOn
  <2>2. /\ b \in Book /\ b.ready
        /\ b.id >= book.id /\ b.id >= d.last /\ b.id <= Len(hist)
        /\ "overlap" \notin faults => Recent(b)
        /\ Gapless => Whole(b)
    BY <1>1, <1>6, AppliedFollows
  <2>3. b.id \in Nat /\ book.id \in Nat
    BY <1>3, <2>2 DEF Book
  <2> HIDE DEF b, d
  <2>4. Ready' /\ book' # NoBook
    BY <2>1, <2>2, FeedAssumption DEF Ready
  <2>5. TypeOK'
    BY <1>1, <1>3, <1>5, <2>1, <2>2, <2>4 DEF FeedInv, TypeOK
  <2>6. IdsExist'
    BY <1>1, <2>1, <2>2 DEF FeedInv, IdsExist
  <2>7. BufferGoesOn'
    BY <1>1, <2>1 DEF FeedInv, BufferGoesOn
  <2>8. WireGoesOn'
    <3>1. /\ Got' = IF b.id > since THEN b.id ELSE since
          /\ Got = IF book.id > since THEN book.id ELSE since
      BY <1>1, <1>6, <2>1, <2>4 DEF Got
    <3>2. ASSUME NEW u \in Got' + 1 .. sent
          PROVE  u \in Got + 1 .. sent /\ ~(u \in d.first .. d.last)
      BY <1>2, <2>2, <2>3, <3>1, <3>2, Facts
    <3> QED
      BY <1>1, <1>6, <2>4, <3>2, WireKeeps DEF d
  <2>9. OneSnapshot'
    BY <1>1, <1>4, <1>6, <2>4 DEF FeedInv, OneSnapshot
  <2>10. WholeBook'
    <3>1. ASSUME Gapless
          PROVE  /\ \A f \in Fetch : fetches[f].at = "taken" => fetches[f].id >= since
                 /\ book.id >= since
      BY <1>1, <1>6, <3>1 DEF FeedInv, WholeBook
    <3>2. Gapless => (book.levels = LevelsAt(book.id))'
      BY <1>1, <2>1, <2>2 DEF Whole, LevelsAt
    <3> QED
      BY <1>1, <1>4, <2>1, <2>2, <2>3, <3>1, <3>2, Facts DEF WholeBook
  <2>11. UpdatedLevelsAreRight'
    <3>1. "overlap" \notin faults => Recent(b)
      BY <2>2
    <3> QED
      BY <1>1, <2>1, <3>1 DEF UpdatedLevelsAreRight, Recent, LevelsAt
  <2> QED
    BY <2>5, <2>6, <2>7, <2>8, <2>9, <2>10, <2>11 DEF FeedInv
<1>7. CASE ~Ready
  <2> DEFINE n == Len(buffer)
  <2>1. buffer' = Append(buffer, d) /\ book' = book
    BY <1>1, <1>3, <1>7
  <2>2. /\ buffer' \in Seq(Message) /\ Len(buffer') = n + 1 /\ n \in Nat
        /\ DOMAIN buffer' = 1 .. n + 1 /\ DOMAIN buffer = 1 .. n
        /\ \A k \in 1 .. n : buffer'[k] = buffer[k]
        /\ buffer'[n + 1] = d /\ buffer' # << >>
    BY <1>2, <2>1, AppendProperties, LenProperties, EmptySeq DEF FeedInv, TypeOK
  <2>3. ~Ready' /\ Got' = d.last
    BY <1>7, <2>1, <2>2 DEF Ready, Got
  <2>4. Got = IF n = 0 THEN since ELSE buffer[n].last
    BY <1>7, EmptySeq DEF Got, FeedInv, TypeOK
  <2> HIDE DEF n, d
  <2>5. TypeOK'
    BY <1>1, <1>5, <2>1, <2>2 DEF FeedInv, TypeOK
  <2>6. IdsExist'
    BY <1>1, <2>1 DEF FeedInv, IdsExist
  <2>7. BufferGoesOn'
    <3>1. ASSUME NEW k \in DOMAIN buffer'
          PROVE  /\ IsDiff(buffer'[k], sent')
                 /\ buffer'[k].first <= (IF k = 1 THEN since' ELSE buffer'[k - 1].last) + 1
      <4>1. CASE k \in 1 .. n
        <5>1. k # 1 => k - 1 \in 1 .. n
          BY <2>2, <4>1
        <5> QED
          BY <1>1, <2>2, <4>1, <5>1 DEF FeedInv, BufferGoesOn
      <4>2. CASE k = n + 1
        <5>1. k # 1 => k - 1 = n /\ n \in 1 .. n /\ buffer'[k - 1] = buffer[n]
          BY <2>2, <4>2
        <5>2. k = 1 <=> n = 0
          BY <2>2, <4>2
        <5> QED
          BY <1>1, <1>2, <1>7, <2>2, <2>4, <4>2, <5>1, <5>2 DEF GoesOn
      <4> QED
        BY <2>2, <4>1, <4>2
    <3> QED
      BY <2>3, <3>1 DEF BufferGoesOn
  <2>8. WireGoesOn'
    <3>1. ASSUME NEW u \in Got' + 1 .. sent
          PROVE  u \in Got + 1 .. sent /\ ~(u \in d.first .. d.last)
      BY <1>2, <1>7, <2>3, <3>1, Facts
    <3>2. Got' = IF d = Trade THEN Got ELSE d.last
      BY <1>1, <2>3
    <3> QED
      BY <1>1, <1>7, <2>3, <3>1, <3>2, WireKeeps DEF d
  <2>9. OneSnapshot'
    BY <1>1, <1>4, <2>3 DEF FeedInv, OneSnapshot
  <2>10. WholeBook' /\ UpdatedLevelsAreRight'
    BY <1>1, <1>4, <2>3 DEF FeedInv, WholeBook, UpdatedLevelsAreRight
  <2> QED
    BY <2>5, <2>6, <2>7, <2>8, <2>9, <2>10 DEF FeedInv
<1> QED
  BY <1>6, <1>7

LEMMA SnapshotArrivesKeeps ==
  ASSUME FeedInv, NEW f \in Fetch, SnapshotArrives(f)
  PROVE  FeedInv'
<1>1. /\ fetches[f].at = "taken" /\ fetches' = [fetches EXCEPT ![f] = NoFetch]
      /\ UNCHANGED <<faults, hist, conn, since, sent, wire, busy>>
  BY DEF SnapshotArrives, stream
<1>2. /\ fetches' \in [Fetch -> [at: {"none", "asked", "taken"}, id: Nat]]
      /\ \A g \in Fetch : fetches'[g] = IF g = f THEN NoFetch ELSE fetches[g]
  BY <1>1 DEF FeedInv, TypeOK, NoFetch
<1>3. f \in UnderWay /\ UnderWay' = UnderWay \ {f}
  BY <1>1, <1>2 DEF UnderWay, NoFetch
<1>4. /\ \A g \in Fetch : fetches'[g].id <= Len(hist)
      /\ Gapless => \A g \in Fetch : fetches'[g].at = "taken" => fetches'[g].id >= since
  BY <1>2, Facts DEF FeedInv, IdsExist, WholeBook, NoFetch
<1>5. CASE book = NoBook
  <2>1. UNCHANGED <<book, buffer>>
    BY <1>5 DEF SnapshotArrives
  <2>2. Got' = Got /\ (Ready' <=> Ready)
    BY <1>1, <2>1 DEF Got, Ready
  <2>3. TypeOK' /\ IdsExist'
    BY <1>1, <1>2, <1>4, <2>1 DEF FeedInv, TypeOK, IdsExist
  <2>4. BufferGoesOn' /\ WireGoesOn' /\ OneSnapshot'
    BY <1>1, <1>3, <2>1, <2>2 DEF FeedInv, BufferGoesOn, WireGoesOn, GoesOn, OneSnapshot
  <2>5. WholeBook' /\ UpdatedLevelsAreRight'
    BY <1>1, <1>4, <2>1, BookKeeps
  <2> QED
    BY <2>3, <2>4, <2>5 DEF FeedInv
<1>6. CASE book # NoBook
  <2>1. PICK b \in Answer(fetches[f].id) : book' = CaughtUp(b)
    BY <1>6 DEF SnapshotArrives
  <2> DEFINE c == CaughtUp(b)
  <2>2. buffer' = << >> /\ buffer' \in Seq(Message) /\ DOMAIN buffer' = {}
    BY <1>6, EmptySeq, LenProperties DEF SnapshotArrives
  <2>3. /\ c \in Book /\ c.ready /\ c.id <= Len(hist)
        /\ buffer # << >> => c.id >= buffer[Len(buffer)].last
        /\ Recent(c)
        /\ Gapless => Whole(c) /\ c.id >= since
    BY <1>1, SnapshotIsRight
  <2>4. book' = c /\ book' # NoBook /\ conn # "off" /\ c.id \in Nat
    BY <1>6, <2>1, <2>3, FeedAssumption DEF FeedInv, TypeOK, Book
  <2> HIDE DEF c
  <2>5. Ready' /\ Got' = IF c.id > since THEN c.id ELSE since
    BY <1>1, <2>3, <2>4 DEF Ready, Got
  <2>6. TypeOK' /\ IdsExist'
    BY <1>1, <1>2, <1>4, <2>2, <2>3, <2>4 DEF FeedInv, TypeOK, IdsExist
  <2>7. BufferGoesOn'
    BY <2>2 DEF BufferGoesOn
  <2>8. "overlap" \notin faults => ~Ready
    BY <1>3 DEF FeedInv, OneSnapshot
  <2>9. WireGoesOn'
    <3>1. ASSUME "overlap" \notin faults, NEW u \in Got' + 1 .. sent
          PROVE  u \in Got + 1 .. sent
      BY <2>3, <2>4, <2>5, <2>8, <3>1, Facts DEF Got
    <3> QED
      BY <1>1, <2>5, <2>8, <3>1 DEF FeedInv, WireGoesOn, GoesOn
  <2>10. OneSnapshot'
    BY <1>1, <1>3 DEF FeedInv, OneSnapshot
  <2>11. WholeBook'
    <3>1. Gapless => (book.levels = LevelsAt(book.id))'
      BY <1>1, <2>3, <2>4 DEF Whole, LevelsAt
    <3> QED
      BY <1>1, <1>4, <2>3, <2>4, <3>1 DEF WholeBook, Gapless
  <2>12. UpdatedLevelsAreRight'
    BY <1>1, <2>3, <2>4 DEF UpdatedLevelsAreRight, Recent, LevelsAt
  <2> QED
    BY <2>6, <2>7, <2>9, <2>10, <2>11, <2>12 DEF FeedInv
<1> QED
  BY <1>5, <1>6

LEMMA FeedStep == FeedInv /\ [Next]_vars => FeedInv'
<1> SUFFICES ASSUME FeedInv, [Next]_vars PROVE FeedInv'
  OBVIOUS
<1>1. CASE Update
  BY <1>1, UpdateKeeps
<1>2. CASE SendsDiff
  BY <1>2, SendsDiffKeeps
<1>3. CASE SendsTrade
  BY <1>3, SendsTradeKeeps
<1>4. CASE Added
  BY <1>4, AddedKeeps
<1>5. CASE Removing
  BY <1>5, EndKeeps DEF Removing, Closed
<1>6. CASE Removed
  BY <1>6, RemovedKeeps
<1>7. CASE Connects
  BY <1>7, ConnectsKeeps
<1>8. CASE Drops
  BY <1>8, EndKeeps DEF Drops, Closed, FeedInv, TypeOK
<1>9. CASE Stops
  BY <1>9, EndKeeps DEF Stops, Closed
<1>10. CASE ReceivesDiff
  BY <1>10, ReceivesDiffKeeps
<1>11. CASE ReceivesTrade
  BY <1>11, ReceivesTradeKeeps
<1>12. CASE CallbackReturns
  BY <1>12, CallbackReturnsKeeps
<1>13. ASSUME NEW f \in Fetch, ServesSnapshot(f) \/ SnapshotArrives(f) \/ SnapshotFails(f)
       PROVE  FeedInv'
  BY <1>13, ServesSnapshotKeeps, SnapshotArrivesKeeps, SnapshotFailsKeeps
<1>14. CASE UNCHANGED vars
  <2>1. UNCHANGED <<faults, hist, book, buffer, conn, since, sent, wire, busy, fetches>>
    BY <1>14 DEF vars, stream
  <2>2. Got' = Got /\ UnderWay' = UnderWay /\ (Ready' <=> Ready)
    BY <2>1 DEF Got, UnderWay, Ready
  <2>3. TypeOK' /\ IdsExist' /\ BufferGoesOn' /\ WireGoesOn' /\ OneSnapshot'
    BY <2>1, <2>2
       DEF FeedInv, TypeOK, IdsExist, BufferGoesOn, WireGoesOn, GoesOn, OneSnapshot
  <2>4. Gapless => \A f \in Fetch : fetches'[f].at = "taken" => fetches'[f].id >= since
    BY <2>1 DEF FeedInv, WholeBook
  <2>5. WholeBook' /\ UpdatedLevelsAreRight'
    BY <2>1, <2>4, BookKeeps
  <2> QED
    BY <2>3, <2>5 DEF FeedInv
<1> QED
  BY <1>1, <1>2, <1>3, <1>4, <1>5, <1>6, <1>7, <1>8, <1>9, <1>10, <1>11, <1>12,
     <1>13, <1>14 DEF Next

\* The feed's state is of its types: a symbol has a book while it has a
\* connection, and the receive loop awaits a callback on an open one only.
THEOREM FeedTypeCorrect == Spec => []TypeOK
<1>1. FeedInv => TypeOK
  BY DEF FeedInv
<1> QED
  BY <1>1, InitInv, FeedStep, PTL DEF Spec

\* However late or empty a snapshot was, what Binance has updated since the
\* connection came up is right in a ready book.
THEOREM UpdatedLevelsAreRightCorrect == Spec => []UpdatedLevelsAreRight
<1>1. FeedInv => UpdatedLevelsAreRight
  BY DEF FeedInv
<1> QED
  BY <1>1, InitInv, FeedStep, PTL DEF Spec

(***************************************************************************)
(* The source book the feed implements.                                    *)
(***************************************************************************)

View ==
  IF Gapless /\ Ready THEN [id |-> book.id, levels |-> book.levels] ELSE NotReady

\* A step that is no update of Binance's and does not bring a ready book back.
LEMMA SourceStep ==
  ASSUME FeedInv, FeedInv', UNCHANGED <<faults, hist>>,
         Gapless /\ Ready /\ Ready' => book'.id >= book.id
  PROVE  Source!Advance \/ Source!Withdraw
<1>1. Gapless' <=> Gapless
  BY DEF Gapless
<1>2. CASE ~(Gapless /\ Ready')
  BY <1>1, <1>2 DEF Source!Withdraw
<1>3. CASE Gapless /\ Ready'
  <2> DEFINE n == book'.id
  <2>1. n \in 0 .. Len(hist)
    BY <1>3 DEF FeedInv, TypeOK, IdsExist, Ready, Book
  <2>2. book'.levels = Source!LevelsAt(n)
    <3>1. book'.levels = LevelsOf(hist', book'.id)
      BY <1>1, <1>3 DEF FeedInv, WholeBook, LevelsAt, LevelsOf
    <3>2. \A S : Source!Cardinality(S) = Cardinality(S)
      BY DEF Source!Cardinality, Cardinality
    <3>3. hist' = hist /\ Source!LevelsAt(n) = LevelsOf(hist, n)
      BY <3>2 DEF LevelsOf, Source!LevelsAt
    <3> QED
      BY <3>1, <3>3
  <2>3. View' = Source!Snapshot(n)
    BY <1>1, <1>3, <2>2 DEF View, Source!Snapshot
  <2>4. View # NotReady => n >= View.id
    BY <1>3 DEF View
  <2> QED
    BY <2>1, <2>3, <2>4 DEF Source!Advance, View
<1> QED
  BY <1>2, <1>3

\* The feed, reconnecting whenever the connection drops and a snapshot fails,
\* shows the engines nothing but books that Binance had, none older than the one
\* before while it stays ready.
THEOREM ImplementsSourceBookCorrect == Spec => ImplementsSourceBook
<1>1. Init => Source!Init
  BY DEF Init, Source!Init, Ready
<1>2. FeedInv /\ FeedInv' /\ [Next]_vars => [Source!Next]_(Source!vars)
  <2> SUFFICES ASSUME FeedInv, FeedInv', [Next]_vars
               PROVE  Source!Next \/ UNCHANGED Source!vars
    OBVIOUS
  <2>1. CASE Update
    <3>1. UNCHANGED <<faults, book>> /\ (\E p \in Price : hist' = Append(hist, p))
      BY <2>1 DEF Update
    <3>2. View' = View
      BY <3>1 DEF View, Gapless, Ready
    <3> QED
      BY <3>1, <3>2 DEF Source!Next, Source!Update, View
  <2>2. ASSUME UNCHANGED <<faults, hist, book>> PROVE UNCHANGED Source!vars
    BY <2>2 DEF Source!vars, Gapless, Ready
  <2>3. CASE SendsDiff \/ SendsTrade \/ Removing \/ Drops \/ Stops \/ ReceivesTrade
             \/ CallbackReturns \/ UNCHANGED vars
    BY <2>2, <2>3 DEF SendsDiff, SendsTrade, Removing, Drops, Stops, ReceivesTrade,
                      CallbackReturns, vars
  <2>4. CASE Added \/ Removed \/ Connects
    <3>1. UNCHANGED <<faults, hist>>
      BY <2>4 DEF Added, Removed, Connects
    <3>2. ~(Ready /\ Ready')
      BY <2>4 DEF Added, Removed, Connects, Reset, Ready, FeedInv, TypeOK, Book
    <3> QED
      BY <3>1, <3>2, SourceStep DEF Source!Next
  <2>5. CASE ReceivesDiff
    <3>1. UNCHANGED <<faults, hist>>
      BY <2>5 DEF ReceivesDiff
    <3>2. ASSUME Ready PROVE book'.id >= book.id
      <4>1. book' = Applied(book, Head(wire))
        BY <2>5, <3>2 DEF ReceivesDiff, Ready
      <4> QED
        BY <2>5, <3>2, <4>1, AppliedFollows DEF ReceivesDiff
    <3> QED
      BY <3>1, <3>2, SourceStep DEF Source!Next
  <2>6. ASSUME NEW f \in Fetch, ServesSnapshot(f) \/ SnapshotFails(f)
        PROVE  UNCHANGED Source!vars
    BY <2>2, <2>6 DEF ServesSnapshot, SnapshotFails
  <2>7. ASSUME NEW f \in Fetch, SnapshotArrives(f) PROVE Source!Next
    <3>1. UNCHANGED <<faults, hist>>
      BY <2>7 DEF SnapshotArrives
    <3>2. Gapless => ~Ready
      BY <2>7 DEF SnapshotArrives, FeedInv, OneSnapshot, UnderWay, Gapless, NoFetch
    <3> QED
      BY <3>1, <3>2, SourceStep DEF Source!Next
  <2> QED
    BY <2>1, <2>3, <2>4, <2>5, <2>6, <2>7 DEF Next
<1> QED
  BY <1>1, <1>2, InitInv, FeedStep, PTL DEF Spec, ImplementsSourceBook, Source!Spec

=============================================================================
