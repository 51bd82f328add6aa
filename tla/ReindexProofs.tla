--------------------------- MODULE ReindexProofs ---------------------------
(* Proofs about the index: what a run leaves in the tables, with which      *)
(* model, and what it prunes; and how its libraries are walked, its         *)
(* documents cut up and its search answered.                                *)
EXTENDS Reindex, Chunking, Crawl, Search, Integers, FiniteSetTheorems, SequenceTheorems, WellFoundedInduction, TLAPS

Busy == run.pc \notin {"none", "setup"}
InDocument == run.pc \in {"clear", "embed", "record"}
Crawls == run.pc \in {"visit", "clear", "embed", "record"}
Prunes == run.pc \in {"prune", "prune row"}

(* A run that writes knows of which document, and which text.              *)
Typed ==
    /\ TypeOK
    /\ InDocument => run.doc \in Docs /\ run.body \in Texts
    /\ run.pc = "prune row" => run.doc \in Docs

-----------------------------------------------------------------------------
(* The listing.                                                            *)

Distinct(s) == \A i, j \in 1 .. Len(s) : s[i] = s[j] => i = j

(* A listing is a sequence of items without repetition.                    *)
LEMMA Listings == Orders = {s \in Seq(Docs) : Distinct(s)}
<1>1. ASSUME NEW s \in Orders
      PROVE  s \in Seq(Docs) /\ Distinct(s)
  BY <1>1 DEF Orders, Distinct
<1>2. ASSUME NEW s \in Seq(Docs), Distinct(s)
      PROVE  s \in Orders
  <2>1. PICK n \in Nat : n = Len(s)
    OBVIOUS
  <2>2. s \in [1 .. n -> Docs] /\ DOMAIN s = 1 .. n
    BY <2>1
  <2>3. s \in Injection(1 .. n, Docs)
    BY <1>2, <2>1, <2>2 DEF Distinct, Injection, IsInjective
  <2>4. Cardinality(1 .. n) <= Cardinality(Docs) /\ Cardinality(1 .. n) = n
    <3>1. Cardinality(1 .. n) <= Cardinality(Docs)
      BY <2>3, FS_Injection, ReindexAssumption
    <3>2. Cardinality(1 .. n) = IF 1 > n THEN 0 ELSE n - 1 + 1
      BY FS_Interval
    <3> QED
      BY <3>1, <3>2
  <2>5. n \in 0 .. Cardinality(Docs)
    BY <2>4, FS_CardinalityType, ReindexAssumption
  <2> QED
    BY <1>2, <2>1, <2>2, <2>5 DEF Orders, Distinct
<1> QED
  BY <1>1, <1>2

(* A new item at the head and an item taken out leave a listing.           *)
LEMMA Added ==
    ASSUME NEW s \in Orders, NEW d \in Docs, d \notin Items(s)
    PROVE  <<d>> \o s \in Orders
<1>1. s \in Seq(Docs) /\ Distinct(s) /\ <<d>> \in Seq(Docs) /\ Len(<<d>>) = 1 /\ <<d>>[1] = d
  BY Listings
<1>2. PICK t : t = <<d>> \o s
  OBVIOUS
<1>3. /\ t \in Seq(Docs) /\ Len(t) = 1 + Len(s)
      /\ \A i \in 1 .. 1 + Len(s) : t[i] = IF i <= 1 THEN d ELSE s[i - 1]
  <2>1. /\ t \in Seq(Docs) /\ Len(t) = Len(<<d>>) + Len(s)
        /\ \A i \in 1 .. Len(<<d>>) + Len(s) : t[i] = IF i <= Len(<<d>>) THEN <<d>>[i] ELSE s[i - Len(<<d>>)]
    BY <1>1, <1>2, ConcatProperties
  <2> QED
    BY <1>1, <2>1
<1>4. \A i \in 1 .. Len(s) : s[i] # d
  BY <1>1 DEF Items
<1>5. Distinct(t)
  <2>1. ASSUME NEW i \in 1 .. Len(t), NEW j \in 1 .. Len(t), t[i] = t[j]
        PROVE  i = j
    <3>1. CASE i = 1
      BY <1>1, <1>3, <1>4, <2>1, <3>1
    <3>2. CASE j = 1
      BY <1>1, <1>3, <1>4, <2>1, <3>2
    <3>3. CASE i > 1 /\ j > 1
      <4>1. i - 1 \in 1 .. Len(s) /\ j - 1 \in 1 .. Len(s)
        BY <1>1, <1>3, <3>3
      <4>2. s[i - 1] = s[j - 1]
        BY <1>3, <2>1, <3>3
      <4> QED
        BY <1>1, <4>1, <4>2 DEF Distinct
    <3> QED
      BY <1>1, <1>3, <3>1, <3>2, <3>3
  <2> QED
    BY <2>1 DEF Distinct
<1> QED
  BY <1>2, <1>3, <1>5, Listings

LEMMA Removed ==
    ASSUME NEW s \in Orders, NEW k \in DOMAIN s
    PROVE  SubSeq(s, 1, k - 1) \o SubSeq(s, k + 1, Len(s)) \in Orders
<1>1. s \in Seq(Docs) /\ Distinct(s) /\ k \in 1 .. Len(s) /\ Len(s) \in Nat
  BY Listings
<1>2. PICK a : a = SubSeq(s, 1, k - 1)
  OBVIOUS
<1>3. PICK b : b = SubSeq(s, k + 1, Len(s))
  OBVIOUS
<1>4. PICK t : t = a \o b
  OBVIOUS
<1>5. /\ a \in Seq(Docs) /\ Len(a) = k - 1
      /\ \A i \in 1 .. k - 1 : a[i] = s[i]
  <2>1. \A i \in 1 .. k - 1 : s[i] \in Docs
    BY <1>1
  <2>2. /\ a \in Seq(Docs) /\ Len(a) = IF 1 <= k - 1 THEN k - 1 - 1 + 1 ELSE 0
        /\ \A i \in 1 .. k - 1 - 1 + 1 : a[i] = s[1 + i - 1]
    BY <1>1, <1>2, <2>1, SubSeqProperties
  <2> QED
    BY <1>1, <2>2
<1>6. /\ b \in Seq(Docs) /\ Len(b) = Len(s) - k
      /\ \A i \in 1 .. Len(s) - k : b[i] = s[k + i]
  <2>1. \A i \in k + 1 .. Len(s) : s[i] \in Docs
    BY <1>1
  <2>2. /\ b \in Seq(Docs) /\ Len(b) = IF k + 1 <= Len(s) THEN Len(s) - (k + 1) + 1 ELSE 0
        /\ \A i \in 1 .. Len(s) - (k + 1) + 1 : b[i] = s[k + 1 + i - 1]
    BY <1>1, <1>3, <2>1, SubSeqProperties
  <2> QED
    BY <1>1, <2>2
<1>7. /\ t \in Seq(Docs) /\ Len(t) = Len(s) - 1
      /\ \A i \in 1 .. Len(s) - 1 : t[i] = IF i <= k - 1 THEN s[i] ELSE s[i + 1]
  <2>1. /\ t \in Seq(Docs) /\ Len(t) = Len(a) + Len(b)
        /\ \A i \in 1 .. Len(a) + Len(b) : t[i] = IF i <= Len(a) THEN a[i] ELSE b[i - Len(a)]
    BY <1>4, <1>5, <1>6, ConcatProperties
  <2>2. Len(t) = Len(s) - 1
    BY <1>1, <1>5, <1>6, <2>1
  <2>3. ASSUME NEW i \in 1 .. Len(s) - 1
        PROVE  t[i] = IF i <= k - 1 THEN s[i] ELSE s[i + 1]
    <3>1. CASE i <= k - 1
      <4>1. Len(a) = k - 1 /\ Len(b) = Len(s) - k
        BY <1>5, <1>6
      <4>2. i \in 1 .. Len(a) + Len(b) /\ i <= Len(a) /\ i \in 1 .. k - 1
        BY <1>1, <3>1, <4>1
      <4>3. t[i] = a[i] /\ a[i] = s[i]
        BY <1>5, <2>1, <4>2
      <4> QED
        BY <3>1, <4>3
    <3>2. CASE i > k - 1
      <4>1. i - (k - 1) \in 1 .. Len(s) - k /\ k + (i - (k - 1)) = i + 1
        BY <1>1, <3>2
      <4>2. t[i] = b[i - (k - 1)]
        <5>1. Len(a) = k - 1 /\ Len(b) = Len(s) - k
          BY <1>5, <1>6
        <5>2. i \in 1 .. Len(a) + Len(b) /\ ~(i <= Len(a))
          BY <1>1, <3>2, <5>1
        <5>3. t[i] = b[i - Len(a)]
          BY <2>1, <5>2
        <5> QED
          BY <5>1, <5>3
      <4>3. b[i - (k - 1)] = s[i + 1]
        BY <1>6, <4>1
      <4> QED
        BY <1>1, <3>2, <4>2, <4>3
    <3> QED
      BY <1>1, <3>1, <3>2
  <2> QED
    BY <2>1, <2>2, <2>3
<1>8. Distinct(t)
  <2>1. ASSUME NEW i \in 1 .. Len(s) - 1, NEW j \in 1 .. Len(s) - 1, t[i] = t[j]
        PROVE  i = j
    <3>1. PICK m \in 1 .. Len(s) : t[i] = s[m] /\ m = IF i <= k - 1 THEN i ELSE i + 1
      BY <1>1, <1>7
    <3>2. PICK n \in 1 .. Len(s) : t[j] = s[n] /\ n = IF j <= k - 1 THEN j ELSE j + 1
      BY <1>1, <1>7
    <3>3. m = n
      BY <1>1, <2>1, <3>1, <3>2 DEF Distinct
    <3> QED
      BY <1>1, <3>1, <3>2, <3>3
  <2> QED
    BY <1>7, <2>1 DEF Distinct
<1> QED
  BY <1>2, <1>3, <1>4, <1>7, <1>8, Listings

-----------------------------------------------------------------------------
(* The run.                                                                *)

(* a is r but for what the history says of it.                             *)
SamePlace(a, r) ==
    /\ a \in Working
    /\ a.pc = r.pc /\ a.mode = r.mode /\ a.model = r.model /\ a.existing = r.existing
    /\ a.seen = r.seen /\ a.start = r.start /\ a.queue = r.queue /\ a.full = r.full
    /\ a.processed = r.processed /\ a.doc = r.doc /\ a.body = r.body /\ a.todo = r.todo
    /\ a.wrote = r.wrote /\ a.sound = r.sound

(* a is r after the head of its queue was taken, with what it had seen     *)
(* then.                                                                   *)
After(a, r, met) ==
    /\ a \in Working
    /\ a.pc = r.pc /\ a.mode = r.mode /\ a.model = r.model /\ a.existing = r.existing
    /\ a.seen = met /\ a.start = r.start /\ a.queue = Tail(r.queue) /\ a.full = r.full
    /\ a.processed = r.processed + 1 /\ a.doc = r.doc /\ a.body = r.body /\ a.todo = r.todo
    /\ a.wrote = r.wrote /\ a.quiet = r.quiet /\ a.sound = r.sound

LEMMA BusyRun ==
    ASSUME TypeOK
    PROVE  /\ Busy => run \in Working /\ run # NoRun
           /\ run \in Working => Busy
           /\ ~Busy => run = NoRun \/ run \in Accepted
           /\ run \in Accepted => run.pc = "setup" /\ run # NoRun
           /\ run.pc = "setup" => run \in Accepted
<1>1. NoRun.pc = "none"
  BY DEF NoRun
<1>2. \A r \in Accepted : r.pc = "setup"
  BY DEF Accepted
<1>3. \A r \in Working : r.pc \in {"page", "visit", "clear", "embed", "record", "prune", "prune row"}
  BY DEF Working
<1> QED
  BY <1>1, <1>2, <1>3 DEF TypeOK, Busy

LEMMA DisturbedRun ==
    ASSUME NEW r \in Working
    PROVE  SamePlace(Disturbed(r), r) /\ Disturbed(r).quiet = FALSE
<1>1. r # NoRun /\ r.pc # "setup"
  <2>1. NoRun.pc = "none"
    BY DEF NoRun
  <2>2. r.pc # "none" /\ r.pc # "setup"
    BY DEF Working
  <2> QED
    BY <2>1, <2>2
<1>2. PICK a : a = [r EXCEPT !.quiet = FALSE]
  OBVIOUS
<1>3. SamePlace(a, r) /\ a.quiet = FALSE
  BY <1>2 DEF SamePlace, Working
<1>4. Disturbed(r) = a
  BY <1>1, <1>2 DEF Disturbed
<1> QED
  BY <1>3, <1>4

LEMMA DisturbedWorld ==
    ASSUME TypeOK, run' = Disturbed(run)
    PROVE  /\ Busy => SamePlace(run', run) /\ run'.quiet = FALSE
           /\ ~Busy => run' = run
<1>1. Busy => run \in Working
  BY BusyRun
<1>2. ~Busy => run = NoRun \/ run.pc = "setup"
  BY BusyRun
<1>3. ~Busy => run' = run
  BY <1>2 DEF Disturbed
<1> QED
  BY <1>1, <1>3, DisturbedRun

LEMMA PoppedRun ==
    ASSUME run \in Working, run.queue # <<>>
    PROVE  /\ After(Popped, run, run.seen)
           /\ \A d \in Docs : After([Popped EXCEPT !.seen = @ \cup {d}], run, run.seen \cup {d})
           /\ Head(run.queue) \in Docs
<1>1. run.queue \in Seq(Docs)
  BY DEF Working
<1>2. Tail(run.queue) \in Seq(Docs) /\ Head(run.queue) \in Docs
  BY <1>1, HeadTailProperties
<1>3. PICK t \in Seq(Docs) : t = Tail(run.queue)
  BY <1>2
<1>4. PICK a : a = [run EXCEPT !.queue = t, !.processed = run.processed + 1]
  OBVIOUS
<1>5. a = Popped
  BY <1>3, <1>4 DEF Popped, Working
<1>6. After(a, run, run.seen)
  <2>0. run.processed \in Nat
    BY DEF Working
  <2>1. PICK n \in Nat : n = run.processed + 1
    BY <2>0
  <2>2. a = [run EXCEPT !.queue = t, !.processed = n]
    BY <1>4, <2>1
  <2>3. a \in Working
    BY <2>2 DEF Working
  <2>4. /\ a.pc = run.pc /\ a.mode = run.mode /\ a.model = run.model
        /\ a.existing = run.existing /\ a.seen = run.seen /\ a.start = run.start
        /\ a.queue = t /\ a.full = run.full /\ a.processed = n /\ a.doc = run.doc
        /\ a.body = run.body /\ a.todo = run.todo /\ a.wrote = run.wrote
        /\ a.quiet = run.quiet /\ a.sound = run.sound
    BY <2>2 DEF Working
  <2> QED
    BY <1>3, <2>1, <2>3, <2>4 DEF After
<1>7. ASSUME NEW d \in Docs
      PROVE  After([a EXCEPT !.seen = @ \cup {d}], run, run.seen \cup {d})
  <2>1. PICK b : b = [a EXCEPT !.seen = a.seen \cup {d}]
    OBVIOUS
  <2>2. After(b, run, run.seen \cup {d})
    BY <1>6, <2>1 DEF After, Working
  <2>3. b = [a EXCEPT !.seen = @ \cup {d}]
    BY <1>6, <2>1 DEF After, Working
  <2> QED
    BY <2>2, <2>3
<1> QED
  BY <1>2, <1>5, <1>6, <1>7

LEMMA BatchTypes ==
    /\ Nothing \in [Batch -> Nat]
    /\ \A b \in Batch : Just(b) \in [Batch -> Nat]
    /\ [d \in Docs |-> Nothing] \in [Docs -> [Batch -> Nat]]
    /\ [d \in Docs |-> None] \in [Docs -> OptText]
BY DEF Nothing, Just, OptText

-----------------------------------------------------------------------------
(* Types, by the part of the state.                                        *)

UpstreamTyped == library \in Orders /\ text \in [Docs -> OptText] /\ settings \in Models \cup {None}
StoreTyped ==
    /\ chunks \in [Docs -> [Batch -> Nat]]
    /\ rows \in [Docs -> OptText]
    /\ meta \in Models \cup {None}
RunTyped ==
    /\ run = NoRun \/ run \in Accepted \/ run \in Working
    /\ running \in BOOLEAN
    /\ running <=> run # NoRun
    /\ InDocument => run.doc \in Docs /\ run.body \in Texts
    /\ run.pc = "prune row" => run.doc \in Docs

LEMMA TypedParts == Typed <=> UpstreamTyped /\ StoreTyped /\ RunTyped
BY DEF Typed, TypeOK, UpstreamTyped, StoreTyped, RunTyped

LEMMA UpstreamStep ==
    ASSUME Typed, Next
    PROVE  UpstreamTyped'
<1> USE DEF UpstreamTyped
<1>0. UpstreamTyped
  BY TypedParts
<1>1. ASSUME NEW d \in Docs, AddItem(d)
      PROVE  UpstreamTyped'
  BY <1>0, <1>1, Added DEF AddItem
<1>2. ASSUME NEW d \in Docs, RemoveItem(d)
      PROVE  UpstreamTyped'
  BY <1>0, <1>2, Removed DEF RemoveItem
<1>3. ASSUME NEW d \in Docs, NEW t \in OptText, ChangeText(d, t)
      PROVE  UpstreamTyped'
  BY <1>0, <1>3 DEF ChangeText
<1>4. ASSUME NEW m \in Models \cup {None}, Configure(m)
      PROVE  UpstreamTyped'
  BY <1>0, <1>4 DEF Configure, upstream
<1>5. ASSUME NEW mode \in {"update", "rebuild"}, Reindex(mode)
      PROVE  UpstreamTyped'
  BY <1>0, <1>5 DEF Reindex, upstream
<1>6. CASE RunStep
  BY <1>0, <1>6 DEF RunStep, SetupFails, Begin, ListPage, ListFails, NextPage, ChildrenFail,
       FulltextFails, Visit, Clear, Insert, Record, DocumentFails, PruneChunks, PruneRow,
       PruneFails, Finish, Works, Fault, upstream
<1>7. CASE Crash
  BY <1>0, <1>7 DEF Crash, Fault
<1> QED
  BY <1>1, <1>2, <1>3, <1>4, <1>5, <1>6, <1>7 DEF Next

LEMMA StoreStep ==
    ASSUME Typed, Next
    PROVE  StoreTyped'
<1> USE DEF StoreTyped, store
<1>0. StoreTyped /\ RunTyped /\ UpstreamTyped
  BY TypedParts
<1>1. ASSUME NEW d \in Docs, \/ AddItem(d) \/ RemoveItem(d) \/ \E t \in OptText : ChangeText(d, t)
      PROVE  StoreTyped'
  BY <1>0, <1>1 DEF AddItem, RemoveItem, ChangeText, Edit
<1>2. ASSUME NEW m \in Models \cup {None}, Configure(m)
      PROVE  StoreTyped'
  BY <1>0, <1>2 DEF Configure
<1>3. ASSUME NEW mode \in {"update", "rebuild"}, Reindex(mode)
      PROVE  StoreTyped'
  BY <1>0, <1>3 DEF Reindex
<1>4. CASE Begin
  BY <1>0, <1>4, BatchTypes DEF Begin
<1>5. CASE \/ SetupFails \/ ListPage \/ ListFails \/ NextPage \/ ChildrenFail \/ FulltextFails
           \/ Visit \/ DocumentFails \/ PruneFails
  BY <1>0, <1>5 DEF SetupFails, ListPage, ListFails, NextPage, ChildrenFail, FulltextFails,
                    Visit, DocumentFails, PruneFails
<1>6. CASE Clear
  BY <1>0, <1>6, BatchTypes DEF Clear, RunTyped, InDocument
<1>7. CASE Insert
  <2>1. run.doc \in Docs /\ run.body \in Texts /\ run \in Working
    BY <1>0, <1>7, BusyRun, TypedParts DEF Insert, RunTyped, InDocument, Typed, Busy
  <2>2. PICK b \in Batch : b = [text |-> run.body, model |-> run.model]
    BY <2>1 DEF Batch, Working
  <2>3. chunks' = [chunks EXCEPT ![run.doc][b] = @ + 1]
    BY <1>7, <2>2 DEF Insert
  <2> QED
    BY <1>0, <1>7, <2>1, <2>2, <2>3 DEF Insert
<1>8. CASE Record
  BY <1>0, <1>8 DEF Record, RunTyped, InDocument, OptText
<1>9. ASSUME NEW d \in Docs, PruneChunks(d)
      PROVE  StoreTyped'
  BY <1>0, <1>9, BatchTypes DEF PruneChunks
<1>10. CASE PruneRow
  BY <1>0, <1>10 DEF PruneRow, OptText
<1>11. CASE Finish
  <2>1. run \in Working
    BY <1>11, BusyRun DEF Finish, Typed, Busy
  <2>2. run.model \in Models
    BY <2>1 DEF Working
  <2> QED
    BY <1>0, <1>11, <2>2 DEF Finish
<1>12. CASE Crash
  BY <1>0, <1>12 DEF Crash
<1> QED
  BY <1>1, <1>2, <1>3, <1>4, <1>5, <1>6, <1>7, <1>8, <1>9, <1>10, <1>11, <1>12
     DEF Next, RunStep

LEMMA WorkingIsRun == \A r \in Working : r # NoRun /\ r.pc \notin {"none", "setup"}
<1>1. NoRun.pc = "none"
  BY DEF NoRun
<1>2. \A r \in Working : r.pc \notin {"none", "setup"}
  BY DEF Working
<1> QED
  BY <1>1, <1>2

(* A run that goes on, from a place where it is under way.                 *)
LEMMA GoesOn ==
    ASSUME Typed, Busy, run' \in Working, running' = running,
           run'.pc \in {"clear", "embed", "record"} => run'.doc \in Docs /\ run'.body \in Texts,
           run'.pc = "prune row" => run'.doc \in Docs
    PROVE  RunTyped'
<1>1. run' # NoRun /\ running = TRUE
  BY BusyRun, WorkingIsRun DEF Typed, TypeOK
<1> QED
  BY <1>1 DEF RunTyped, InDocument

LEMMA BeganRun ==
    ASSUME Typed, run.pc = "setup", settings # None,
           NEW e \in [Docs -> OptText]
    PROVE  /\ Began(e) \in Working
           /\ Began(e).pc = "page" /\ Began(e).mode = run.mode /\ Began(e).model = settings
           /\ Began(e).existing = e /\ Began(e).seen = {} /\ Began(e).start = 0
           /\ Began(e).processed = 0 /\ Began(e).todo = {} /\ Began(e).wrote = FALSE
           /\ Began(e).sound = \A d \in Docs : RowDescribes(d)
<1>1. settings \in Models /\ run.mode \in {"update", "rebuild"}
  BY BusyRun DEF Typed, TypeOK, Accepted
<1>2. PICK w \in BOOLEAN : w = \A d \in Docs : RowDescribes(d)
  OBVIOUS
<1>3. PICK q \in Seq(Docs) : q = <<>>
  <2>1. <<>> \in Seq(Docs)
    OBVIOUS
  <2> QED
    BY <2>1, Zenon
<1>4. PICK x \in OptText : x = None
  BY DEF OptText
<1>5. PICK a : a = [pc |-> "page", mode |-> run.mode, model |-> settings, existing |-> e,
     seen |-> {}, start |-> 0, queue |-> q, full |-> FALSE, processed |-> 0,
     doc |-> None, body |-> x, todo |-> {}, wrote |-> FALSE,
     quiet |-> TRUE, sound |-> w]
  OBVIOUS
<1>6. a = Began(e)
  BY <1>2, <1>3, <1>4, <1>5 DEF Began
<1>7. a \in Working
  BY <1>1, <1>5 DEF Working
<1>8. /\ a.pc = "page" /\ a.mode = run.mode /\ a.model = settings
      /\ a.existing = e /\ a.seen = {} /\ a.start = 0
      /\ a.processed = 0 /\ a.todo = {} /\ a.wrote = FALSE /\ a.sound = w
  BY <1>5
<1> QED
  BY <1>2, <1>6, <1>7, <1>8

(* What the end of a crawl, and a page of it, make of the run.             *)
ToPrune(a, r, cut) ==
    /\ a \in Working
    /\ a.pc = "prune" /\ a.mode = r.mode /\ a.model = r.model /\ a.existing = r.existing
    /\ a.seen = r.seen /\ a.processed = r.processed
    /\ a.wrote = r.wrote /\ a.quiet = r.quiet /\ a.sound = r.sound
    /\ a.todo = IF r.mode = "update" /\ ~cut
                THEN {d \in Docs : r.existing[d] # None /\ d \notin r.seen} ELSE {}

LEMMA CrawledRun ==
    ASSUME run \in Working, NEW cut \in BOOLEAN
    PROVE  ToPrune(Crawled(cut), run, cut)
<1>1. PICK t \in SUBSET Docs : t = IF run.mode = "update" /\ ~cut
               THEN {d \in Docs : run.existing[d] # None /\ d \notin run.seen} ELSE {}
  OBVIOUS
<1>2. PICK a : a = [run EXCEPT !.pc = "prune", !.todo = t]
  OBVIOUS
<1>3. a = Crawled(cut)
  BY <1>1, <1>2 DEF Crawled
<1>4. a \in Working
  BY <1>2 DEF Working
<1>5. /\ a.pc = "prune" /\ a.mode = run.mode /\ a.model = run.model /\ a.existing = run.existing
      /\ a.seen = run.seen /\ a.processed = run.processed
      /\ a.wrote = run.wrote /\ a.quiet = run.quiet /\ a.sound = run.sound
      /\ a.todo = t
  BY <1>2 DEF Working
<1> QED
  BY <1>1, <1>3, <1>4, <1>5 DEF ToPrune

ListingEnd == IF run.start + PageSize < Len(library) THEN run.start + PageSize ELSE Len(library)

(* The page of the listing: its items, and whether there may be another.   *)
ToVisit(a, r) ==
    /\ a \in Working
    /\ a.pc = "visit" /\ a.mode = r.mode /\ a.model = r.model /\ a.existing = r.existing
    /\ a.seen = r.seen /\ a.start = r.start /\ a.processed = r.processed
    /\ a.wrote = r.wrote /\ a.quiet = r.quiet /\ a.sound = r.sound /\ a.todo = r.todo
    /\ a.full <=> r.start + PageSize <= Len(library)
    /\ Len(a.queue) = ListingEnd - r.start
    /\ \A i \in 1 .. Len(a.queue) : a.queue[i] = library[r.start + i]

LEMMA ListedRun ==
    ASSUME Typed, ListPage
    PROVE  \/ run.start >= Len(library) /\ ToPrune(run', run, FALSE)
           \/ run.start < Len(library) /\ ToVisit(run', run)
<1>1. run \in Working /\ run.start \in Nat
  BY BusyRun DEF Typed, ListPage, Busy, Working
<1>2. library \in Seq(Docs) /\ Len(library) \in Nat /\ PageSize \in Nat \ {0}
  <2>1. library \in Seq(Docs)
    BY Listings DEF Typed, TypeOK
  <2> QED
    BY <2>1, ReindexAssumption
<1>3. PICK e \in Nat : e = ListingEnd
  BY <1>1, <1>2 DEF ListingEnd
<1>4. e <= Len(library) /\ (e = run.start + PageSize \/ e = Len(library))
      /\ (e < Len(library) => e = run.start + PageSize) /\ e <= run.start + PageSize
  BY <1>1, <1>2, <1>3 DEF ListingEnd
<1>5. PICK items : items = SubSeq(library, run.start + 1, e)
  OBVIOUS
<1>6. /\ items \in Seq(Docs)
      /\ Len(items) = IF run.start < e THEN e - run.start ELSE 0
      /\ \A i \in 1 .. e - run.start : items[i] = library[run.start + i]
  <2>1. \A i \in run.start + 1 .. e : library[i] \in Docs
    BY <1>1, <1>2, <1>4
  <2>2. /\ items \in Seq(Docs)
        /\ Len(items) = IF run.start + 1 <= e THEN e - (run.start + 1) + 1 ELSE 0
        /\ \A i \in 1 .. e - (run.start + 1) + 1 : items[i] = library[run.start + 1 + i - 1]
    BY <1>1, <1>5, <2>1, SubSeqProperties
  <2> QED
    BY <1>1, <2>2
<1>7. run' = IF items = <<>> THEN Crawled(FALSE)
             ELSE [run EXCEPT !.pc = "visit", !.queue = items, !.full = Len(items) = PageSize]
  BY <1>3, <1>5 DEF ListPage, ListingEnd
<1>8. items = <<>> <=> run.start >= Len(library)
  <2>1. items = <<>> <=> Len(items) = 0
    BY <1>6
  <2> QED
    BY <1>1, <1>2, <1>4, <1>6, <2>1
<1>9. CASE items = <<>>
  BY <1>1, <1>7, <1>8, <1>9, CrawledRun
<1>10. CASE items # <<>>
  <2>1. PICK f \in BOOLEAN : f = (Len(items) = PageSize)
    OBVIOUS
  <2>2. run' = [run EXCEPT !.pc = "visit", !.queue = items, !.full = f]
    BY <1>7, <1>10, <2>1
  <2>3. run' \in Working
    BY <1>1, <1>6, <2>2 DEF Working
  <2>4. /\ run'.pc = "visit" /\ run'.mode = run.mode /\ run'.model = run.model
        /\ run'.existing = run.existing
        /\ run'.seen = run.seen /\ run'.start = run.start /\ run'.processed = run.processed
        /\ run'.wrote = run.wrote /\ run'.quiet = run.quiet /\ run'.sound = run.sound
        /\ run'.todo = run.todo /\ run'.full = f /\ run'.queue = items
    BY <1>1, <2>2 DEF Working
  <2>5. run.start < Len(library) /\ Len(items) = e - run.start
    BY <1>1, <1>2, <1>4, <1>6, <1>8, <1>10
  <2>6. f <=> run.start + PageSize <= Len(library)
    <3>1. Len(items) = PageSize <=> run.start + PageSize <= Len(library)
      BY <1>1, <1>2, <1>3, <1>4, <2>5
    <3> QED
      BY <2>1, <3>1, Zenon
  <2>7. ToVisit(run', run)
    BY <1>3, <1>6, <2>3, <2>4, <2>5, <2>6 DEF ToVisit
  <2> QED
    BY <2>5, <2>7
<1> QED
  BY <1>9, <1>10

(* The run has opened d, whose text is not the one of its row.             *)
Opened(a, r, d) ==
    /\ a \in Working
    /\ a.pc = IF r.existing[d] = None THEN "embed" ELSE "clear"
    /\ a.doc = d /\ a.body = text[d]
    /\ a.mode = r.mode /\ a.model = r.model /\ a.existing = r.existing
    /\ a.seen = r.seen \cup {d} /\ a.start = r.start /\ a.queue = Tail(r.queue)
    /\ a.full = r.full /\ a.processed = r.processed + 1 /\ a.todo = r.todo
    /\ a.wrote = r.wrote /\ a.quiet = r.quiet /\ a.sound = r.sound

LEMMA VisitedRun ==
    ASSUME Typed, Visit, NEW d, d = Head(run.queue)
    PROVE  /\ d \in Docs /\ run.queue # <<>> /\ run \in Working
           /\ \/ /\ text[d] = None \/ run.existing[d] = text[d]
                 /\ After(run', run, run.seen \cup {d})
              \/ /\ text[d] \in Texts /\ run.existing[d] # text[d]
                 /\ Opened(run', run, d)
<1>1. run \in Working /\ run.queue # <<>>
  BY BusyRun DEF Typed, Visit, Busy
<1>2. d \in Docs /\ text[d] \in OptText
  BY <1>1, PoppedRun DEF Typed, TypeOK
<1>3. PICK met : met = [Popped EXCEPT !.seen = @ \cup {d}]
  OBVIOUS
<1>4. After(met, run, run.seen \cup {d})
  BY <1>1, <1>2, <1>3, PoppedRun
<1>5. run' = IF text[d] = None \/ run.existing[d] = text[d] THEN met
             ELSE [met EXCEPT !.doc = d, !.body = text[d],
                               !.pc = IF run.existing[d] = None THEN "embed" ELSE "clear"]
  BY <1>3 DEF Visit
<1>6. CASE text[d] = None \/ run.existing[d] = text[d]
  BY <1>1, <1>2, <1>4, <1>5, <1>6
<1>7. CASE text[d] # None /\ run.existing[d] # text[d]
  <2>1. PICK x \in {"embed", "clear"} : x = IF run.existing[d] = None THEN "embed" ELSE "clear"
    OBVIOUS
  <2>2. PICK t \in Texts : t = text[d]
    BY <1>2, <1>7 DEF OptText
  <2>3. PICK u : u = Tail(run.queue)
    OBVIOUS
  <2>4. run' = [met EXCEPT !.doc = d, !.body = t, !.pc = x]
    BY <1>5, <1>7, <2>1, <2>2
  <2>5. /\ met \in Working /\ met.mode = run.mode /\ met.model = run.model
        /\ met.existing = run.existing
        /\ met.seen = run.seen \cup {d} /\ met.start = run.start /\ met.queue = u
        /\ met.full = run.full /\ met.processed = run.processed + 1 /\ met.todo = run.todo
        /\ met.wrote = run.wrote /\ met.quiet = run.quiet /\ met.sound = run.sound
    BY <1>4, <2>3 DEF After
  <2>6. run' \in Working
    BY <1>2, <2>2, <2>4, <2>5 DEF Working, OptText
  <2>7. /\ run'.pc = x /\ run'.doc = d /\ run'.body = t
        /\ run'.mode = met.mode /\ run'.model = met.model /\ run'.existing = met.existing
        /\ run'.seen = met.seen /\ run'.start = met.start /\ run'.queue = met.queue
        /\ run'.full = met.full /\ run'.processed = met.processed /\ run'.todo = met.todo
        /\ run'.wrote = met.wrote /\ run'.quiet = met.quiet /\ run'.sound = met.sound
    BY <2>4, <2>5 DEF Working
  <2>8. Opened(run', run, d)
    BY <2>1, <2>2, <2>3, <2>5, <2>6, <2>7 DEF Opened
  <2> QED
    BY <1>1, <1>2, <1>7, <2>2, <2>8
<1> QED
  BY <1>6, <1>7

(* a is r at another place, with another document and other work to do.    *)
Moved(a, r, pc, doc, todo) ==
    /\ a \in Working
    /\ a.pc = pc /\ a.doc = doc /\ a.todo = todo
    /\ a.mode = r.mode /\ a.model = r.model /\ a.existing = r.existing
    /\ a.seen = r.seen /\ a.start = r.start /\ a.queue = r.queue /\ a.full = r.full
    /\ a.processed = r.processed /\ a.body = r.body /\ a.sound = r.sound

(* The next page, and the four writes and the failures of a document and   *)
(* of a pruning.                                                           *)
LEMMA MovedRun ==
    ASSUME Typed, Busy
    PROVE  /\ Clear => Moved(run', run, "embed", run.doc, run.todo)
                       /\ run'.wrote = run.wrote /\ run'.quiet = run.quiet
           /\ Insert => Moved(run', run, "record", run.doc, run.todo)
                        /\ run'.wrote = TRUE /\ run'.quiet = run.quiet
           /\ Record => Moved(run', run, "visit", run.doc, run.todo)
                        /\ run'.wrote = run.wrote /\ run'.quiet = run.quiet
           /\ DocumentFails => Moved(run', run, "visit", run.doc, run.todo)
                               /\ run'.wrote = run.wrote /\ run'.quiet = FALSE
           /\ \A d \in Docs : PruneChunks(d) =>
                 Moved(run', run, "prune row", d, run.todo \ {d})
                 /\ run'.wrote = run.wrote /\ run'.quiet = run.quiet
           /\ PruneRow => Moved(run', run, "prune", run.doc, run.todo)
                          /\ run'.wrote = run.wrote /\ run'.quiet = run.quiet
           /\ PruneFails => \E todo \in SUBSET Docs :
                 Moved(run', run, "prune", run.doc, todo)
                 /\ run'.wrote = run.wrote /\ run'.quiet = FALSE
<1>1. run \in Working
  BY BusyRun DEF Typed
<1>2. ASSUME Clear
      PROVE  Moved(run', run, "embed", run.doc, run.todo)
             /\ run'.wrote = run.wrote /\ run'.quiet = run.quiet
  BY <1>1, <1>2 DEF Clear, Moved, Working
<1>3. ASSUME Insert
      PROVE  Moved(run', run, "record", run.doc, run.todo)
             /\ run'.wrote = TRUE /\ run'.quiet = run.quiet
  BY <1>1, <1>3 DEF Insert, Moved, Working
<1>4. ASSUME Record
      PROVE  Moved(run', run, "visit", run.doc, run.todo)
             /\ run'.wrote = run.wrote /\ run'.quiet = run.quiet
  BY <1>1, <1>4 DEF Record, Moved, Working
<1>5. ASSUME DocumentFails
      PROVE  Moved(run', run, "visit", run.doc, run.todo)
             /\ run'.wrote = run.wrote /\ run'.quiet = FALSE
  <2>1. PICK a : a = [run EXCEPT !.pc = "visit"]
    OBVIOUS
  <2>2. Moved(a, run, "visit", run.doc, run.todo) /\ a.wrote = run.wrote
    BY <1>1, <2>1 DEF Moved, Working
  <2>3. SamePlace(run', a) /\ run'.quiet = FALSE
    BY <1>5, <2>1, <2>2, DisturbedRun DEF DocumentFails, Moved
  <2> QED
    BY <2>2, <2>3 DEF Moved, SamePlace
<1>6. ASSUME NEW d \in Docs, PruneChunks(d)
      PROVE  Moved(run', run, "prune row", d, run.todo \ {d})
             /\ run'.wrote = run.wrote /\ run'.quiet = run.quiet
  <2>1. PICK t \in SUBSET Docs : t = run.todo \ {d}
    BY <1>1 DEF Working
  <2>2. run' = [run EXCEPT !.pc = "prune row", !.doc = d, !.todo = t]
    BY <1>1, <1>6, <2>1 DEF PruneChunks, Working
  <2> QED
    BY <1>1, <2>1, <2>2 DEF Moved, Working
<1>7. ASSUME PruneRow
      PROVE  Moved(run', run, "prune", run.doc, run.todo)
             /\ run'.wrote = run.wrote /\ run'.quiet = run.quiet
  BY <1>1, <1>7 DEF PruneRow, Moved, Working
<1>8. ASSUME PruneFails
      PROVE  \E todo \in SUBSET Docs :
                 Moved(run', run, "prune", run.doc, todo)
                 /\ run'.wrote = run.wrote /\ run'.quiet = FALSE
  <2>1. CASE run.pc = "prune row"
    <3>1. PICK a : a = [run EXCEPT !.pc = "prune"]
      OBVIOUS
    <3>2. Moved(a, run, "prune", run.doc, run.todo) /\ a.wrote = run.wrote
      BY <1>1, <3>1 DEF Moved, Working
    <3>3. SamePlace(run', a) /\ run'.quiet = FALSE
      BY <1>8, <2>1, <3>1, <3>2, DisturbedRun DEF PruneFails, Moved
    <3>4. run.todo \in SUBSET Docs
      BY <1>1 DEF Working
    <3> QED
      BY <3>2, <3>3, <3>4 DEF Moved, SamePlace
  <2>2. CASE run.pc = "prune"
    <3>1. PICK d \in run.todo : run' = Disturbed([run EXCEPT !.todo = @ \ {d}])
      BY <1>8, <2>2 DEF PruneFails
    <3>2. PICK t \in SUBSET Docs : t = run.todo \ {d}
      BY <1>1 DEF Working
    <3>3. PICK a : a = [run EXCEPT !.todo = t]
      OBVIOUS
    <3>4. a = [run EXCEPT !.todo = @ \ {d}]
      BY <1>1, <3>2, <3>3 DEF Working
    <3>5. Moved(a, run, "prune", run.doc, t) /\ a.wrote = run.wrote
      BY <1>1, <2>2, <3>3 DEF Moved, Working
    <3>6. SamePlace(run', a) /\ run'.quiet = FALSE
      BY <3>1, <3>4, <3>5, DisturbedRun DEF Moved
    <3> QED
      BY <3>5, <3>6 DEF Moved, SamePlace
  <2> QED
    BY <1>8, <2>1, <2>2 DEF PruneFails
<1> QED
  BY <1>2, <1>3, <1>4, <1>5, <1>6, <1>7, <1>8

(* The next page is asked for, or the crawl has returned.                  *)
LEMMA NextPageRun ==
    ASSUME Typed, NextPage
    PROVE  /\ run \in Working
           /\ \/ ~run.full /\ ToPrune(run', run, FALSE)
              \/ run.full /\ run.processed >= MaxItems /\ ToPrune(run', run, TRUE)
              \/ /\ run.full /\ run' \in Working
                 /\ run'.pc = "page" /\ run'.start = run.start + PageSize
                 /\ run'.mode = run.mode /\ run'.model = run.model
                 /\ run'.existing = run.existing /\ run'.seen = run.seen
                 /\ run'.processed = run.processed /\ run'.todo = run.todo
                 /\ run'.wrote = run.wrote /\ run'.quiet = run.quiet /\ run'.sound = run.sound
<1>1. run \in Working
  BY BusyRun DEF Typed, NextPage, Busy
<1>2. CASE ~run.full
  BY <1>1, <1>2, CrawledRun DEF NextPage
<1>3. CASE run.full /\ run.processed >= MaxItems
  BY <1>1, <1>3, CrawledRun DEF NextPage
<1>4. CASE run.full /\ ~(run.processed >= MaxItems)
  <2>1. run.start \in Nat
    BY <1>1 DEF Working
  <2>2. PICK n \in Nat : n = run.start + PageSize
    BY <2>1, ReindexAssumption
  <2>3. run' = [run EXCEPT !.pc = "page", !.start = n]
    BY <1>1, <1>4, <2>2 DEF NextPage, Working
  <2> QED
    BY <1>1, <1>4, <2>2, <2>3 DEF Working
<1> QED
  BY <1>1, <1>2, <1>3, <1>4

(* An item that is passed over: only an item that is gone leaves the run   *)
(* quiet.                                                                  *)
LEMMA SkippedRun ==
    ASSUME Typed, ChildrenFail \/ FulltextFails
    PROVE  /\ run \in Working /\ run' \in Working /\ run.queue # <<>>
           /\ run'.pc = run.pc /\ run'.mode = run.mode /\ run'.model = run.model
           /\ run'.doc = run.doc /\ run'.body = run.body /\ run'.wrote = run.wrote
           /\ run'.quiet => Head(run.queue) \notin Items(library)
<1>1. run \in Working /\ run.queue # <<>>
  BY BusyRun DEF Typed, ChildrenFail, FulltextFails, Busy
<1>2. PICK h : h = Head(run.queue)
  OBVIOUS
<1>3. h \in Docs
  BY <1>1, <1>2, PoppedRun
<1>4. PICK b : b = [Popped EXCEPT !.seen = @ \cup {h}]
  OBVIOUS
<1>5. After(b, run, run.seen \cup {h}) /\ After(Popped, run, run.seen)
  BY <1>1, <1>3, <1>4, PoppedRun
<1>6. CASE run' = Popped /\ Head(run.queue) \notin Items(library)
  BY <1>1, <1>5, <1>6 DEF After
<1>7. CASE run' = Disturbed(Popped)
  <2>1. SamePlace(run', Popped) /\ run'.quiet = FALSE
    BY <1>5, <1>7, DisturbedRun DEF After
  <2> QED
    BY <1>1, <1>5, <2>1 DEF After, SamePlace
<1>8. CASE run' = Disturbed(b)
  <2>1. SamePlace(run', b) /\ run'.quiet = FALSE
    BY <1>5, <1>8, DisturbedRun DEF After
  <2> QED
    BY <1>1, <1>5, <2>1 DEF After, SamePlace
<1>9. run' = Disturbed(b) \/ run' = Disturbed(Popped) \/ (run' = Popped /\ Head(run.queue) \notin Items(library))
  BY <1>2, <1>4 DEF ChildrenFail, FulltextFails
<1> QED
  BY <1>6, <1>7, <1>8, <1>9

LEMMA RunStepTyped ==
    ASSUME Typed, Next
    PROVE  RunTyped'
<1>0. RunTyped /\ UpstreamTyped /\ StoreTyped
  BY TypedParts
<1>1. ASSUME NEW d \in Docs, \/ AddItem(d) \/ RemoveItem(d) \/ \E t \in OptText : ChangeText(d, t)
      PROVE  RunTyped'
  <2>1. run' = Disturbed(run) /\ running' = running
    BY <1>1 DEF AddItem, RemoveItem, ChangeText, Edit
  <2>2. CASE Busy
    <3>1. SamePlace(run', run)
      BY <2>1, <2>2, DisturbedWorld DEF Typed
    <3> QED
      BY <1>0, <2>1, <2>2, <3>1, GoesOn DEF SamePlace, RunTyped, InDocument
  <2>3. CASE ~Busy
    BY <1>0, <2>1, <2>3, DisturbedWorld DEF Typed, RunTyped, InDocument
  <2> QED
    BY <2>2, <2>3
<1>2. ASSUME NEW mode \in {"update", "rebuild"}, Accept(mode)
      PROVE  RunTyped'
  <2>1. run' \in Accepted /\ running' = TRUE /\ run'.pc = "setup"
    BY <1>2 DEF Accept, Accepted
  <2>2. run' # NoRun
    BY <2>1 DEF NoRun
  <2> QED
    BY <2>1, <2>2 DEF RunTyped, InDocument
<1>3. ASSUME UNCHANGED <<run, running>>
      PROVE  RunTyped'
  BY <1>0, <1>3 DEF RunTyped, InDocument
<1>4. ASSUME End
      PROVE  RunTyped'
  BY <1>4 DEF End, RunTyped, NoRun, InDocument
<1>5. ASSUME NEW m \in Models \cup {None}, Configure(m)
      PROVE  RunTyped'
  BY <1>2, <1>3, <1>5 DEF Configure
<1>6. ASSUME NEW mode \in {"update", "rebuild"}, Reindex(mode)
      PROVE  RunTyped'
  BY <1>2, <1>6 DEF Reindex
<1>7. CASE SetupFails \/ ListFails \/ Finish \/ Crash
  BY <1>4, <1>7 DEF SetupFails, ListFails, Finish, Crash, End
<1>8. CASE Begin
  <2>1. PICK e \in [Docs -> OptText] : run' = Began(e)
    <3>1. rows \in [Docs -> OptText] /\ [d \in Docs |-> None] \in [Docs -> OptText]
      BY <1>0, BatchTypes DEF StoreTyped
    <3> QED
      BY <1>8, <3>1 DEF Begin
  <2>2. run' \in Working /\ run'.pc = "page" /\ running' = running /\ running
    BY <1>0, <1>8, <2>1, BeganRun, BusyRun DEF Begin, Typed, RunTyped
  <2> QED
    BY <2>2, <1>0, WorkingIsRun DEF RunTyped, InDocument
<1>9. CASE ListPage
  <2>1. run' \in Working /\ run'.pc \in {"prune", "visit"} /\ running' = running /\ Busy
    BY <1>9, ListedRun DEF ListPage, ToVisit, ToPrune, Busy
  <2> QED
    BY <2>1, GoesOn
<1>10. CASE NextPage
  <2>1. run' \in Working /\ run'.pc \in {"prune", "page"} /\ running' = running /\ Busy
    BY <1>10, NextPageRun DEF NextPage, ToPrune, Busy
  <2> QED
    BY <2>1, GoesOn
<1>11. CASE ChildrenFail \/ FulltextFails
  <2>1. run' \in Working /\ run'.pc = run.pc /\ run.pc = "visit" /\ running' = running /\ Busy
    BY <1>11, SkippedRun DEF ChildrenFail, FulltextFails, Busy
  <2> QED
    BY <2>1, GoesOn
<1>12. CASE Visit
  <2>1. PICK d : d = Head(run.queue)
    OBVIOUS
  <2>2. /\ run' \in Working /\ running' = running /\ Busy
        /\ \/ run'.pc = "visit"
           \/ run'.pc \in {"embed", "clear"} /\ run'.doc \in Docs /\ run'.body \in Texts
    BY <1>12, <2>1, VisitedRun DEF After, Opened, Visit, Busy
  <2> QED
    BY <2>2, GoesOn
<1>13. CASE Clear \/ Insert \/ Record \/ DocumentFails
  <2>1. /\ Busy /\ running' = running
        /\ run.doc \in Docs /\ run.body \in Texts
    BY <1>0, <1>13 DEF Clear, Insert, Record, DocumentFails, Busy, RunTyped, InDocument
  <2>2. /\ run' \in Working /\ run'.doc = run.doc /\ run'.body = run.body
        /\ run'.pc \in {"embed", "record", "visit"}
    BY <1>13, <2>1, MovedRun DEF Moved
  <2> QED
    BY <2>1, <2>2, GoesOn
<1>14. ASSUME NEW d \in Docs, PruneChunks(d)
      PROVE  RunTyped'
  <2>1. Busy /\ running' = running
    BY <1>14 DEF PruneChunks, Busy
  <2>2. run' \in Working /\ run'.doc = d /\ run'.pc = "prune row"
    BY <1>14, <2>1, MovedRun DEF Moved
  <2> QED
    BY <2>1, <2>2, GoesOn
<1>15. CASE PruneRow \/ PruneFails
  <2>1. Busy /\ running' = running
    BY <1>15 DEF PruneRow, PruneFails, Busy
  <2>2. run' \in Working /\ run'.pc = "prune"
    BY <1>15, <2>1, MovedRun DEF Moved
  <2> QED
    BY <2>1, <2>2, GoesOn
<1> QED
  BY <1>1, <1>5, <1>6, <1>7, <1>8, <1>9, <1>10, <1>11, <1>12, <1>13, <1>14, <1>15
     DEF Next, RunStep

LEMMA TypedInit == Init => Typed
<1> SUFFICES ASSUME Init PROVE Typed
  OBVIOUS
<1>1. run.pc = "none"
  BY DEF Init, NoRun
<1> QED
  BY <1>1, BatchTypes DEF Init, Typed, TypeOK, InDocument

LEMMA TypedStep == Typed /\ [Next]_vars => Typed'
<1>1. ASSUME Typed, Next
      PROVE  Typed'
  <2>1. UpstreamTyped' /\ StoreTyped' /\ RunTyped'
    BY <1>1, UpstreamStep, StoreStep, RunStepTyped
  <2> QED
    BY <2>1 DEF Typed, TypeOK, UpstreamTyped, StoreTyped, RunTyped, InDocument
<1>2. ASSUME Typed, UNCHANGED vars
      PROVE  Typed'
  BY <1>2 DEF Typed, TypeOK, vars, store, InDocument
<1> QED
  BY <1>1, <1>2

(* The library stays a listing and the tables tables; a run is at one of   *)
(* its places, and running says whether there is one: no way out of        *)
(* runReindex leaves the instance marked as being indexed.                 *)
THEOREM TypeCorrect == Spec => []TypeOK
<1>1. Typed => TypeOK
  BY DEF Typed
<1> QED
  BY <1>1, TypedInit, TypedStep, PTL DEF Spec

-----------------------------------------------------------------------------
(* Rows and chunks.                                                        *)

MatchedBy(r, c) == IF r = None THEN c = Nothing
                   ELSE \E b \in Batch : c[b] > 0 /\ b.text = r

(* What makes RowsMatchChunks inductive: before a row is written the batch *)
(* it stands for is stored, and before one is dropped nothing is.          *)
AgreeInv ==
    /\ faults \in Nat
    /\ faults = 0 =>
         /\ \A d \in Docs \ InProgress : MatchedBy(rows[d], chunks[d])
         /\ run.pc = "record" => chunks[run.doc][[text |-> run.body, model |-> run.model]] > 0
         /\ run.pc = "prune row" => chunks[run.doc] = Nothing

LEMMA AgreeMeans == AgreeInv => RowsMatchChunks
BY DEF AgreeInv, RowsMatchChunks, MatchedBy, Stored

LEMMA AgreeFault ==
    ASSUME AgreeInv, Fault
    PROVE  AgreeInv'
<1>1. faults' \in Nat /\ faults' # 0
  <2>1. faults \in Nat /\ faults' = faults + 1
    BY DEF AgreeInv, Fault
  <2> QED
    BY <2>1
<1> QED
  BY <1>1 DEF AgreeInv

LEMMA AgreeSame ==
    ASSUME AgreeInv, UNCHANGED <<chunks, rows, faults>>,
           run'.pc = run.pc,
           run.pc \in {"embed", "record", "prune row"} =>
               run'.doc = run.doc /\ run'.body = run.body /\ run'.model = run.model
    PROVE  AgreeInv'
BY DEF AgreeInv, InProgress

LEMMA AgreeOn ==
    ASSUME AgreeInv, UNCHANGED <<chunks, rows, faults>>,
           run.pc \notin {"embed", "record", "prune row"},
           run'.pc \notin {"record", "prune row"}
    PROVE  AgreeInv'
BY DEF AgreeInv, InProgress

LEMMA AgreeStep ==
    ASSUME Typed, AgreeInv, Next
    PROVE  AgreeInv'
<1> USE DEF store
<1>1. ASSUME NEW d \in Docs, \/ AddItem(d) \/ RemoveItem(d) \/ \E t \in OptText : ChangeText(d, t)
      PROVE  AgreeInv'
  <2>1. run' = Disturbed(run) /\ UNCHANGED <<chunks, rows, faults>>
    BY <1>1 DEF AddItem, RemoveItem, ChangeText, Edit
  <2>2. /\ run'.pc = run.pc
        /\ Busy => run'.doc = run.doc /\ run'.body = run.body /\ run'.model = run.model
    BY <2>1, DisturbedWorld DEF Typed, SamePlace
  <2> QED
    BY <2>1, <2>2, AgreeSame DEF Busy
<1>2. ASSUME NEW mode \in {"update", "rebuild"}, Accept(mode), UNCHANGED <<chunks, rows, faults>>
      PROVE  AgreeInv'
  <2>1. run = NoRun /\ run'.pc = "setup"
    BY <1>2 DEF Accept, Typed, TypeOK
  <2>2. run.pc = "none"
    BY <2>1 DEF NoRun
  <2> QED
    BY <1>2, <2>1, <2>2, AgreeOn
<1>3. ASSUME NEW m \in Models \cup {None}, Configure(m)
      PROVE  AgreeInv'
  <2>1. UNCHANGED <<chunks, rows, faults>>
    BY <1>3 DEF Configure
  <2>2. Accept("update") \/ run' = run
    BY <1>3 DEF Configure
  <2>3. CASE Accept("update")
    BY <1>2, <2>1, <2>3
  <2>4. CASE run' = run
    BY <2>1, <2>4, AgreeSame
  <2> QED
    BY <2>2, <2>3, <2>4
<1>4. ASSUME NEW mode \in {"update", "rebuild"}, Reindex(mode)
      PROVE  AgreeInv'
  BY <1>2, <1>4 DEF Reindex
<1>5. CASE Crash \/ ListFails \/ FulltextFails \/ DocumentFails \/ PruneFails
  BY <1>5, AgreeFault DEF Crash, ListFails, FulltextFails, DocumentFails, PruneFails
<1>6. CASE SetupFails
  <2>1. CASE Fault
    BY <2>1, AgreeFault
  <2>2. CASE Works
    <3>1. run'.pc = "none"
      BY <1>6 DEF SetupFails, End, NoRun
    <3> QED
      BY <1>6, <2>2, <3>1, AgreeOn DEF SetupFails, Works
  <2> QED
    BY <1>6, <2>1, <2>2 DEF SetupFails
<1>7. CASE Begin
  <2>1. PICK e \in [Docs -> OptText] : run' = Began(e)
    <3>1. rows \in [Docs -> OptText] /\ [d \in Docs |-> None] \in [Docs -> OptText]
      BY BatchTypes DEF Typed, TypeOK
    <3> QED
      BY <1>7, <3>1 DEF Begin
  <2>2. run'.pc = "page"
    BY <1>7, <2>1, BeganRun DEF Begin
  <2>3. CASE run.mode = "rebuild"
    <3>1. /\ chunks' = [d \in Docs |-> Nothing] /\ rows' = [d \in Docs |-> None]
          /\ faults' = faults
      BY <1>7, <2>3 DEF Begin, Works
    <3> QED
      BY <2>2, <3>1 DEF AgreeInv, MatchedBy
  <2>4. CASE run.mode # "rebuild"
    BY <1>7, <2>2, <2>4, AgreeOn DEF Begin, Works
  <2> QED
    BY <2>3, <2>4
<1>8. CASE ListPage
  <2>1. run'.pc \in {"prune", "visit"}
    BY <1>8, ListedRun DEF ToVisit, ToPrune
  <2> QED
    BY <1>8, <2>1, AgreeOn DEF ListPage, Works
<1>9. CASE NextPage
  <2>1. run'.pc \in {"prune", "page"}
    BY <1>9, NextPageRun DEF ToPrune
  <2> QED
    BY <1>9, <2>1, AgreeOn DEF NextPage, Works
<1>10. CASE ChildrenFail
  <2>1. CASE Fault
    BY <2>1, AgreeFault
  <2>2. CASE Works
    <3>1. run'.pc = run.pc /\ run.pc = "visit"
      BY <1>10, SkippedRun DEF ChildrenFail
    <3> QED
      BY <1>10, <2>2, <3>1, AgreeOn DEF ChildrenFail, Works
  <2> QED
    BY <1>10, <2>1, <2>2 DEF ChildrenFail
<1>11. CASE Visit
  <2>1. run'.pc \in {"visit", "embed", "clear"} /\ run.pc = "visit"
    BY <1>11, VisitedRun DEF After, Opened, Visit
  <2> QED
    BY <1>11, <2>1, AgreeOn DEF Visit, Works
<1>12. CASE Clear
  <2>1. /\ run.doc \in Docs /\ run.pc = "clear" /\ faults' = faults /\ rows' = rows
        /\ chunks' = [chunks EXCEPT ![run.doc] = Nothing]
    BY <1>12 DEF Clear, Works, Typed, InDocument
  <2>2. run'.pc = "embed" /\ run'.doc = run.doc
    BY <1>12, <2>1, MovedRun DEF Moved, Busy
  <2> QED
    BY <2>1, <2>2 DEF AgreeInv, InProgress, Typed, TypeOK
<1>13. CASE Insert
  <2>1. /\ run.doc \in Docs /\ run.body \in Texts /\ run.pc = "embed"
        /\ faults' = faults /\ rows' = rows
    BY <1>13 DEF Insert, Works, Typed, InDocument
  <2>2. /\ run'.pc = "record" /\ run'.doc = run.doc /\ run'.body = run.body
        /\ run'.model = run.model /\ run \in Working
    BY <1>13, <2>1, MovedRun, BusyRun DEF Moved, Busy, Typed
  <2>3. PICK b \in Batch : b = [text |-> run.body, model |-> run.model]
    BY <2>1, <2>2 DEF Batch, Working
  <2>4. chunks' = [chunks EXCEPT ![run.doc][b] = @ + 1] /\ chunks \in [Docs -> [Batch -> Nat]]
    BY <1>13, <2>3 DEF Insert, Typed, TypeOK
  <2>5. /\ chunks'[run.doc][b] = chunks[run.doc][b] + 1
        /\ chunks[run.doc][b] \in Nat
        /\ \A d \in Docs \ {run.doc} : chunks'[d] = chunks[d]
    BY <2>1, <2>4
  <2> QED
    BY <2>1, <2>2, <2>3, <2>5 DEF AgreeInv, InProgress
<1>14. CASE Record
  <2>1. /\ run.doc \in Docs /\ run.body \in Texts /\ run.pc = "record"
        /\ faults' = faults /\ chunks' = chunks
        /\ rows' = [rows EXCEPT ![run.doc] = run.body]
    BY <1>14 DEF Record, Works, Typed, InDocument
  <2>2. run'.pc = "visit" /\ run \in Working
    BY <1>14, <2>1, MovedRun, BusyRun DEF Moved, Busy, Typed
  <2>3. PICK b \in Batch : b = [text |-> run.body, model |-> run.model]
    BY <2>1, <2>2 DEF Batch, Working
  <2>4. faults = 0 => MatchedBy(run.body, chunks[run.doc])
    <3>1. b.text = run.body /\ run.body # None
      BY <2>1, <2>3, ReindexAssumption
    <3>2. faults = 0 => chunks[run.doc][b] > 0
      BY <2>1, <2>3 DEF AgreeInv
    <3> QED
      BY <3>1, <3>2 DEF MatchedBy
  <2>5. rows'[run.doc] = run.body /\ \A d \in Docs \ {run.doc} : rows'[d] = rows[d]
    BY <2>1 DEF Typed, TypeOK
  <2> QED
    BY <2>1, <2>2, <2>4, <2>5 DEF AgreeInv, InProgress
<1>15. ASSUME NEW d \in Docs, PruneChunks(d)
      PROVE  AgreeInv'
  <2>1. /\ run.pc = "prune" /\ faults' = faults /\ rows' = rows
        /\ chunks' = [chunks EXCEPT ![d] = Nothing]
    BY <1>15 DEF PruneChunks, Works
  <2>2. run'.pc = "prune row" /\ run'.doc = d
    BY <1>15, <2>1, MovedRun DEF Moved, Busy
  <2> QED
    BY <2>1, <2>2 DEF AgreeInv, InProgress, Typed, TypeOK
<1>16. CASE PruneRow
  <2>1. /\ run.doc \in Docs /\ run.pc = "prune row" /\ faults' = faults /\ chunks' = chunks
        /\ rows' = [rows EXCEPT ![run.doc] = None]
    BY <1>16 DEF PruneRow, Works, Typed
  <2>2. run'.pc = "prune"
    BY <1>16, <2>1, MovedRun DEF Moved, Busy
  <2> QED
    BY <2>1, <2>2 DEF AgreeInv, InProgress, MatchedBy, Typed, TypeOK
<1>17. CASE Finish
  <2>1. CASE Fault
    BY <2>1, AgreeFault
  <2>2. CASE Works
    <3>1. run'.pc = "none" /\ run.pc = "prune"
      BY <1>17 DEF Finish, End, NoRun
    <3> QED
      BY <1>17, <2>2, <3>1, AgreeOn DEF Finish, Works
  <2> QED
    BY <1>17, <2>1, <2>2 DEF Finish
<1> QED
  BY <1>1, <1>3, <1>4, <1>5, <1>6, <1>7, <1>8, <1>9, <1>10, <1>11, <1>12, <1>13, <1>14, <1>15,
     <1>16, <1>17 DEF Next, RunStep

(* The tables agree as long as nothing has failed: whatever the library    *)
(* and the embedder did during the runs, but for the document in progress  *)
(* a document has a row exactly when it has chunks, those of the text its  *)
(* row stands for among them.                                              *)
THEOREM TablesAgree == Spec => []RowsMatchChunks
<1>1. Init => Typed /\ AgreeInv
  <2> SUFFICES ASSUME Init PROVE AgreeInv
    BY TypedInit
  <2>1. run.pc = "none"
    BY DEF Init, NoRun
  <2> QED
    BY <2>1 DEF Init, AgreeInv, MatchedBy
<1>2. Typed /\ AgreeInv /\ [Next]_vars => (Typed /\ AgreeInv)'
  <2>1. ASSUME AgreeInv, UNCHANGED vars
        PROVE  AgreeInv'
    BY <2>1, AgreeSame DEF vars, store
  <2> QED
    BY <2>1, TypedStep, AgreeStep
<1> QED
  BY <1>1, <1>2, AgreeMeans, PTL DEF Spec

-----------------------------------------------------------------------------
(* Models.                                                                 *)

(* A run keeps its mode and its model, and remembers that it wrote; the    *)
(* meta row stays until it ends, but for the clearing of a rebuild.        *)
LEMMA RunKeeps ==
    ASSUME Typed, Next, Busy'
    PROVE  \/ Begin
           \/ /\ Busy /\ meta' = meta
              /\ run'.mode = run.mode /\ run'.model = run.model
              /\ run.wrote => run'.wrote
              /\ Insert => run'.wrote
<1> DEFINE Keeps == /\ Busy /\ meta' = meta
                    /\ run'.mode = run.mode /\ run'.model = run.model
                    /\ run.wrote => run'.wrote
                    /\ Insert => run'.wrote
<1> USE DEF store
<1>1. ASSUME NEW d \in Docs, \/ AddItem(d) \/ RemoveItem(d) \/ \E t \in OptText : ChangeText(d, t)
      PROVE  Keeps
  <2>1. run' = Disturbed(run) /\ meta' = meta /\ UNCHANGED chunks
    BY <1>1 DEF AddItem, RemoveItem, ChangeText, Edit
  <2>2. Busy
    BY <2>1, DisturbedWorld DEF Typed, Busy
  <2>3. SamePlace(run', run)
    BY <2>1, <2>2, DisturbedWorld DEF Typed
  <2>4. run'.pc = run.pc /\ ~Insert
    <3>1. run'.pc = run.pc
      BY <2>3 DEF SamePlace
    <3>2. Insert => run'.pc = "record" /\ run.pc = "embed"
      BY <2>2, MovedRun DEF Insert, Moved
    <3> QED
      BY <3>1, <3>2
  <2> QED
    BY <2>1, <2>2, <2>3, <2>4 DEF SamePlace
<1>2. ASSUME NEW mode \in {"update", "rebuild"}, Accept(mode)
      PROVE  FALSE
  BY <1>2 DEF Accept, Busy
<1>3. ASSUME NEW m \in Models \cup {None}, Configure(m)
      PROVE  Keeps
  <2>1. run' = run /\ meta' = meta
    BY <1>2, <1>3 DEF Configure
  <2>2. ~Insert
    <3>1. Insert => run'.pc = "record" /\ run.pc = "embed"
      BY <2>1, MovedRun DEF Insert, Moved, Busy
    <3> QED
      BY <2>1, <3>1
  <2> QED
    BY <2>1, <2>2 DEF Busy
<1>4. ASSUME NEW mode \in {"update", "rebuild"}, Reindex(mode)
      PROVE  FALSE
  BY <1>2, <1>4 DEF Reindex
<1>5. CASE SetupFails \/ ListFails \/ Finish \/ Crash
  BY <1>5 DEF SetupFails, ListFails, Finish, Crash, End, Busy, NoRun
<1>6. CASE ListPage
  BY <1>6, ListedRun DEF ListPage, ToVisit, ToPrune, Busy, Insert
<1>7. CASE NextPage
  BY <1>7, NextPageRun DEF NextPage, ToPrune, Busy, Insert
<1>8. CASE ChildrenFail \/ FulltextFails
  BY <1>8, SkippedRun DEF ChildrenFail, FulltextFails, Busy, Insert
<1>9. CASE Visit
  BY <1>9, VisitedRun DEF Visit, After, Opened, Busy, Insert
<1>10. CASE Clear \/ Record \/ DocumentFails
  <2>1. Busy /\ meta' = meta
    BY <1>10 DEF Clear, Record, DocumentFails, Busy
  <2>2. run'.pc # "record" /\ run'.mode = run.mode /\ run'.model = run.model /\ run'.wrote = run.wrote
    BY <1>10, <2>1, MovedRun DEF Moved
  <2>3. Insert => run'.pc = "record"
    BY <2>1, MovedRun DEF Moved
  <2> QED
    BY <2>1, <2>2, <2>3
<1>11. CASE Insert
  <2>1. Busy /\ meta' = meta
    BY <1>11 DEF Insert, Busy
  <2> QED
    BY <1>11, <2>1, MovedRun DEF Moved
<1>12. ASSUME NEW d \in Docs, PruneChunks(d)
      PROVE  Keeps
  <2>1. Busy /\ meta' = meta /\ ~Insert
    BY <1>12 DEF PruneChunks, Insert, Busy
  <2> QED
    BY <1>12, <2>1, MovedRun DEF Moved
<1>13. CASE PruneRow \/ PruneFails
  <2>1. Busy /\ meta' = meta /\ ~Insert
    BY <1>13 DEF PruneRow, PruneFails, Insert, Busy
  <2> QED
    BY <1>13, <2>1, MovedRun DEF Moved
<1> QED
  BY <1>1, <1>3, <1>4, <1>5, <1>6, <1>7, <1>8, <1>9, <1>10, <1>11, <1>12, <1>13
     DEF Next, RunStep

(* Only InsertChunks adds to the table.                                    *)
LEMMA OnlyInsertAdds ==
    ASSUME Typed, Next, NEW d \in Docs, NEW b \in Batch, chunks'[d][b] > chunks[d][b]
    PROVE  Insert /\ run \in Working /\ b = [text |-> run.body, model |-> run.model]
<1> USE DEF store
<1>1. chunks \in [Docs -> [Batch -> Nat]] /\ chunks[d][b] \in Nat /\ Nothing[b] = 0
  BY DEF Typed, TypeOK, Nothing
<1>2. chunks'[d] # chunks[d] /\ chunks'[d] # Nothing
  BY <1>1
<1>3. \A e \in Docs : ~(chunks' = [chunks EXCEPT ![e] = Nothing])
  BY <1>1, <1>2
<1>4. ~(chunks' = [e \in Docs |-> Nothing]) /\ chunks' # chunks
  BY <1>2
<1>5. Insert
  <2>1. CASE RunStep
    <3>1. ~Clear
      BY <1>3 DEF Clear, Typed, InDocument
    <3> QED
      BY <1>3, <1>4, <2>1, <3>1 DEF RunStep, SetupFails, Begin, ListPage, ListFails, NextPage,
         ChildrenFail, FulltextFails, Visit, Record, DocumentFails, PruneChunks, PruneRow,
         PruneFails, Finish
  <2>2. CASE ~RunStep
    BY <1>4, <2>2 DEF Next, AddItem, RemoveItem, ChangeText, Configure, Reindex, Crash, Edit
  <2> QED
    BY <2>1, <2>2
<1>6. run \in Working /\ run.doc \in Docs /\ run.body \in Texts
  BY <1>5, BusyRun DEF Insert, Typed, Busy, InDocument
<1>7. PICK c \in Batch : c = [text |-> run.body, model |-> run.model]
  BY <1>6 DEF Batch, Working
<1>8. chunks' = [chunks EXCEPT ![run.doc][c] = @ + 1]
  BY <1>5, <1>7 DEF Insert
<1>9. b = c
  BY <1>1, <1>2, <1>6, <1>8
<1> QED
  BY <1>5, <1>6, <1>7, <1>9

(* A run under way is of the model the index says it was built with, if it *)
(* says one.                                                               *)
OwnModel == Busy /\ meta # None => run.model = meta

LEMMA OwnModelStep ==
    ASSUME Typed, OwnModel, Next
    PROVE  OwnModel'
<1>1. SUFFICES ASSUME Busy', meta' # None PROVE run'.model = meta'
  BY DEF OwnModel
<1>2. CASE Begin
  <2>1. PICK e \in [Docs -> OptText] : run' = Began(e)
    <3>1. rows \in [Docs -> OptText] /\ [d \in Docs |-> None] \in [Docs -> OptText]
      BY BatchTypes DEF Typed, TypeOK
    <3> QED
      BY <1>2, <3>1 DEF Begin
  <2>2. run'.model = settings
    BY <1>2, <2>1, BeganRun DEF Begin
  <2>3. meta' = meta /\ run.mode = "update"
    <3>1. run.mode \in {"update", "rebuild"}
      BY <1>2, BusyRun DEF Begin, Typed, Accepted
    <3> QED
      BY <1>1, <1>2, <3>1 DEF Begin, store
  <2> QED
    BY <1>1, <1>2, <2>2, <2>3 DEF Begin, Refused
<1>3. CASE ~Begin
  BY <1>1, <1>3, RunKeeps DEF OwnModel
<1> QED
  BY <1>2, <1>3

(* An update adds to an index that names its model no vectors of another,  *)
(* whatever is configured before or during the run.                        *)
THEOREM MetaIsKept == Spec => MetaKeepsModel
<1> DEFINE Adds == \A d \in Docs : \A b \in Batch :
                      chunks'[d][b] > chunks[d][b] /\ meta # None => b.model = meta
<1>1. Init => Typed /\ OwnModel
  <2> SUFFICES ASSUME Init PROVE OwnModel
    BY TypedInit
  <2> QED
    BY DEF Init, OwnModel
<1>2. Typed /\ OwnModel /\ [Next]_vars => (Typed /\ OwnModel)'
  <2>1. ASSUME OwnModel, UNCHANGED vars
        PROVE  OwnModel'
    BY <2>1 DEF OwnModel, vars, store, Busy
  <2> QED
    BY <2>1, TypedStep, OwnModelStep
<1>3. Typed /\ OwnModel /\ [Next]_vars => [Adds]_vars
  <2>1. ASSUME Typed, OwnModel, Next
        PROVE  Adds
    <3>1. ASSUME NEW d \in Docs, NEW b \in Batch, chunks'[d][b] > chunks[d][b], meta # None
          PROVE  b.model = meta
      <4>1. run \in Working /\ b = [text |-> run.body, model |-> run.model]
        BY <2>1, <3>1, OnlyInsertAdds
      <4>2. b.model = run.model /\ Busy
        BY <2>1, <4>1, WorkingIsRun DEF Busy
      <4> QED
        BY <2>1, <3>1, <4>2 DEF OwnModel
    <3> QED
      BY <3>1
  <2> QED
    BY <2>1
<1>4. [][Adds]_vars => MetaKeepsModel
  BY DEF MetaKeepsModel
<1> QED
  BY <1>1, <1>2, <1>3, <1>4, PTL DEF Spec

-----------------------------------------------------------------------------
(* How far a quiet run is: what it has seen is a prefix of the listing,    *)
(* which does not move under it.                                           *)

Prefix(n) == {library[i] : i \in 1 .. n}

Position ==
    /\ run.pc = "page" => run.processed = run.start
    /\ Crawls =>
         /\ run.processed <= ListingEnd
         /\ Len(run.queue) = ListingEnd - run.processed
         /\ \A i \in 1 .. Len(run.queue) : run.queue[i] = library[run.processed + i]
         /\ run.full <=> run.start + PageSize <= Len(library)
    /\ InDocument =>
         /\ run.processed \in 1 .. Len(library)
         /\ run.doc = library[run.processed] /\ run.body = text[run.doc]

Covered ==
    /\ run.processed <= Len(library)
    /\ run.seen = Prefix(run.processed)
    /\ Prunes =>
         /\ \/ run.processed = Len(library) /\ run.todo \cap Items(library) = {}
            \/ run.processed >= MaxItems /\ run.pc = "prune" /\ run.todo = {}
         /\ run.mode = "rebuild" => run.pc = "prune" /\ run.todo = {}
    /\ run.pc = "prune row" => run.doc \notin Items(library)

QuietInv == Busy /\ run.quiet => Position /\ Covered

QuietStep ==
    /\ Busy /\ run.quiet
    /\ UNCHANGED <<library, text>>
    /\ \/ ListPage \/ NextPage \/ Visit \/ Clear \/ Insert \/ Record \/ PruneRow
       \/ ChildrenFail /\ Head(run.queue) \notin Items(library)
       \/ \E d \in Docs : PruneChunks(d)

(* The steps after which a run is quiet.                                   *)
LEMMA QuietSteps ==
    ASSUME Typed, Next, Busy', run'.quiet
    PROVE  UNCHANGED <<run, library, text, chunks, rows>> \/ Begin \/ QuietStep
<1> USE DEF store, upstream
<1>1. ASSUME NEW d \in Docs, \/ AddItem(d) \/ RemoveItem(d) \/ \E t \in OptText : ChangeText(d, t)
      PROVE  FALSE
  <2>1. run' = Disturbed(run)
    BY <1>1 DEF AddItem, RemoveItem, ChangeText
  <2>2. Busy
    BY <2>1, DisturbedWorld DEF Typed, Busy
  <2> QED
    BY <2>1, <2>2, DisturbedWorld DEF Typed
<1>2. ASSUME NEW mode \in {"update", "rebuild"}, Accept(mode)
      PROVE  FALSE
  BY <1>2 DEF Accept, Busy
<1>3. ASSUME NEW m \in Models \cup {None}, Configure(m)
      PROVE  UNCHANGED <<run, library, text, chunks, rows>>
  BY <1>2, <1>3 DEF Configure
<1>4. ASSUME NEW mode \in {"update", "rebuild"}, Reindex(mode)
      PROVE  FALSE
  BY <1>2, <1>4 DEF Reindex
<1>5. CASE SetupFails \/ ListFails \/ Finish \/ Crash
  BY <1>5 DEF SetupFails, ListFails, Finish, Crash, End, Busy, NoRun
<1>6. CASE ListPage
  <2>1. run'.quiet = run.quiet
    BY <1>6, ListedRun DEF ToVisit, ToPrune
  <2> QED
    BY <1>6, <2>1 DEF QuietStep, ListPage, Works, Busy
<1>7. CASE NextPage
  <2>1. run'.quiet = run.quiet
    BY <1>7, NextPageRun DEF ToPrune
  <2> QED
    BY <1>7, <2>1 DEF QuietStep, NextPage, Works, Busy
<1>8. CASE FulltextFails
  <2>1. run \in Working /\ run.queue # <<>>
    BY <1>8, SkippedRun
  <2>2. PICK h \in Docs : h = Head(run.queue)
    BY <2>1, PoppedRun
  <2>3. PICK b : b = [Popped EXCEPT !.seen = @ \cup {h}]
    OBVIOUS
  <2>4. b \in Working
    BY <2>1, <2>3, PoppedRun DEF After
  <2>5. run' = Disturbed(b)
    BY <1>8, <2>2, <2>3 DEF FulltextFails
  <2> QED
    BY <2>4, <2>5, DisturbedRun
<1>9. CASE ChildrenFail
  <2>1. run.pc = "visit" /\ run \in Working /\ run.queue # <<>>
        /\ Head(run.queue) \notin Items(library)
    BY <1>9, SkippedRun DEF ChildrenFail
  <2>2. After(Popped, run, run.seen)
    BY <2>1, PoppedRun
  <2>3. run' = Popped /\ Works
    BY <1>9, <2>2, DisturbedRun DEF ChildrenFail, After
  <2> QED
    BY <1>9, <2>1, <2>2, <2>3 DEF QuietStep, Works, Busy, After
<1>10. CASE Visit
  <2>1. run'.quiet = run.quiet
    BY <1>10, VisitedRun DEF After, Opened
  <2> QED
    BY <1>10, <2>1 DEF QuietStep, Visit, Works, Busy
<1>11. CASE Clear \/ Insert \/ Record \/ PruneRow
  <2>1. Busy
    BY <1>11 DEF Clear, Insert, Record, PruneRow, Busy
  <2>2. run'.quiet = run.quiet
    BY <1>11, <2>1, MovedRun
  <2> QED
    BY <1>11, <2>1, <2>2 DEF QuietStep, Clear, Insert, Record, PruneRow, Works
<1>12. CASE DocumentFails \/ PruneFails
  <2>1. Busy
    BY <1>12 DEF DocumentFails, PruneFails, Busy
  <2> QED
    BY <1>12, <2>1, MovedRun
<1>13. ASSUME NEW d \in Docs, PruneChunks(d)
      PROVE  QuietStep
  <2>1. Busy
    BY <1>13 DEF PruneChunks, Busy
  <2>2. run'.quiet = run.quiet
    BY <1>13, <2>1, MovedRun
  <2> QED
    BY <1>13, <2>1, <2>2 DEF QuietStep, PruneChunks, Works
<1> QED
  BY <1>1, <1>3, <1>4, <1>5, <1>6, <1>7, <1>8, <1>9, <1>10, <1>11, <1>12, <1>13
     DEF Next, RunStep

(* A listing has no item twice, so what comes next was not seen.           *)
LEMMA PrefixGrows ==
    ASSUME Typed, NEW n \in Nat, n < Len(library)
    PROVE  /\ Prefix(n + 1) = Prefix(n) \cup {library[n + 1]}
           /\ library[n + 1] \notin Prefix(n)
<1>1. library \in Seq(Docs) /\ Distinct(library)
  BY Listings DEF Typed, TypeOK
<1>2. 1 .. n + 1 = (1 .. n) \cup {n + 1}
  OBVIOUS
<1>3. Prefix(n + 1) = Prefix(n) \cup {library[n + 1]}
  BY <1>2 DEF Prefix
<1>4. ASSUME NEW i \in 1 .. n, library[i] = library[n + 1]
      PROVE  FALSE
  BY <1>1, <1>4 DEF Distinct
<1> QED
  BY <1>3, <1>4 DEF Prefix

LEMMA WholePrefix == Typed => Prefix(Len(library)) = Items(library)
<1>1. Typed => library \in Seq(Docs)
  BY Listings DEF Typed, TypeOK
<1> QED
  BY <1>1 DEF Prefix, Items

LEMMA ListingEnds ==
    ASSUME Typed, run \in Working
    PROVE  /\ library \in Seq(Docs) /\ Len(library) \in Nat /\ PageSize \in Nat \ {0}
           /\ run.start \in Nat /\ run.processed \in Nat
           /\ run.queue \in Seq(Docs) /\ Len(run.queue) \in Nat
           /\ ListingEnd \in Nat /\ ListingEnd <= Len(library)
           /\ run.start + PageSize <= Len(library) => ListingEnd = run.start + PageSize
           /\ ~(run.start + PageSize <= Len(library)) => ListingEnd = Len(library)
<1>1. library \in Seq(Docs)
  BY Listings DEF Typed, TypeOK
<1>2. Len(library) \in Nat /\ PageSize \in Nat \ {0}
  BY <1>1, ReindexAssumption
<1>3. run.start \in Nat /\ run.processed \in Nat /\ run.queue \in Seq(Docs)
  BY DEF Working
<1>4. Len(run.queue) \in Nat
  BY <1>3
<1>5. /\ ListingEnd \in Nat /\ ListingEnd <= Len(library)
      /\ run.start + PageSize <= Len(library) => ListingEnd = run.start + PageSize
      /\ ~(run.start + PageSize <= Len(library)) => ListingEnd = Len(library)
  BY <1>2, <1>3 DEF ListingEnd
<1> QED
  BY <1>1, <1>2, <1>3, <1>4, <1>5

(* The item a quiet run takes next.                                        *)
LEMMA NextItem ==
    ASSUME Typed, QuietInv, run \in Working, run.quiet, run.pc = "visit", run.queue # <<>>
    PROVE  /\ run.processed + 1 <= ListingEnd /\ run.processed + 1 \in 1 .. Len(library)
           /\ Head(run.queue) = library[run.processed + 1]
           /\ Head(run.queue) \in Items(library) /\ Head(run.queue) \notin run.seen
           /\ Prefix(run.processed + 1) = run.seen \cup {Head(run.queue)}
           /\ Len(Tail(run.queue)) = ListingEnd - (run.processed + 1)
           /\ \A i \in 1 .. Len(Tail(run.queue)) : Tail(run.queue)[i] = library[run.processed + 1 + i]
<1>1. /\ run.processed <= ListingEnd /\ Len(run.queue) = ListingEnd - run.processed
      /\ \A i \in 1 .. Len(run.queue) : run.queue[i] = library[run.processed + i]
      /\ run.seen = Prefix(run.processed)
  BY WorkingIsRun DEF QuietInv, Busy, Position, Crawls, Covered
<1>2. Head(run.queue) = run.queue[1] /\ Len(run.queue) >= 1
  <2>1. run.queue \in Seq(Docs)
    BY ListingEnds
  <2> QED
    BY <2>1
<1>3. run.processed + 1 <= ListingEnd /\ run.processed + 1 \in 1 .. Len(library)
  BY <1>1, <1>2, ListingEnds
<1>4. Head(run.queue) = library[run.processed + 1]
  BY <1>1, <1>2
<1>5. Prefix(run.processed + 1) = run.seen \cup {Head(run.queue)} /\ Head(run.queue) \notin run.seen
  <2>1. PICK n \in Nat : n = run.processed
    BY ListingEnds
  <2>2. n < Len(library)
    BY <1>3, <2>1, ListingEnds
  <2>3. Prefix(n + 1) = Prefix(n) \cup {library[n + 1]} /\ library[n + 1] \notin Prefix(n)
    BY <2>2, PrefixGrows
  <2> QED
    BY <1>1, <1>4, <2>1, <2>3
<1>6. Head(run.queue) \in Items(library)
  BY <1>3, <1>4, ListingEnds DEF Items
<1>7. PICK t : t = Tail(run.queue)
  OBVIOUS
<1>8. Len(t) = Len(run.queue) - 1 /\ \A i \in 1 .. Len(t) : t[i] = run.queue[i + 1]
  BY <1>7, ListingEnds, HeadTailProperties
<1>9. Len(t) = ListingEnd - (run.processed + 1)
  BY <1>1, <1>8, ListingEnds
<1>10. ASSUME NEW i \in 1 .. Len(t)
       PROVE  t[i] = library[run.processed + 1 + i]
  <2>1. i + 1 \in 1 .. Len(run.queue)
    BY <1>8, ListingEnds
  <2>2. run.queue[i + 1] = library[run.processed + (i + 1)]
    BY <1>1, <2>1
  <2>3. run.processed + (i + 1) = run.processed + 1 + i
    BY ListingEnds
  <2> QED
    BY <1>8, <2>2, <2>3
<1> QED
  BY <1>3, <1>4, <1>5, <1>6, <1>7, <1>9, <1>10

(* The crawl of a quiet run has returned.                                  *)
LEMMA CrawlCovers ==
    ASSUME Typed, run \in Working, Covered, UNCHANGED library, run'.processed \in Nat,
           NEW cut \in BOOLEAN, ToPrune(run', run, cut),
           ~cut => run.processed = Len(library),
           cut => run.processed >= MaxItems
    PROVE  Position' /\ Covered'
<1>1. Position'
  BY DEF ToPrune, Position, Crawls, InDocument
<1>2. run'.processed = run.processed /\ run'.seen = run.seen /\ run'.pc = "prune"
      /\ run'.mode = run.mode
  BY DEF ToPrune
<1>3. run.processed <= Len(library) /\ run.seen = Prefix(run.processed)
  BY DEF Covered
<1>4. run'.seen = Prefix(run.processed)'
  BY <1>2, <1>3 DEF Prefix
<1>5. run'.todo \cap Items(library) = {} \/ run'.todo = {}
  <2>1. CASE cut
    BY <2>1 DEF ToPrune
  <2>2. CASE ~cut
    <3>1. run.seen = Items(library)
      BY <2>2, WholePrefix DEF Covered
    <3> QED
      BY <2>2, <3>1 DEF ToPrune
  <2> QED
    BY <2>1, <2>2
<1>6. /\ cut => run'.todo = {}
      /\ run.mode = "rebuild" => run'.todo = {}
  BY DEF ToPrune
<1>7. \/ run'.processed = Len(library') /\ run'.todo \cap Items(library') = {}
      \/ run'.processed >= MaxItems /\ run'.pc = "prune" /\ run'.todo = {}
  BY <1>2, <1>5, <1>6
<1>8. run'.processed <= Len(library')
  BY <1>2, <1>3
<1> QED
  BY <1>1, <1>2, <1>4, <1>6, <1>7, <1>8 DEF Covered, Prunes

LEMMA QuietInvStep ==
    ASSUME Typed, QuietInv, Next
    PROVE  QuietInv'
<1>1. SUFFICES ASSUME Busy', run'.quiet PROVE Position' /\ Covered'
  BY DEF QuietInv
<1>2. CASE UNCHANGED <<run, library, text>>
  <2>1. Position /\ Covered
    BY <1>1, <1>2 DEF QuietInv, Busy
  <2>2. ListingEnd' = ListingEnd
    BY <1>2 DEF ListingEnd
  <2>3. Position'
    BY <1>2, <2>1, <2>2 DEF Position, Crawls, InDocument
  <2>4. Covered'
    BY <1>2, <2>1 DEF Covered, Prunes, Prefix, Items
  <2> QED
    BY <2>3, <2>4
<1>3. CASE Begin
  <2>1. PICK e \in [Docs -> OptText] : run' = Began(e)
    <3>1. rows \in [Docs -> OptText] /\ [d \in Docs |-> None] \in [Docs -> OptText]
      BY BatchTypes DEF Typed, TypeOK
    <3> QED
      BY <1>3, <3>1 DEF Begin
  <2>2. run'.pc = "page" /\ run'.processed = 0 /\ run'.start = 0 /\ run'.seen = {}
    BY <1>3, <2>1, BeganRun DEF Begin
  <2>3. Len(library') \in Nat /\ {library'[i] : i \in 1 .. 0} = {}
    <3>1. library' \in Seq(Docs)
      BY <1>3, Listings DEF Typed, TypeOK, Begin, Works, upstream
    <3> QED
      BY <3>1
  <2> QED
    BY <2>2, <2>3 DEF Position, Covered, Crawls, InDocument, Prunes, Prefix
<1>4. CASE QuietStep
  <2>1. run \in Working /\ Position /\ Covered /\ UNCHANGED <<library, text>>
    BY <1>4, BusyRun DEF QuietStep, QuietInv, Typed
  <2>2. run' \in Working
    <3>1. run' = NoRun \/ run' \in Accepted \/ run' \in Working
      BY RunStepTyped DEF RunTyped
    <3>2. NoRun.pc = "none" /\ \A r \in Accepted : r.pc = "setup"
      BY DEF NoRun, Accepted
    <3> QED
      BY <1>1, <3>1, <3>2 DEF Busy
  <2>3. run'.processed \in Nat
    BY <2>2 DEF Working
  <2>4. CASE ListPage
    <3>1. run.pc = "page" /\ run.processed = run.start
      BY <2>1, <2>4 DEF ListPage, Position
    <3>2. CASE run.start >= Len(library) /\ ToPrune(run', run, FALSE)
      <4>1. run.processed = Len(library)
        BY <2>1, <3>1, <3>2, ListingEnds DEF Covered
      <4> QED
        BY <2>1, <2>3, <3>2, <4>1, CrawlCovers
    <3>3. CASE run.start < Len(library) /\ ToVisit(run', run)
      <4>1. /\ run'.pc = "visit" /\ run'.seen = run.seen /\ run'.start = run.start
            /\ run'.processed = run.start
            /\ run'.full <=> run.start + PageSize <= Len(library)
            /\ Len(run'.queue) = ListingEnd - run.start
            /\ \A i \in 1 .. Len(run'.queue) : run'.queue[i] = library[run.start + i]
        BY <3>1, <3>3 DEF ToVisit
      <4>2. ListingEnd' = ListingEnd /\ run.start <= ListingEnd
        BY <2>1, <3>3, <4>1, ListingEnds DEF ListingEnd
      <4>3. Position'
        BY <2>1, <4>1, <4>2 DEF Position, Crawls, InDocument
      <4>4. Covered'
        BY <2>1, <3>1, <4>1 DEF Covered, Prunes, Prefix
      <4> QED
        BY <4>3, <4>4
    <3> QED
      BY <2>4, <3>2, <3>3, ListedRun
  <2>5. CASE NextPage
    <3>1. /\ run.pc = "visit" /\ run.queue = <<>>
          /\ run.processed <= ListingEnd /\ Len(run.queue) = ListingEnd - run.processed
          /\ run.full <=> run.start + PageSize <= Len(library)
      BY <2>1, <2>5 DEF NextPage, Position, Crawls
    <3>2. Len(run.queue) = 0
      BY <3>1
    <3>3. run.processed = ListingEnd
      BY <2>1, <3>1, <3>2, ListingEnds
    <3>4. CASE ~run.full /\ ToPrune(run', run, FALSE)
      <4>1. run.processed = Len(library)
        BY <2>1, <3>1, <3>3, <3>4, ListingEnds
      <4> QED
        BY <2>1, <2>3, <3>4, <4>1, CrawlCovers
    <3>5. CASE run.full /\ run.processed >= MaxItems /\ ToPrune(run', run, TRUE)
      BY <2>1, <2>3, <3>5, CrawlCovers
    <3>6. CASE /\ run.full
               /\ run'.pc = "page" /\ run'.start = run.start + PageSize
               /\ run'.seen = run.seen /\ run'.processed = run.processed
      <4>1. run'.processed = run'.start
        BY <2>1, <3>1, <3>3, <3>6, ListingEnds
      <4> QED
        BY <2>1, <3>6, <4>1 DEF Position, Covered, Crawls, InDocument, Prunes, Prefix
    <3> QED
      BY <2>5, <3>4, <3>5, <3>6, NextPageRun
  <2>6. CASE ChildrenFail /\ Head(run.queue) \notin Items(library)
    BY <1>4, <2>1, <2>6, NextItem DEF ChildrenFail, QuietStep
  <2>7. CASE Visit
    <3>1. PICK d : d = Head(run.queue)
      OBVIOUS
    <3>2. /\ run.pc = "visit" /\ run.quiet /\ run.queue # <<>> /\ d \in Docs
          /\ run.full <=> run.start + PageSize <= Len(library)
      BY <1>4, <2>1, <2>7, <3>1, VisitedRun DEF Visit, QuietStep, Position, Crawls
    <3>3. /\ run.processed + 1 <= ListingEnd /\ run.processed + 1 \in 1 .. Len(library)
          /\ d = library[run.processed + 1]
          /\ Prefix(run.processed + 1) = run.seen \cup {d}
          /\ Len(Tail(run.queue)) = ListingEnd - (run.processed + 1)
          /\ \A i \in 1 .. Len(Tail(run.queue)) : Tail(run.queue)[i] = library[run.processed + 1 + i]
      BY <2>1, <3>1, <3>2, NextItem
    <3>4. /\ run'.processed = run.processed + 1 /\ run'.seen = run.seen \cup {d}
          /\ run'.queue = Tail(run.queue) /\ run'.start = run.start /\ run'.full = run.full
          /\ \/ run'.pc = "visit"
             \/ run'.pc \in {"embed", "clear"} /\ run'.doc = d /\ run'.body = text[d]
      BY <2>7, <3>1, <3>2, VisitedRun DEF After, Opened
    <3>5. ListingEnd' = ListingEnd
      BY <2>1, <3>4 DEF ListingEnd
    <3>6. /\ run'.processed <= ListingEnd' /\ Len(run'.queue) = ListingEnd' - run'.processed
          /\ \A i \in 1 .. Len(run'.queue) : run'.queue[i] = library'[run'.processed + i]
          /\ run'.full <=> run'.start + PageSize <= Len(library')
      BY <2>1, <3>2, <3>3, <3>4, <3>5
    <3>7. run'.processed \in 1 .. Len(library') /\ d = library'[run'.processed]
      BY <2>1, <3>3, <3>4
    <3>8. Position'
      BY <2>1, <3>4, <3>6, <3>7 DEF Position, Crawls, InDocument
    <3>9. run'.seen = Prefix(run.processed)'
      <4>1. Prefix(run.processed)' = {library'[i] : i \in 1 .. run'.processed}
        BY DEF Prefix
      <4>2. run'.seen = {library[i] : i \in 1 .. run.processed + 1}
        BY <3>3, <3>4 DEF Prefix
      <4> QED
        BY <2>1, <3>4, <4>1, <4>2
    <3>10. run'.processed <= Len(library')
      BY <3>7, <2>1, ListingEnds
    <3> QED
      BY <3>4, <3>8, <3>9, <3>10 DEF Covered, Prunes
  <2>8. ASSUME NEW pc \in {"embed", "record", "visit"}, NEW doc,
               Moved(run', run, pc, doc, run.todo), InDocument, pc # "visit" => doc = run.doc
        PROVE  Position' /\ Covered'
    <3>1. /\ run'.pc = pc /\ run'.doc = doc /\ run'.body = run.body
          /\ run'.seen = run.seen /\ run'.start = run.start /\ run'.queue = run.queue
          /\ run'.full = run.full /\ run'.processed = run.processed
      BY <2>8 DEF Moved
    <3>2. ListingEnd' = ListingEnd
      BY <2>1, <3>1 DEF ListingEnd
    <3>3. Position'
      BY <2>1, <2>8, <3>1, <3>2 DEF Position, Crawls, InDocument
    <3>4. Covered'
      BY <2>1, <2>8, <3>1 DEF Covered, Prunes, Prefix
    <3> QED
      BY <3>3, <3>4
  <2>9. CASE Clear \/ Insert \/ Record
    <3>1. Busy /\ InDocument
      BY <2>9 DEF Clear, Insert, Record, Busy, InDocument
    <3>2. \E pc \in {"embed", "record", "visit"} : Moved(run', run, pc, run.doc, run.todo)
      BY <2>9, <3>1, MovedRun
    <3> QED
      BY <2>8, <3>1, <3>2
  <2>10. ASSUME NEW d \in Docs, PruneChunks(d)
         PROVE  Position' /\ Covered'
    <3>1. run.pc = "prune" /\ d \in run.todo /\ Busy
      BY <2>10 DEF PruneChunks, Busy
    <3>2. /\ run'.pc = "prune row" /\ run'.doc = d /\ run'.todo = run.todo \ {d}
          /\ run'.seen = run.seen /\ run'.processed = run.processed /\ run'.mode = run.mode
      BY <2>10, <3>1, MovedRun DEF Moved
    <3>3. /\ run.processed = Len(library) /\ run.todo \cap Items(library) = {}
          /\ run.mode # "rebuild"
      BY <2>1, <3>1 DEF Covered, Prunes
    <3>4. d \notin Items(library') /\ run'.todo \cap Items(library') = {}
      BY <2>1, <3>1, <3>2, <3>3
    <3>5. run'.processed = Len(library') /\ run'.mode # "rebuild" /\ run'.doc \notin Items(library')
      BY <2>1, <3>2, <3>3, <3>4
    <3>6. run'.processed <= Len(library') /\ run'.seen = Prefix(run.processed)'
      BY <2>1, <3>2 DEF Covered, Prefix
    <3>7. Covered'
      BY <3>2, <3>4, <3>5, <3>6 DEF Covered, Prunes
    <3> QED
      BY <3>2, <3>7 DEF Position, Crawls, InDocument
  <2>11. CASE PruneRow
    <3>1. run.pc = "prune row" /\ Busy
      BY <2>11 DEF PruneRow, Busy
    <3>2. /\ run'.pc = "prune" /\ run'.todo = run.todo
          /\ run'.seen = run.seen /\ run'.processed = run.processed /\ run'.mode = run.mode
      BY <2>11, <3>1, MovedRun DEF Moved
    <3>3. /\ run.processed = Len(library) /\ run.todo \cap Items(library) = {}
          /\ run.mode # "rebuild"
      BY <2>1, <3>1 DEF Covered, Prunes
    <3>4. run'.todo \cap Items(library') = {}
      BY <2>1, <3>2, <3>3
    <3>5. run'.processed = Len(library') /\ run'.mode # "rebuild"
      BY <2>1, <3>2, <3>3
    <3>6. run'.processed <= Len(library') /\ run'.seen = Prefix(run.processed)'
      BY <2>1, <3>2 DEF Covered, Prefix
    <3>7. Covered'
      BY <3>2, <3>4, <3>5, <3>6 DEF Covered, Prunes
    <3> QED
      BY <3>2, <3>7 DEF Position, Crawls, InDocument
  <2> QED
    BY <1>4, <2>4, <2>5, <2>6, <2>7, <2>9, <2>10, <2>11 DEF QuietStep
<1> QED
  BY <1>1, <1>2, <1>3, <1>4, QuietSteps

LEMMA QuietInvAlways ==
    /\ Init => QuietInv
    /\ Typed /\ QuietInv /\ [Next]_vars => QuietInv'
<1>1. Init => QuietInv
  BY DEF Init, QuietInv, Busy, NoRun
<1>2. ASSUME Typed, QuietInv, UNCHANGED vars
      PROVE  QuietInv'
  <2>1. UNCHANGED <<run, library, text>> /\ ListingEnd' = ListingEnd
    BY <1>2 DEF vars, ListingEnd
  <2>2. ASSUME Position PROVE Position'
    BY <2>1, <2>2 DEF Position, Crawls, InDocument
  <2>3. ASSUME Covered PROVE Covered'
    BY <2>1, <2>3 DEF Covered, Prunes, Prefix, Items
  <2> QED
    BY <1>2, <2>1, <2>2, <2>3 DEF QuietInv, Busy
<1> QED
  BY <1>1, <1>2, QuietInvStep

(* Pruning is sound while nothing failed and nothing changed, however many *)
(* pages the listing has and wherever the crawl was cut off.               *)
THEOREM PruningIsSound == Spec => QuietPruneIsSound
<1> DEFINE Sound == \A d \in Docs : Pruned(d) /\ run.quiet => d \notin Items(library)
<1>1. Typed /\ QuietInv /\ [Next]_vars => [Sound]_vars
  <2>1. ASSUME Typed, QuietInv, Next
        PROVE  Sound
    <3>1. ASSUME NEW d \in Docs, Pruned(d), run.quiet
          PROVE  d \notin Items(library)
      <4>1. run.pc = "prune row" /\ rows'[d] # rows[d] /\ Busy
        BY <3>1 DEF Pruned, Busy
      <4>2. rows' = [rows EXCEPT ![run.doc] = None]
        <5>1. CASE RunStep
          BY <4>1, <5>1 DEF RunStep, SetupFails, Begin, ListPage, ListFails, NextPage,
             ChildrenFail, FulltextFails, Visit, Clear, Insert, Record, DocumentFails,
             PruneChunks, PruneRow, PruneFails, Finish, store
        <5>2. CASE ~RunStep
          BY <2>1, <4>1, <5>2 DEF Next, AddItem, RemoveItem, ChangeText, Configure, Reindex,
             Crash, Edit, store
        <5> QED
          BY <5>1, <5>2
      <4>3. d = run.doc
        BY <2>1, <4>1, <4>2 DEF Typed, TypeOK
      <4> QED
        BY <2>1, <3>1, <4>1, <4>3 DEF QuietInv, Covered
    <3> QED
      BY <3>1
  <2> QED
    BY <2>1
<1>2. [][Sound]_vars => QuietPruneIsSound
  BY DEF QuietPruneIsSound
<1> QED
  BY <1>1, <1>2, TypedInit, TypedStep, QuietInvAlways, PTL DEF Spec

-----------------------------------------------------------------------------
(* What a quiet run has made of the tables.                                *)

Describes(r, c) == IF r = None THEN c = Nothing
                   ELSE \E m \in Models : c = Just([text |-> r, model |-> m])
Kept(d) == Describes(rows[d], chunks[d]) /\ rows[d] = run.existing[d]
Settled(d) ==
    /\ Describes(rows[d], chunks[d])
    /\ rows[d] = IF text[d] = None THEN run.existing[d] ELSE text[d]
Gone(d) ==
    /\ Describes(rows[d], chunks[d])
    /\ rows[d] = None \/ (run.mode = "update" /\ run.processed >= MaxItems)

Written ==
    /\ run.mode = "rebuild" => \A d \in Docs : run.existing[d] = None
    /\ \A d \in Docs : d \in run.seen => (InDocument /\ d = run.doc) \/ Settled(d)
    /\ ~Prunes => \A d \in Docs : d \notin run.seen => Kept(d)
    /\ Prunes => \A d \in Docs : d \notin run.seen \cup run.todo =>
                    (run.pc = "prune row" /\ d = run.doc) \/ Gone(d)
    /\ run.pc = "embed" => chunks[run.doc] = Nothing
    /\ run.pc = "record" => chunks[run.doc] = Just([text |-> run.body, model |-> run.model])
    /\ run.pc = "prune row" => chunks[run.doc] = Nothing

Founded == run.mode = "rebuild" \/ run.sound
WrittenInv == Busy /\ run.quiet /\ Founded => Written

LEMMA DescribesRow == \A d \in Docs : RowDescribes(d) <=> Describes(rows[d], chunks[d])
BY DEF RowDescribes, Describes

(* The crawl has returned: what was not seen is kept for pruning, or for   *)
(* good when the crawl was cut off.                                        *)
LEMMA CrawlWritten ==
    ASSUME Typed, run \in Working, Written, run.pc \in {"page", "visit"},
           UNCHANGED <<text, rows, chunks>>,
           NEW cut \in BOOLEAN, ToPrune(run', run, cut),
           cut => run.processed >= MaxItems
    PROVE  Written'
<1>1. /\ run'.pc = "prune" /\ run'.mode = run.mode /\ run'.existing = run.existing
      /\ run'.seen = run.seen /\ run'.processed = run.processed
      /\ run'.todo = IF run.mode = "update" /\ ~cut
                     THEN {d \in Docs : run.existing[d] # None /\ d \notin run.seen} ELSE {}
  BY DEF ToPrune
<1>2. run.mode \in {"update", "rebuild"}
  BY DEF Working
<1>3. ASSUME NEW d \in Docs, d \in run.seen
      PROVE  Settled(d)'
  <2>1. Settled(d)
    BY <1>3 DEF Written, InDocument
  <2> QED
    BY <1>1, <2>1 DEF Settled
<1>4. ASSUME NEW d \in Docs, d \notin run'.seen \cup run'.todo
      PROVE  Gone(d)'
  <2>1. Kept(d)
    BY <1>1, <1>4 DEF Written, Prunes
  <2>2. run.mode = "rebuild" => run.existing[d] = None
    BY DEF Written
  <2>3. run.mode = "update" /\ ~cut => run.existing[d] = None
    BY <1>1, <1>4
  <2> QED
    BY <1>1, <1>2, <2>1, <2>2, <2>3 DEF Kept, Gone
<1> QED
  BY <1>1, <1>3, <1>4 DEF Written, Prunes, InDocument

(* Where the tables stay and the crawl goes on to another page.            *)
LEMMA PageWritten ==
    ASSUME Typed, Written, run.pc \in {"page", "visit"}, UNCHANGED <<text, rows, chunks>>,
           run'.pc \in {"page", "visit"}, run'.mode = run.mode,
           run'.existing = run.existing, run'.seen = run.seen
    PROVE  Written'
<1>1. ASSUME NEW d \in Docs, d \in run.seen
      PROVE  Settled(d)'
  BY <1>1 DEF Written, Settled, InDocument
<1>2. ASSUME NEW d \in Docs, d \notin run.seen
      PROVE  Kept(d)'
  BY <1>2 DEF Written, Kept, Prunes
<1> QED
  BY <1>1, <1>2 DEF Written, Prunes, InDocument

LEMMA VisitWritten ==
    ASSUME Typed, QuietInv, Written, Visit, run.quiet
    PROVE  Written'
<1>1. PICK d : d = Head(run.queue)
  OBVIOUS
<1>2. /\ d \in Docs /\ run.queue # <<>> /\ run \in Working /\ run.pc = "visit"
      /\ \/ /\ text[d] = None \/ run.existing[d] = text[d]
            /\ After(run', run, run.seen \cup {d})
         \/ /\ text[d] \in Texts /\ run.existing[d] # text[d]
            /\ Opened(run', run, d)
  BY <1>1, VisitedRun DEF Visit
<1>3. d \notin run.seen /\ UNCHANGED <<text, rows, chunks>>
  BY <1>1, <1>2, NextItem DEF Visit, Works, upstream, store
<1>4. Kept(d)
  BY <1>2, <1>3 DEF Written, Prunes
<1>5. /\ run'.mode = run.mode /\ run'.existing = run.existing
      /\ run'.seen = run.seen \cup {d} /\ run'.pc \in {"visit", "embed", "clear"}
      /\ run'.pc \in {"embed", "clear"} => run'.doc = d
  BY <1>2 DEF After, Opened
<1>6. ASSUME NEW e \in Docs, e \in run.seen
      PROVE  Settled(e)'
  <2>1. Settled(e)
    BY <1>2, <1>6 DEF Written, InDocument
  <2> QED
    BY <1>3, <1>5, <2>1 DEF Settled
<1>7. ASSUME NEW e \in Docs, e \notin run'.seen
      PROVE  Kept(e)'
  <2>1. Kept(e)
    BY <1>2, <1>5, <1>7 DEF Written, Prunes
  <2> QED
    BY <1>3, <1>5, <2>1 DEF Kept
<1>8. run'.pc = "visit" => Settled(d)'
  <2>1. run'.pc = "visit" => text[d] = None \/ run.existing[d] = text[d]
    BY <1>2 DEF Opened
  <2> QED
    BY <1>3, <1>4, <1>5, <2>1 DEF Kept, Settled
<1>9. run'.pc = "embed" => chunks'[run'.doc] = Nothing
  <2>1. run'.pc = "embed" => run.existing[d] = None
    BY <1>2 DEF After, Opened
  <2> QED
    BY <1>3, <1>4, <1>5, <2>1 DEF Kept, Describes
<1>10. run'.mode = "rebuild" => \A e \in Docs : run'.existing[e] = None
  BY <1>5 DEF Written
<1>11. ASSUME NEW e \in Docs, e \in run'.seen
       PROVE  (InDocument' /\ e = run'.doc) \/ Settled(e)'
  <2>1. CASE e = d
    BY <1>5, <1>8, <2>1 DEF InDocument
  <2>2. CASE e # d
    BY <1>5, <1>6, <1>11, <2>2
  <2> QED
    BY <2>1, <2>2
<1> QED
  BY <1>5, <1>7, <1>9, <1>10, <1>11 DEF Written, Prunes

(* The document in progress was seen, so what a write does to it leaves    *)
(* the others as they were.                                                *)
LEMMA DocumentWritten ==
    ASSUME Typed, run \in Working, Position, Covered, Written, InDocument,
           UNCHANGED text,
           \A d \in Docs : d # run.doc => chunks'[d] = chunks[d] /\ rows'[d] = rows[d],
           NEW pc \in {"embed", "record", "visit"},
           Moved(run', run, pc, run.doc, run.todo),
           \A d \in Docs : pc = "visit" /\ d = run.doc => Settled(d)',
           pc = "embed" => chunks'[run.doc] = Nothing,
           pc = "record" => chunks'[run.doc] = Just([text |-> run.body, model |-> run.model])
    PROVE  Written'
<1>1. run.doc \in run.seen /\ run.doc \in Docs
  <2>1. run.processed \in 1 .. run.processed
    BY ListingEnds DEF Position
  <2>2. run.doc = library[run.processed] /\ run.seen = {library[i] : i \in 1 .. run.processed}
    BY DEF Position, Covered, Prefix
  <2> QED
    BY <2>1, <2>2 DEF Typed
<1>2. /\ run'.pc = pc /\ run'.doc = run.doc /\ run'.mode = run.mode /\ run'.model = run.model
      /\ run'.existing = run.existing /\ run'.seen = run.seen /\ run'.body = run.body
  BY DEF Moved
<1>3. ASSUME NEW d \in Docs, d \in run.seen, d # run.doc
      PROVE  Settled(d)'
  <2>1. Settled(d)
    BY <1>3 DEF Written
  <2> QED
    BY <1>2, <1>3, <2>1 DEF Settled
<1>4. ASSUME NEW d \in Docs, d \notin run.seen
      PROVE  Kept(d)'
  <2>1. Kept(d) /\ d # run.doc
    BY <1>1, <1>4 DEF Written, Prunes, InDocument
  <2> QED
    BY <1>2, <2>1 DEF Kept
<1>5. run'.mode = "rebuild" => \A e \in Docs : run'.existing[e] = None
  BY <1>2 DEF Written
<1>6. ASSUME NEW d \in Docs, d \in run'.seen
      PROVE  (InDocument' /\ d = run'.doc) \/ Settled(d)'
  <2>1. CASE d = run.doc /\ pc = "visit"
    BY <2>1
  <2>2. CASE d = run.doc /\ pc # "visit"
    BY <1>2, <2>2 DEF InDocument
  <2>3. CASE d # run.doc
    BY <1>2, <1>3, <1>6, <2>3
  <2> QED
    BY <2>1, <2>2, <2>3
<1> QED
  BY <1>2, <1>4, <1>5, <1>6 DEF Written, Prunes

(* Pruning touches nothing that was seen.                                  *)
LEMMA PruneWritten ==
    ASSUME Typed, run \in Working, Covered, Written, UNCHANGED text,
           NEW e \in Docs, e \notin run.seen,
           \A d \in Docs : d # e => chunks'[d] = chunks[d] /\ rows'[d] = rows[d],
           NEW pc \in {"prune", "prune row"}, NEW todo,
           Moved(run', run, pc, e, todo), run.todo \subseteq todo \cup {e},
           chunks'[e] = Nothing, pc = "prune" => rows'[e] = None,
           run.pc = "prune row" => run.doc = e, Prunes
    PROVE  Written'
<1>1. /\ run'.pc = pc /\ run'.doc = e /\ run'.mode = run.mode /\ run'.todo = todo
      /\ run'.existing = run.existing /\ run'.seen = run.seen /\ run'.processed = run.processed
  BY DEF Moved
<1>2. ASSUME NEW d \in Docs, d \in run.seen
      PROVE  Settled(d)'
  <2>1. Settled(d) /\ d # e
    BY <1>2 DEF Written, Prunes, InDocument
  <2> QED
    BY <1>1, <2>1 DEF Settled
<1>3. ASSUME NEW d \in Docs, d \notin run'.seen \cup run'.todo
      PROVE  (run'.pc = "prune row" /\ d = run'.doc) \/ Gone(d)'
  <2>1. CASE d = e /\ pc = "prune row"
    BY <1>1, <2>1
  <2>2. CASE d = e /\ pc = "prune"
    BY <1>1, <2>2 DEF Gone, Describes
  <2>3. CASE d # e
    <3>1. d \notin run.seen \cup run.todo /\ ~(run.pc = "prune row" /\ d = run.doc)
      BY <1>1, <1>3, <2>3
    <3>2. Gone(d)
      BY <3>1 DEF Written
    <3> QED
      BY <1>1, <2>3, <3>2 DEF Gone
  <2> QED
    BY <2>1, <2>2, <2>3
<1>4. run'.mode = "rebuild" => \A d \in Docs : run'.existing[d] = None
  BY <1>1 DEF Written
<1> QED
  BY <1>1, <1>2, <1>3, <1>4 DEF Written, Prunes, InDocument

LEMMA WrittenInvStep ==
    ASSUME Typed, QuietInv, WrittenInv, Next
    PROVE  WrittenInv'
<1>1. SUFFICES ASSUME Busy', run'.quiet, Founded' PROVE Written'
  BY DEF WrittenInv
<1>2. CASE UNCHANGED <<run, library, text, chunks, rows>>
  <2>1. Written
    BY <1>1, <1>2 DEF WrittenInv, Busy, Founded
  <2> QED
    BY <1>2, <2>1 DEF Written, InDocument, Prunes, Kept, Settled, Gone
<1>3. CASE Begin
  <2>1. PICK e \in [Docs -> OptText] : run' = Began(e) /\ e = IF run.mode = "rebuild" THEN rows' ELSE rows
    <3>1. rows \in [Docs -> OptText] /\ [d \in Docs |-> None] \in [Docs -> OptText]
      BY BatchTypes DEF Typed, TypeOK
    <3> QED
      BY <1>3, <3>1 DEF Begin
  <2>2. /\ run'.pc = "page" /\ run'.mode = run.mode /\ run'.existing = e /\ run'.seen = {}
        /\ run'.sound = \A d \in Docs : RowDescribes(d)
    BY <1>3, <2>1, BeganRun DEF Begin
  <2>3. CASE run.mode = "rebuild"
    <3>1. /\ chunks' = [d \in Docs |-> Nothing] /\ rows' = [d \in Docs |-> None]
          /\ e = rows'
      BY <1>3, <2>1, <2>3 DEF Begin
    <3>2. \A d \in Docs : Kept(d)' /\ run'.existing[d] = None
      BY <2>2, <3>1 DEF Kept, Describes
    <3> QED
      BY <2>2, <3>2 DEF Written, Prunes, InDocument
  <2>4. CASE run.mode # "rebuild"
    <3>1. chunks' = chunks /\ rows' = rows /\ e = rows
      BY <1>3, <2>1, <2>4 DEF Begin, store
    <3>2. run'.sound
      BY <1>1, <2>2, <2>4 DEF Founded
    <3>3. \A d \in Docs : Kept(d)'
      BY <2>2, <3>1, <3>2, DescribesRow DEF Kept
    <3> QED
      BY <2>2, <2>4, <3>3 DEF Written, Prunes, InDocument
  <2> QED
    BY <2>3, <2>4
<1>4. CASE QuietStep
  <2>1. /\ run \in Working /\ Position /\ Covered /\ UNCHANGED <<library, text>>
        /\ Busy /\ run.quiet
    BY <1>4, BusyRun DEF QuietStep, QuietInv, Typed
  <2>2. ASSUME run'.mode = run.mode, run'.sound = run.sound
        PROVE  Written
    BY <1>1, <2>1, <2>2 DEF WrittenInv, Founded
  <2>3. CASE ListPage
    <3>1. run.pc = "page" /\ UNCHANGED <<rows, chunks>>
      BY <2>3 DEF ListPage, store
    <3>2. CASE ToPrune(run', run, FALSE)
      BY <2>1, <2>2, <3>1, <3>2, CrawlWritten DEF ToPrune
    <3>3. CASE ToVisit(run', run)
      <4>1. /\ run'.pc = "visit" /\ run'.mode = run.mode /\ run'.sound = run.sound
            /\ run'.existing = run.existing /\ run'.seen = run.seen
        BY <3>3 DEF ToVisit
      <4> QED
        BY <2>1, <2>2, <3>1, <4>1, PageWritten
    <3> QED
      BY <2>3, <3>2, <3>3, ListedRun
  <2>4. CASE NextPage
    <3>1. run.pc = "visit" /\ UNCHANGED <<rows, chunks>>
      BY <2>4 DEF NextPage, store
    <3>2. CASE ToPrune(run', run, FALSE)
      BY <2>1, <2>2, <3>1, <3>2, CrawlWritten DEF ToPrune
    <3>3. CASE run.processed >= MaxItems /\ ToPrune(run', run, TRUE)
      BY <2>1, <2>2, <3>1, <3>3, CrawlWritten DEF ToPrune
    <3>4. CASE /\ run'.pc = "page" /\ run'.mode = run.mode /\ run'.sound = run.sound
               /\ run'.existing = run.existing /\ run'.seen = run.seen
      BY <2>1, <2>2, <3>1, <3>4, PageWritten
    <3> QED
      BY <2>4, <3>2, <3>3, <3>4, NextPageRun
  <2>5. CASE ChildrenFail /\ Head(run.queue) \notin Items(library)
    BY <2>1, <2>5, NextItem DEF ChildrenFail
  <2>6. CASE Visit
    <3>1. run'.mode = run.mode /\ run'.sound = run.sound
      BY <2>6, VisitedRun DEF After, Opened
    <3> QED
      BY <2>1, <2>2, <2>6, <3>1, VisitWritten
  <2>7. CASE Clear
    <3>1. /\ Moved(run', run, "embed", run.doc, run.todo) /\ InDocument /\ run.doc \in Docs
          /\ chunks' = [chunks EXCEPT ![run.doc] = Nothing] /\ rows' = rows
      BY <2>1, <2>7, MovedRun DEF Clear, InDocument, Typed
    <3>2. Written
      BY <2>2, <3>1 DEF Moved
    <3>3. /\ \A d \in Docs : d # run.doc => chunks'[d] = chunks[d] /\ rows'[d] = rows[d]
          /\ chunks'[run.doc] = Nothing
      BY <3>1 DEF Typed, TypeOK
    <3> QED
      BY <2>1, <3>1, <3>2, <3>3, DocumentWritten
  <2>8. CASE Insert
    <3>1. /\ Moved(run', run, "record", run.doc, run.todo) /\ InDocument
          /\ run.doc \in Docs /\ run.body \in Texts /\ run.pc = "embed" /\ rows' = rows
      BY <2>1, <2>8, MovedRun DEF Insert, InDocument, Typed
    <3>2. Written /\ chunks[run.doc] = Nothing
      BY <2>2, <3>1 DEF Moved, Written
    <3>3. PICK b \in Batch : b = [text |-> run.body, model |-> run.model]
      BY <2>1, <3>1 DEF Batch, Working
    <3>4. chunks' = [chunks EXCEPT ![run.doc][b] = @ + 1] /\ chunks \in [Docs -> [Batch -> Nat]]
      BY <2>8, <3>3 DEF Insert, Typed, TypeOK
    <3>5. chunks'[run.doc] = Just(b)
      <4>1. chunks'[run.doc] = [chunks[run.doc] EXCEPT ![b] = chunks[run.doc][b] + 1]
        BY <3>1, <3>4
      <4>2. Nothing[b] + 1 = 1
        BY DEF Nothing
      <4> QED
        BY <3>2, <4>1, <4>2 DEF Just
    <3>6. \A d \in Docs : d # run.doc => chunks'[d] = chunks[d] /\ rows'[d] = rows[d]
      BY <3>1, <3>4
    <3> QED
      BY <2>1, <3>1, <3>2, <3>3, <3>5, <3>6, DocumentWritten
  <2>9. CASE Record
    <3>1. /\ Moved(run', run, "visit", run.doc, run.todo) /\ InDocument
          /\ run.doc \in Docs /\ run.body \in Texts /\ run.pc = "record"
          /\ rows' = [rows EXCEPT ![run.doc] = run.body] /\ chunks' = chunks
      BY <2>1, <2>9, MovedRun DEF Record, InDocument, Typed
    <3>2. Written /\ chunks[run.doc] = Just([text |-> run.body, model |-> run.model])
      BY <2>2, <3>1 DEF Moved, Written
    <3>3. \A d \in Docs : d # run.doc => chunks'[d] = chunks[d] /\ rows'[d] = rows[d]
      BY <3>1 DEF Typed, TypeOK
    <3>4. ASSUME NEW d \in Docs, d = run.doc
          PROVE  Settled(d)'
      <4>1. rows'[d] = run.body /\ run.body = text[d] /\ run.body # None /\ run.model \in Models
        BY <2>1, <3>1, <3>4, ReindexAssumption DEF Position, Typed, TypeOK, Working
      <4>2. Describes(run.body, chunks[d])
        BY <3>2, <3>4, <4>1 DEF Describes
      <4> QED
        BY <2>1, <3>1, <4>1, <4>2 DEF Settled
    <3> QED
      BY <2>1, <3>1, <3>2, <3>3, <3>4, DocumentWritten
  <2>10. ASSUME NEW d \in Docs, PruneChunks(d)
         PROVE  Written'
    <3>1. /\ Moved(run', run, "prune row", d, run.todo \ {d}) /\ run.pc = "prune"
          /\ d \in run.todo /\ rows' = rows /\ chunks' = [chunks EXCEPT ![d] = Nothing]
      BY <2>1, <2>10, MovedRun DEF PruneChunks
    <3>2. Written
      BY <2>2, <3>1 DEF Moved
    <3>3. d \notin run.seen
      <4>1. run.processed = Len(library) /\ run.todo \cap Items(library) = {}
        BY <2>1, <3>1 DEF Covered, Prunes
      <4> QED
        BY <2>1, <3>1, <4>1, WholePrefix DEF Covered
    <3>4. /\ \A e \in Docs : e # d => chunks'[e] = chunks[e] /\ rows'[e] = rows[e]
          /\ chunks'[d] = Nothing
      BY <3>1 DEF Typed, TypeOK
    <3>5. Prunes /\ run.todo \subseteq (run.todo \ {d}) \cup {d}
      BY <3>1 DEF Prunes
    <3> QED
      BY <2>1, <3>1, <3>2, <3>3, <3>4, <3>5, PruneWritten
  <2>11. CASE PruneRow
    <3>1. /\ Moved(run', run, "prune", run.doc, run.todo) /\ run.pc = "prune row"
          /\ run.doc \in Docs
          /\ chunks' = chunks /\ rows' = [rows EXCEPT ![run.doc] = None]
      BY <2>1, <2>11, MovedRun DEF PruneRow, Typed
    <3>2. Written /\ chunks[run.doc] = Nothing
      BY <2>2, <3>1 DEF Moved, Written
    <3>3. run.doc \notin run.seen
      <4>1. run.processed = Len(library) /\ run.doc \notin Items(library)
        BY <2>1, <3>1 DEF Covered, Prunes
      <4> QED
        BY <2>1, <4>1, WholePrefix DEF Covered
    <3>4. /\ \A e \in Docs : e # run.doc => chunks'[e] = chunks[e] /\ rows'[e] = rows[e]
          /\ chunks'[run.doc] = Nothing /\ rows'[run.doc] = None
      BY <3>1, <3>2 DEF Typed, TypeOK
    <3>5. Prunes /\ run.todo \subseteq run.todo \cup {run.doc}
      BY <3>1 DEF Prunes
    <3> QED
      BY <2>1, <3>1, <3>2, <3>3, <3>4, <3>5, PruneWritten
  <2> QED
    BY <1>4, <2>3, <2>4, <2>5, <2>6, <2>7, <2>8, <2>9, <2>10, <2>11 DEF QuietStep
<1> QED
  BY <1>1, <1>2, <1>3, <1>4, QuietSteps

LEMMA WrittenInvAlways ==
    /\ Init => WrittenInv
    /\ Typed /\ QuietInv /\ WrittenInv /\ [Next]_vars => WrittenInv'
<1>1. Init => WrittenInv
  BY DEF Init, WrittenInv, Busy, NoRun
<1>2. ASSUME WrittenInv, UNCHANGED vars
      PROVE  WrittenInv'
  <2>1. UNCHANGED <<run, library, text, chunks, rows>>
    BY <1>2 DEF vars, store
  <2>2. ASSUME Written PROVE Written'
    BY <2>1, <2>2 DEF Written, InDocument, Prunes, Kept, Settled, Gone
  <2> QED
    BY <1>2, <2>1, <2>2 DEF WrittenInv, Busy, Founded
<1> QED
  BY <1>1, <1>2, WrittenInvStep

(* What a rebuild has stored is of its model, and it knows that it stored  *)
(* something, whatever failed.                                             *)
OneModel ==
    Busy /\ run.mode = "rebuild" =>
        \A d \in Docs : \A b \in Batch : chunks[d][b] > 0 => b.model = run.model /\ run.wrote

LEMMA OneModelAlways ==
    /\ Init => OneModel
    /\ Typed /\ OneModel /\ [Next]_vars => OneModel'
<1>1. Init => OneModel
  BY DEF Init, OneModel, Busy, NoRun
<1>2. ASSUME OneModel, UNCHANGED vars
      PROVE  OneModel'
  BY <1>2 DEF OneModel, vars, store, Busy
<1>3. ASSUME Typed, OneModel, Next
      PROVE  OneModel'
  <2>1. SUFFICES ASSUME Busy', run'.mode = "rebuild",
                        NEW d \in Docs, NEW b \in Batch, chunks'[d][b] > 0
                 PROVE  b.model = run'.model /\ run'.wrote
    BY DEF OneModel
  <2>2. chunks[d][b] \in Nat
    BY <1>3 DEF Typed, TypeOK
  <2>3. CASE Begin
    <3>1. PICK e \in [Docs -> OptText] : run' = Began(e)
      <4>1. rows \in [Docs -> OptText] /\ [x \in Docs |-> None] \in [Docs -> OptText]
        BY <1>3, BatchTypes DEF Typed, TypeOK
      <4> QED
        BY <2>3, <4>1 DEF Begin
    <3>2. run.mode = "rebuild"
      BY <1>3, <2>1, <2>3, <3>1, BeganRun DEF Begin
    <3>3. chunks'[d][b] = 0
      BY <2>3, <3>2 DEF Begin, Nothing
    <3> QED
      BY <2>1, <3>3
  <2>4. CASE ~Begin
    <3>1. /\ Busy /\ run'.mode = run.mode /\ run'.model = run.model
          /\ run.wrote => run'.wrote
          /\ Insert => run'.wrote
      BY <1>3, <2>1, <2>4, RunKeeps
    <3>2. CASE chunks[d][b] > 0
      BY <1>3, <2>1, <3>1, <3>2 DEF OneModel
    <3>3. CASE ~(chunks[d][b] > 0)
      <4>1. chunks'[d][b] > chunks[d][b]
        BY <2>1, <2>2, <3>3
      <4>2. Insert /\ b = [text |-> run.body, model |-> run.model]
        BY <1>3, <4>1, OnlyInsertAdds
      <4> QED
        BY <3>1, <4>2
    <3> QED
      BY <3>2, <3>3
  <2> QED
    BY <2>3, <2>4
<1> QED
  BY <1>1, <1>2, <1>3

(* A quiet run ends in Finish, which nothing delays.                       *)
LEMMA QuietEnd ==
    ASSUME Typed, Next, EndsQuietly, AgreeInv
    PROVE  /\ run \in Working /\ Busy /\ run.quiet /\ run.pc = "prune" /\ run.todo = {}
           /\ meta' = IF run.wrote THEN run.model ELSE meta
<1>1. run.pc = "prune" /\ run.quiet /\ run' = NoRun /\ faults' = faults
  BY DEF EndsQuietly
<1>2. run \in Working /\ Busy /\ run # NoRun
  BY <1>1, BusyRun DEF Typed, Busy
<1>3. ~Fault
  <2>1. faults \in Nat
    BY DEF AgreeInv
  <2> QED
    BY <1>1, <2>1 DEF Fault
<1>4. RunStep
  <2>1. ASSUME NEW d \in Docs, \/ AddItem(d) \/ RemoveItem(d) \/ \E t \in OptText : ChangeText(d, t)
        PROVE  FALSE
    <3>1. run' = Disturbed(run)
      BY <2>1 DEF AddItem, RemoveItem, ChangeText
    <3> QED
      BY <1>1, <1>2, <3>1, DisturbedRun, WorkingIsRun DEF SamePlace
  <2>2. ASSUME NEW mode \in {"update", "rebuild"}, Accept(mode)
        PROVE  FALSE
    BY <1>2, <2>2 DEF Accept, Typed, TypeOK
  <2>3. ASSUME NEW m \in Models \cup {None}, Configure(m)
        PROVE  FALSE
    BY <1>1, <1>2, <2>2, <2>3 DEF Configure
  <2>4. ASSUME NEW mode \in {"update", "rebuild"}, Reindex(mode)
        PROVE  FALSE
    BY <2>2, <2>4 DEF Reindex
  <2>5. ~Crash
    BY <1>3 DEF Crash
  <2> QED
    BY <2>1, <2>3, <2>4, <2>5 DEF Next
<1>5. ASSUME run' \in Working
      PROVE  FALSE
  BY <1>1, <1>5, WorkingIsRun
<1>6. ASSUME NEW d \in Docs
      PROVE  ~PruneChunks(d)
  BY <1>2, <1>5, MovedRun DEF Moved
<1>7. Finish
  BY <1>1, <1>3, <1>4, <1>6 DEF RunStep, SetupFails, Begin, ListPage, ListFails, NextPage,
     ChildrenFail, FulltextFails, Visit, Clear, Insert, Record, DocumentFails, PruneRow, PruneFails
<1> QED
  BY <1>1, <1>2, <1>3, <1>7 DEF Finish

LEMMA PrefixSize ==
    ASSUME Typed, NEW n \in Nat, n <= Len(library)
    PROVE  Cardinality(Prefix(n)) = n
<1>1. library \in Seq(Docs) /\ Distinct(library)
  BY Listings DEF Typed, TypeOK
<1>2. PICK f : f = [i \in 1 .. n |-> library[i]]
  OBVIOUS
<1>3. f \in [1 .. n -> Prefix(n)] /\ \A i \in 1 .. n : f[i] = library[i]
  BY <1>2 DEF Prefix
<1>4. \A i, j \in 1 .. n : f[i] = f[j] => i = j
  BY <1>1, <1>3 DEF Distinct
<1>5. \A x \in Prefix(n) : \E i \in 1 .. n : f[i] = x
  BY <1>3 DEF Prefix
<1>6. f \in Bijection(1 .. n, Prefix(n))
  BY <1>3, <1>4, <1>5 DEF Bijection, Injection, IsInjective, Surjection
<1>7. IsFiniteSet(1 .. n) /\ Cardinality(1 .. n) = n
  <2>1. IsFiniteSet(1 .. n) /\ Cardinality(1 .. n) = IF 1 > n THEN 0 ELSE n - 1 + 1
    BY FS_Interval
  <2> QED
    BY <2>1
<1> QED
  BY <1>6, <1>7, FS_Bijection DEF ExistsBijection

Steady == Typed /\ AgreeInv /\ QuietInv /\ WrittenInv /\ OneModel

LEMMA SteadyAlways == Spec => []Steady
<1>1. Init => Steady
  <2> SUFFICES ASSUME Init PROVE AgreeInv
    BY TypedInit, QuietInvAlways, WrittenInvAlways, OneModelAlways DEF Steady
  <2>1. run.pc = "none"
    BY DEF Init, NoRun
  <2> QED
    BY <2>1 DEF Init, AgreeInv, MatchedBy
<1>2. Steady /\ [Next]_vars => Steady'
  <2>1. ASSUME AgreeInv, UNCHANGED vars
        PROVE  AgreeInv'
    BY <2>1, AgreeSame DEF vars, store
  <2> QED
    BY <2>1, TypedStep, AgreeStep, QuietInvAlways, WrittenInvAlways, OneModelAlways DEF Steady
<1> QED
  BY <1>1, <1>2, PTL DEF Spec

(* At the end of a rebuild during which nothing failed or changed the      *)
(* index is the part of the library the crawl covered, each document once, *)
(* all of them of the model the meta row names: whatever crashes, failed   *)
(* calls and duplicates earlier runs left behind.                          *)
THEOREM RebuildsAreExact == Spec => RebuildIsExact
<1> DEFINE Exact == EndsQuietly /\ run.mode = "rebuild" =>
        /\ run.seen = Items(library) \/ Cardinality(run.seen) >= MaxItems
        /\ \A d \in run.seen : Current(d)
        /\ \A d \in Docs \ run.seen : rows[d] = None /\ chunks[d] = Nothing
        /\ \A d \in Docs : \A b \in Stored(d) : b.model = meta'
<1>1. Steady /\ [Next]_vars => [Exact]_vars
  <2>1. ASSUME Steady, Next, EndsQuietly, run.mode = "rebuild"
        PROVE  /\ run.seen = Items(library) \/ Cardinality(run.seen) >= MaxItems
               /\ \A d \in run.seen : Current(d)
               /\ \A d \in Docs \ run.seen : rows[d] = None /\ chunks[d] = Nothing
               /\ \A d \in Docs : \A b \in Stored(d) : b.model = meta'
    <3>1. /\ run \in Working /\ Busy /\ run.quiet /\ run.pc = "prune" /\ run.todo = {}
          /\ meta' = IF run.wrote THEN run.model ELSE meta
      BY <2>1, QuietEnd DEF Steady
    <3>2. Covered /\ Written /\ Typed
      BY <2>1, <3>1 DEF Steady, QuietInv, WrittenInv, Founded
    <3>3. run.seen = Items(library) \/ Cardinality(run.seen) >= MaxItems
      <4>1. run.seen = Prefix(run.processed) /\ run.processed <= Len(library)
        BY <3>2 DEF Covered
      <4>2. CASE run.processed = Len(library)
        BY <3>2, <4>1, <4>2, WholePrefix
      <4>3. CASE run.processed >= MaxItems
        <5>1. Cardinality(run.seen) = run.processed
          BY <3>1, <3>2, <4>1, ListingEnds, PrefixSize
        <5> QED
          BY <4>3, <5>1
      <4> QED
        BY <3>1, <3>2, <4>2, <4>3 DEF Covered, Prunes
    <3>4. ASSUME NEW d \in run.seen
          PROVE  Current(d)
      <4>1. d \in Docs
        BY <3>1, <3>4 DEF Working
      <4>2. Settled(d) /\ run.existing[d] = None
        BY <2>1, <3>1, <3>2, <4>1 DEF Written, InDocument
      <4> QED
        BY <4>1, <4>2, DescribesRow DEF Settled, Current
    <3>5. ASSUME NEW d \in Docs \ run.seen
          PROVE  rows[d] = None /\ chunks[d] = Nothing
      <4>1. Gone(d)
        BY <3>1, <3>2, <3>5 DEF Written, Prunes
      <4> QED
        BY <2>1, <4>1 DEF Gone, Describes
    <3>6. ASSUME NEW d \in Docs, NEW b \in Stored(d)
          PROVE  b.model = meta'
      BY <2>1, <3>1, <3>6 DEF Steady, OneModel, Stored
    <3> QED
      BY <3>3, <3>4, <3>5, <3>6
  <2> QED
    BY <2>1
<1>2. [][Exact]_vars => RebuildIsExact
  BY DEF RebuildIsExact
<1> QED
  BY <1>1, <1>2, SteadyAlways, PTL DEF Spec

(* At the end of an update during which nothing failed or changed, and     *)
(* which found rows that described the chunks, every document it saw with  *)
(* a text is current, and if the crawl was not cut off nothing is left of  *)
(* a document that is not in the library.                                  *)
THEOREM UpdatesCatchUp == Spec => UpdateCatchesUp
<1> DEFINE Catches == EndsQuietly /\ run.mode = "update" /\ run.sound =>
        /\ \A d \in run.seen : text[d] # None => Current(d)
        /\ run.processed < MaxItems =>
               \A d \in Docs \ Items(library) : rows[d] = None /\ chunks[d] = Nothing
<1>1. Steady /\ [Next]_vars => [Catches]_vars
  <2>1. ASSUME Steady, Next, EndsQuietly, run.mode = "update", run.sound
        PROVE  /\ \A d \in run.seen : text[d] # None => Current(d)
               /\ run.processed < MaxItems =>
                      \A d \in Docs \ Items(library) : rows[d] = None /\ chunks[d] = Nothing
    <3>1. run \in Working /\ Busy /\ run.quiet /\ run.pc = "prune" /\ run.todo = {}
      BY <2>1, QuietEnd DEF Steady
    <3>2. Covered /\ Written /\ Typed
      BY <2>1, <3>1 DEF Steady, QuietInv, WrittenInv, Founded
    <3>3. ASSUME NEW d \in run.seen, text[d] # None
          PROVE  Current(d)
      <4>1. d \in Docs
        BY <3>1, <3>3 DEF Working
      <4>2. Settled(d)
        BY <3>1, <3>2, <4>1 DEF Written, InDocument
      <4> QED
        BY <3>3, <4>1, <4>2, DescribesRow DEF Settled, Current
    <3>4. ASSUME run.processed < MaxItems, NEW d \in Docs \ Items(library)
          PROVE  rows[d] = None /\ chunks[d] = Nothing
      <4>1. ~(run.processed >= MaxItems)
        BY <3>1, <3>2, <3>4, ListingEnds, ReindexAssumption
      <4>2. run.processed = Len(library) /\ run.seen = Items(library)
        BY <3>1, <3>2, <4>1, WholePrefix DEF Covered, Prunes
      <4>3. Gone(d)
        BY <3>1, <3>2, <3>4, <4>2 DEF Written, Prunes
      <4> QED
        BY <4>1, <4>3 DEF Gone, Describes
    <3> QED
      BY <3>3, <3>4
  <2> QED
    BY <2>1
<1>2. [][Catches]_vars => UpdateCatchesUp
  BY DEF UpdateCatchesUp
<1> QED
  BY <1>1, <1>2, SteadyAlways, PTL DEF Spec

-----------------------------------------------------------------------------
(* The chunks of a document.                                               *)

(* A set of naturals has a least element. *)
LEMMA Least ==
    ASSUME NEW S \in SUBSET Nat, S # {}
    PROVE  \E x \in S : \A y \in S : x <= y
<1>1. PICK x \in S : \A y \in S : ~(<<y, x>> \in OpToRel(<, Nat))
  BY NatLessThanWellFounded, WFMin
<1>2. ASSUME NEW y \in S PROVE x <= y
  <2>1. <<y, x>> \in Nat \X Nat /\ ~(<<y, x>>[1] < <<y, x>>[2])
    BY <1>1 DEF OpToRel
  <2> QED
    BY <2>1
<1> QED
  BY <1>2

(* A set of integers with an upper bound has a greatest element. *)
LEMMA Greatest ==
    ASSUME NEW S \in SUBSET Int, S # {}, NEW b \in Int, \A x \in S : x <= b
    PROVE  Max(S) \in S /\ \A y \in S : y <= Max(S)
<1> DEFINE T == {n \in Nat : b - n \in S}
<1>1. T # {}
  <2>1. PICK x \in S : TRUE
    OBVIOUS
  <2>2. b - x \in Nat /\ b - (b - x) = x
    OBVIOUS
  <2> QED
    BY <2>1, <2>2
<1>2. PICK n \in T : \A m \in T : n <= m
  BY <1>1, Least
<1>3. ASSUME NEW y \in S PROVE y <= b - n
  <2>1. b - y \in Nat /\ b - (b - y) = y
    BY <1>3
  <2>2. b - y \in T
    BY <2>1
  <2> QED
    BY <1>2, <2>2
<1>4. \E x \in S : \A y \in S : x >= y
  <2>1. b - n \in S
    OBVIOUS
  <2> QED
    BY <1>3, <2>1
<1> QED
  BY <1>4 DEF Max

(* Min of a set of naturals is in it.                                      *)
LEMMA First ==
    ASSUME NEW S \in SUBSET Nat, S # {}
    PROVE  Min(S) \in S
BY Least DEF Min

(* A separator ends within the window it was looked for in.                *)
LEMMA LastIndexWithin ==
    ASSUME NEW from \in Int, NEW to \in Int, NEW sep, Len(sep) \in Nat
    PROVE  LET i == LastIndexAfter(from, to, sep) IN i = -1 \/ i \in from + Len(sep) .. to
<1> DEFINE found == {i \in from .. to - Len(sep) : SubSeq(content, i + 1, i + Len(sep)) = sep}
<1>1. CASE found = {}
  BY <1>1 DEF LastIndexAfter
<1>2. CASE found # {}
  <2>1. Max(found) \in found
    <3>1. found \in SUBSET Int /\ \A x \in found : x <= to - Len(sep)
      OBVIOUS
    <3>2. to - Len(sep) \in Int
      OBVIOUS
    <3> QED
      BY <1>2, <3>1, <3>2, Greatest
  <2>2. LastIndexAfter(from, to, sep) = Max(found) + Len(sep)
    BY <1>2 DEF LastIndexAfter
  <2>3. Max(found) \in from .. to - Len(sep)
    BY <2>1
  <2> HIDE DEF found
  <2> QED
    BY <2>2, <2>3
<1> QED
  BY <1>1, <1>2

(* A chunk loses at most a third of its size to its break point.           *)
LEMMA BreakPointWithin ==
    ASSUME NEW from \in Nat, NEW n \in Nat \ {0}
    PROVE  LET c == BreakPoint(from, from + n) IN
           c \in Int /\ from < c /\ c <= from + n /\ 3 * (c - from) >= 2 * n
<1> DEFINE rawEnd == from + n
           minCut == rawEnd - (rawEnd - from) \div 3
           cuts == [i \in DOMAIN Separators |-> LastIndexAfter(minCut, rawEnd, Separators[i])]
           good == {i \in DOMAIN cuts : cuts[i] > 0}
<1>1. /\ minCut \in Nat /\ rawEnd \in Nat
      /\ \A c \in Int : c > minCut /\ c <= rawEnd => from < c /\ 3 * (c - from) >= 2 * n
  <2>1. rawEnd - from = n /\ n \div 3 \in Nat /\ 3 * (n \div 3) <= n
    OBVIOUS
  <2> QED
    BY <2>1
<1>2. DOMAIN Separators = 1 .. 4 /\ \A i \in 1 .. 4 : Len(Separators[i]) \in 1 .. 2
  BY DEF Separators
<1>3. \A i \in 1 .. 4 : cuts[i] = -1 \/ cuts[i] \in minCut + 1 .. rawEnd
  <2> SUFFICES ASSUME NEW i \in 1 .. 4 PROVE cuts[i] = -1 \/ cuts[i] \in minCut + 1 .. rawEnd
    OBVIOUS
  <2>1. Len(Separators[i]) \in 1 .. 2 /\ cuts[i] = LastIndexAfter(minCut, rawEnd, Separators[i])
    BY <1>2
  <2>2. cuts[i] = -1 \/ cuts[i] \in minCut + Len(Separators[i]) .. rawEnd
    <3> HIDE DEF minCut, rawEnd, cuts
    <3> QED
      BY <1>1, <2>1, LastIndexWithin
  <2>3. \A m, r, l, x : m \in Nat /\ r \in Nat /\ l \in 1 .. 2 /\ x \in m + l .. r => x \in m + 1 .. r
    OBVIOUS
  <2> HIDE DEF minCut, rawEnd, cuts
  <2> QED
    BY <1>1, <2>1, <2>2, <2>3
<1>4. BreakPoint(from, from + n) = IF good = {} THEN rawEnd ELSE cuts[Min(good)]
  BY DEF BreakPoint
<1>5. CASE good = {}
  BY <1>1, <1>4, <1>5
<1>6. CASE good # {}
  <2>1. good \in SUBSET Nat
    BY <1>2
  <2>2. Min(good) \in good
    <3> HIDE DEF good
    <3> QED
      BY <1>6, <2>1, First
  <2>3. Min(good) \in 1 .. 4 /\ cuts[Min(good)] > 0
    BY <1>2, <2>2
  <2>4. cuts[Min(good)] \in minCut + 1 .. rawEnd
    <3> HIDE DEF cuts, minCut, rawEnd, good
    <3> QED
      BY <1>3, <2>3
  <2> HIDE DEF cuts, minCut, good
  <2> QED
    BY <1>1, <1>4, <1>6, <2>4
<1> QED
  BY <1>5, <1>6

Span == [from : Nat, to : Nat]
InSpan(c) == \E i \in DOMAIN spans : c \in spans[i].from + 1 .. spans[i].to

(* Spans are long enough, move on and share no more than the overlap.      *)
Spaced ==
    \A i \in DOMAIN spans :
        /\ spans[i].to - spans[i].from <= size
        /\ spans[i].to < Len(content) => 3 * (spans[i].to - spans[i].from) >= 2 * size
        /\ i > 1 => /\ spans[i].from > spans[i-1].from
                    /\ spans[i].from >= spans[i-1].to - overlap

(* The next span starts after the last one did, and all before it is in    *)
(* some span.                                                              *)
ChunkInv ==
    /\ spans \in Seq(Span) /\ Spaced
    /\ at \in {"start", "split"} => size = 0 /\ start = 0 /\ spans = <<>>
    /\ at = "chunk" =>
         /\ size \in Nat \ {0} /\ overlap \in 0 .. size - 1
         /\ content \in Seq(STRING) /\ start \in 0 .. Len(content) - 1
         /\ \A i \in DOMAIN spans : spans[i].from < start /\ spans[i].to - overlap <= start
         /\ \A c \in 1 .. start : Blank(content[c]) \/ InSpan(c)
    /\ at = "done" /\ size > 0 => \A c \in DOMAIN content : Blank(content[c]) \/ InSpan(c)

(* A chunk continues where the last one ended, or within its overlap.      *)
LEMMA ChunkStep ==
    ASSUME ChunkInv, Chunk
    PROVE  ChunkInv'
<1> DEFINE length == Len(content)
           end == IF start + size >= length THEN length ELSE BreakPoint(start, start + size)
           new == [from |-> start, to |-> end]
<1>1. /\ at = "chunk" /\ size \in Nat \ {0} /\ overlap \in 0 .. size - 1
      /\ content \in Seq(STRING) /\ start \in 0 .. length - 1 /\ length \in Nat
      /\ spans \in Seq(Span) /\ Spaced
      /\ \A i \in DOMAIN spans : spans[i].from < start /\ spans[i].to - overlap <= start
      /\ \A c \in 1 .. start : Blank(content[c]) \/ InSpan(c)
  BY DEF Chunk, ChunkInv
<1>2. /\ end \in Nat /\ start < end /\ end <= length /\ end - start <= size
      /\ end < length => 3 * (end - start) >= 2 * size
  <2>1. CASE start + size >= length
    BY <1>1, <2>1
  <2>2. CASE start + size < length
    <3>1. end = BreakPoint(start, start + size)
      BY <1>1, <2>2
    <3>2. /\ end \in Int /\ start < end /\ end <= start + size /\ 3 * (end - start) >= 2 * size
      BY <1>1, <3>1, BreakPointWithin
    <3> HIDE DEF end
    <3> QED
      BY <1>1, <2>2, <3>2
  <2> QED
    BY <1>1, <2>1, <2>2
<1>3. /\ UNCHANGED <<content, size, overlap>>
      /\ spans' = IF \A i \in start + 1 .. end : Blank(content[i]) THEN spans ELSE Append(spans, new)
      /\ at' = IF end >= length THEN "done" ELSE "chunk"
      /\ start' = IF end >= length THEN start
                  ELSE IF end - overlap <= start THEN end ELSE end - overlap
  BY DEF Chunk
<1> HIDE DEF end
<1>4. new \in Span
  BY <1>1, <1>2 DEF Span
<1>5. \/ spans' = spans
      \/ /\ spans' = Append(spans, new) /\ DOMAIN spans' = 1 .. Len(spans) + 1
         /\ \A i \in DOMAIN spans : spans'[i] = spans[i]
         /\ spans'[Len(spans) + 1] = new
  BY <1>1, <1>3, <1>4
<1>6. DOMAIN spans = 1 .. Len(spans) /\ Len(spans) \in Nat
  BY <1>1
<1>7. \A i \in DOMAIN spans : spans[i] \in Span /\ spans[i].from \in Nat /\ spans[i].to \in Nat
  <2>1. \A i \in DOMAIN spans : spans[i] \in Span
    BY <1>1, <1>6
  <2> QED
    BY <2>1 DEF Span
<1>8. spans' \in Seq(Span) /\ Spaced'
  <2>1. spans' \in Seq(Span)
    BY <1>1, <1>4, <1>5
  <2>2. CASE spans' = spans
    BY <1>1, <1>3, <2>2 DEF Spaced
  <2>3. CASE spans' # spans
    <3> SUFFICES ASSUME NEW i \in DOMAIN spans'
                 PROVE  Spaced!(i)'
      BY <2>1 DEF Spaced
    <3>1. CASE i \in DOMAIN spans
      <4>1. spans'[i] = spans[i] /\ (i > 1 => spans'[i-1] = spans[i-1])
        BY <1>5, <1>6, <2>3, <3>1
      <4> QED
        BY <1>1, <1>3, <3>1, <4>1 DEF Spaced
    <3>2. CASE i = Len(spans) + 1
      <4>1. spans'[i].from = start /\ spans'[i].to = end
        BY <1>5, <2>3, <3>2
      <4>2. i > 1 => i - 1 \in DOMAIN spans /\ spans'[i-1] = spans[i-1]
        BY <1>5, <1>6, <2>3, <3>2
      <4>3. i > 1 => spans[i-1].from < start /\ spans[i-1].to - overlap <= start
                       /\ spans[i-1].from \in Nat /\ spans[i-1].to \in Nat
        BY <1>1, <1>7, <4>2
      <4> QED
        BY <1>1, <1>2, <1>3, <4>1, <4>2, <4>3
    <3> QED
      BY <1>5, <1>6, <2>3, <3>1, <3>2
  <2> QED
    BY <2>1, <2>2, <2>3
<1>9. \A c \in 1 .. end : Blank(content[c]) \/ InSpan(c)'
  <2> SUFFICES ASSUME NEW c \in 1 .. end, ~Blank(content[c])
               PROVE  InSpan(c)'
    OBVIOUS
  <2>1. CASE c <= start
    <3>1. InSpan(c)
      BY <1>1, <2>1
    <3> QED
      BY <1>5, <1>6, <3>1 DEF InSpan
  <2>2. CASE c > start
    <3>0. c \in start + 1 .. end
      BY <1>1, <1>2, <2>2
    <3>1. spans' = Append(spans, new) /\ c \in start + 1 .. end
      BY <1>3, <3>0
    <3>2. Len(spans) + 1 \in DOMAIN spans' /\ spans'[Len(spans) + 1] = new
      BY <1>1, <1>4, <1>6, <3>1
    <3> QED
      BY <3>1, <3>2 DEF InSpan
  <2> QED
    BY <1>1, <1>2, <2>1, <2>2
<1>10. CASE end >= length
  <2>1. at' = "done" /\ DOMAIN content = 1 .. end
    BY <1>1, <1>2, <1>3, <1>10
  <2> QED
    BY <1>3, <1>8, <1>9, <2>1 DEF ChunkInv
<1>11. CASE end < length
  <2>1. at' = "chunk" /\ start' \in 0 .. length - 1 /\ start < start' /\ start' <= end
        /\ end - overlap <= start'
    BY <1>1, <1>2, <1>3, <1>11
  <2>2. ASSUME NEW i \in DOMAIN spans' PROVE spans'[i].from < start' /\ spans'[i].to - overlap <= start'
    <3>1. CASE i \in DOMAIN spans
      <4>1. spans'[i] = spans[i]
        BY <1>5, <3>1
      <4> QED
        BY <1>1, <1>7, <2>1, <3>1, <4>1
    <3>2. CASE i \notin DOMAIN spans
      <4>1. spans'[i] = new
        BY <1>5, <1>6, <2>2, <3>2
      <4> QED
        BY <2>1, <4>1
    <3> QED
      BY <3>1, <3>2
  <2>3. \A c \in 1 .. start' : Blank(content'[c]) \/ InSpan(c)'
    BY <1>2, <1>3, <1>9, <2>1
  <2> QED
    BY <1>1, <1>3, <1>8, <2>1, <2>2, <2>3 DEF ChunkInv
<1> QED
  BY <1>1, <1>2, <1>10, <1>11

(* The loop of ChunkSize keeps ChunkInv.                                   *)
LEMMA ChunkInvariance ==
    ASSUME ChunkingAssumption
    PROVE  ChunkingSpec => []ChunkInv
<1>1. ChunkingInit => ChunkInv
  BY DEF ChunkingInit, ChunkInv, Spaced
<1>2. ASSUME ChunkInv, [ChunkingNext]_chunkingVars PROVE ChunkInv'
  <2> USE <1>2
  <2>1. CASE BeginChunks
    <3>1. at = "start" /\ size = 0 /\ start = 0 /\ spans = <<>> /\ UNCHANGED <<start, spans>>
      BY <2>1 DEF BeginChunks, splitVars, ChunkInv
    <3>2. /\ content' \in Seq(STRING) /\ size' \in Nat \ {0} /\ overlap' \in 0 .. size' - 1
          /\ at' = IF content' = <<>> THEN "done" ELSE "chunk"
      BY <2>1 DEF BeginChunks, ChunkingAssumption
    <3>3. spans' \in Seq(Span) /\ Spaced' /\ DOMAIN spans' = {}
      BY <3>1 DEF Spaced
    <3>4. content' = <<>> => DOMAIN content' = {}
      OBVIOUS
    <3>5. content' # <<>> => Len(content') \in Nat \ {0}
      BY <3>2
    <3>6. CASE content' = <<>>
      BY <3>2, <3>3, <3>4, <3>6 DEF ChunkInv
    <3>7. CASE content' # <<>>
      <4>1. start' = 0 /\ start' \in 0 .. Len(content') - 1 /\ 1 .. start' = {}
        BY <3>1, <3>5, <3>7
      <4>2. at' = "chunk"
        BY <3>2, <3>7
      <4> QED
        BY <3>2, <3>3, <4>1, <4>2 DEF ChunkInv
    <3> QED
      BY <3>6, <3>7
  <2>2. CASE Chunk
    BY <2>2, ChunkStep
  <2>3. CASE BeginSections
    BY <2>3 DEF BeginSections, chunkVars, splitVars, ChunkInv, Spaced
  <2>4. CASE ReadLine
    BY <2>4 DEF ReadLine, chunkVars, ChunkInv, Spaced
  <2>5. CASE EndSections
    BY <2>5 DEF EndSections, chunkVars, ChunkInv, Spaced
  <2>6. CASE UNCHANGED chunkingVars
    BY <2>6 DEF chunkingVars, chunkVars, splitVars, ChunkInv, Spaced, InSpan
  <2> QED
    BY <2>1, <2>2, <2>3, <2>4, <2>5, <2>6 DEF ChunkingNext
<1> QED
  BY <1>1, <1>2, PTL DEF ChunkingSpec

(* No character of a document other than space is outside of its chunks,   *)
(* and the loop advances, whatever the text, the size and the overlap      *)
(* (ChunkSize).                                                            *)
THEOREM ChunksAreComplete == ChunkingSpec => []ChunksCover
<1>1. ChunkInv => ChunksCover
  BY DEF ChunkInv, Spaced, InSpan, ChunksCover
<1> QED
  BY <1>1, ChunkInvariance, ChunkingAssumption, PTL

-----------------------------------------------------------------------------
(* The lines of a document: headings of some level, fences or prose.       *)
Lines == Nat \cup {Fence, Prose}

Section == [breadcrumb : Seq(Nat), from : Nat, to : Nat]

Around(line) == {i \in DOMAIN sections : line \in sections[i].from + 1 .. sections[i].to}
Rising(s) == \A j \in 2 .. Len(s) : s[j-1] < s[j]

(* A line has its section, with the headings that are open there.          *)
Placed(line) ==
    \E i \in Around(line) :
        /\ Around(line) = {i}
        /\ Range(sections[i].breadcrumb) = OpenAt(line)
        /\ Rising(sections[i].breadcrumb)

Fenced(n) == Cardinality({f \in 1 .. n : content[f] = Fence}) % 2 = 1

(* The stack holds the open headings, outermost first, at rising levels;   *)
(* no line since the last heading is one, and those before have a section. *)
Splitting ==
    /\ content \in Seq(Lines) /\ pos \in 0 .. Len(content)
    /\ inFence \in BOOLEAN /\ (inFence <=> Fenced(pos))
    /\ stack \in Seq(1 .. pos)
    /\ \A i, j \in DOMAIN stack : i < j => stack[i] < stack[j] /\ content[stack[i]] < content[stack[j]]
    /\ \A i \in 1 .. Len(content) :
          (\E j \in DOMAIN stack : stack[j] = i) <=>
             /\ i \in Headings /\ i <= pos
             /\ \A k \in Headings : i < k /\ k <= pos => content[k] > content[i]
    /\ stack = <<>> => \A i \in Headings : i > pos
    /\ bodyStart \in 0 .. pos
    /\ \A l \in bodyStart + 1 .. pos : l \notin Headings
    /\ sections \in Seq(Section)
    /\ \A i \in DOMAIN sections : sections[i].to <= bodyStart
    /\ \A l \in 1 .. bodyStart : l \in Headings \/ Placed(l)

SectionInv ==
    /\ at = "start" =>
          /\ size = 0 /\ pos = 0 /\ inFence = FALSE /\ stack = <<>> /\ bodyStart = 0
          /\ sections = <<>>
    /\ at = "chunk" => size # 0
    /\ at = "split" => size = 0 /\ Splitting
    /\ at = "done" /\ size = 0 /\ Headings # {} =>
          \A l \in DOMAIN content \ Headings : Placed(l)

(* A heading is a line with a level.                                       *)
LEMMA Headed ==
    ASSUME ChunkingAssumption, content \in Seq(Lines), NEW i \in Headings
    PROVE  i \in 1 .. Len(content) /\ content[i] \in Nat
<1>1. i \in 1 .. Len(content) /\ content[i] \in Lines /\ content[i] \notin {Fence, Prose}
  BY DEF Headings
<1> QED
  BY <1>1 DEF Lines

(* The headings are those outside of fences.                               *)
LEMMA Heading ==
    ASSUME NEW i
    PROVE  i \in Headings <=> /\ i \in DOMAIN content /\ content[i] \notin {Fence, Prose}
                              /\ Cardinality({f \in 1 .. i : content[f] = Fence}) % 2 = 0
BY DEF Headings

(* A line is a heading if it looks like one and no fence is open.          *)
LEMMA NextLine ==
    ASSUME ChunkingAssumption, content \in Seq(Lines), NEW n \in 0 .. Len(content) - 1
    PROVE  /\ Fenced(n + 1) <=> ~(Fenced(n) <=> content[n + 1] = Fence)
           /\ n + 1 \in Headings <=> ~Fenced(n) /\ content[n + 1] \notin {Fence, Prose}
<1> DEFINE fences(m) == {f \in 1 .. m : content[f] = Fence}
<1>1. IsFiniteSet(fences(n)) /\ Cardinality(fences(n)) \in Nat
  <2>1. IsFiniteSet(1 .. n) /\ fences(n) \subseteq 1 .. n
    BY FS_Interval
  <2> QED
    BY <2>1, FS_Subset, FS_CardinalityType
<1>2. CASE content[n + 1] = Fence
  <2>1. fences(n + 1) = fences(n) \cup {n + 1} /\ n + 1 \notin fences(n)
    BY <1>2
  <2>2. Cardinality(fences(n + 1)) = Cardinality(fences(n)) + 1
    BY <1>1, <2>1, FS_AddElement
  <2>3. Fenced(n + 1) <=> ~Fenced(n)
    BY <1>1, <2>2 DEF Fenced
  <2>4. n + 1 \notin Headings
    BY <1>2 DEF Headings
  <2> QED
    BY <1>2, <2>3, <2>4
<1>3. CASE content[n + 1] # Fence
  <2>1. fences(n + 1) = fences(n)
    BY <1>3
  <2>2. Fenced(n + 1) <=> Fenced(n)
    BY <2>1 DEF Fenced
  <2>3. n + 1 \in Headings <=> content[n + 1] \notin {Fence, Prose} /\ Cardinality(fences(n + 1)) % 2 = 0
    <3>1. n + 1 \in DOMAIN content
      OBVIOUS
    <3> QED
      BY <3>1, Heading
  <2>4. Cardinality(fences(n + 1)) % 2 = 0 <=> ~Fenced(n)
    <3>1. \A c \in Nat : c % 2 = 0 <=> ~(c % 2 = 1)
      OBVIOUS
    <3> HIDE DEF fences
    <3>2. Fenced(n) <=> Cardinality(fences(n)) % 2 = 1
      BY DEF Fenced, fences
    <3> QED
      BY <1>1, <2>1, <3>1, <3>2
  <2>5. ~(Fenced(n) <=> content[n + 1] = Fence) <=> Fenced(n)
    BY <1>3, Zenon DEF Fenced
  <2> HIDE DEF fences
  <2> QED
    BY <2>2, <2>3, <2>4, <2>5, Zenon
<1> QED
  BY <1>2, <1>3

(* The headings are those of the text, which stays as it is.               *)
LEMMA SameText ==
    ASSUME UNCHANGED content
    PROVE  Headings' = Headings /\ \A l : OpenAt(l)' = OpenAt(l)
BY DEF Headings, OpenAt

(* Closing the section that is open gives the lines since the last heading *)
(* a section of their own.                                                 *)
LEMMA Flush ==
    ASSUME ChunkingAssumption, Splitting, UNCHANGED content, sections' = Flushed(pos)
    PROVE  /\ sections' \in Seq(Section)
           /\ \A i \in DOMAIN sections' : sections'[i].to <= pos
           /\ \A l \in 1 .. pos : l \in Headings \/ Placed(l)'
<1> DEFINE new == [breadcrumb |-> stack, from |-> bodyStart, to |-> pos]
<1>1. /\ pos \in Nat /\ bodyStart \in 0 .. pos /\ sections \in Seq(Section) /\ stack \in Seq(1 .. pos)
      /\ DOMAIN sections = 1 .. Len(sections) /\ Len(sections) \in Nat
  BY DEF Splitting
<1>2. new \in Section
  <2>1. stack \in Seq(Nat)
    BY <1>1
  <2> QED
    BY <1>1, <2>1 DEF Section
<1>3. \A i \in DOMAIN sections : sections[i].to \in Nat /\ sections[i].to <= bodyStart
  <2>1. \A i \in DOMAIN sections : sections[i] \in Section
    BY <1>1
  <2> QED
    BY <2>1 DEF Section, Splitting
<1>4. CASE pos <= bodyStart
  <2>1. sections' = sections /\ pos = bodyStart
    BY <1>1, <1>4 DEF Flushed
  <2>2. ASSUME NEW l \in 1 .. pos, l \notin Headings PROVE Placed(l)'
    <3>1. Placed(l)
      BY <2>1, <2>2 DEF Splitting
    <3> QED
      BY <2>1, <3>1, SameText DEF Placed, Around
  <2> QED
    BY <1>1, <1>3, <2>1, <2>2
<1>5. CASE pos > bodyStart
  <2>1. sections' = Append(sections, new)
    BY <1>1, <1>5 DEF Flushed
  <2>2. /\ sections' \in Seq(Section) /\ DOMAIN sections' = 1 .. Len(sections) + 1
        /\ \A i \in DOMAIN sections : sections'[i] = sections[i]
        /\ sections'[Len(sections) + 1] = new
    BY <1>1, <1>2, <2>1
  <2>3. \A i \in DOMAIN sections' : i \in DOMAIN sections \/ i = Len(sections) + 1
    BY <1>1, <2>2
  <2>4. ASSUME NEW l \in 1 .. bodyStart, l \notin Headings PROVE Placed(l)'
    <3>1. Placed(l)
      BY <2>4 DEF Splitting
    <3>2. Around(l)' = Around(l)
      BY <1>1, <2>2, <2>3 DEF Around
    <3>3. Around(l) \subseteq DOMAIN sections
      BY DEF Around
    <3> QED
      BY <2>2, <3>1, <3>2, <3>3, SameText DEF Placed
  <2>5. ASSUME NEW l \in bodyStart + 1 .. pos PROVE Placed(l)'
    <3>1. Around(l)' = {Len(sections) + 1}
      BY <1>1, <1>3, <2>2, <2>3 DEF Around
    <3>2. Range(stack) = OpenAt(l)
      <4>1. l \notin Headings /\ l \in 1 .. Len(content) /\ \A k \in bodyStart + 1 .. pos : k \notin Headings
        BY <1>1 DEF Splitting
      <4>2. \A i \in 1 .. Len(content) : i \in Range(stack) <=> i \in OpenAt(l)
        <5> SUFFICES ASSUME NEW i \in Headings
                     PROVE  /\ i <= pos <=> i < l
                            /\ i <= pos => ((\A k \in Headings : i < k /\ k <= pos => content[k] > content[i])
                                   <=> \A k \in Headings \cap i + 1 .. l : content[k] > content[i])
          <6>1. \A i \in 1 .. Len(content) : i \in Range(stack) <=>
                   /\ i \in Headings /\ i <= pos
                   /\ \A k \in Headings : i < k /\ k <= pos => content[k] > content[i]
            BY DEF Splitting, Range
          <6> QED
            BY <6>1 DEF OpenAt
        <5>1. \A k \in Headings : k \in Nat /\ (k <= pos <=> k <= bodyStart) /\ (k <= l <=> k <= bodyStart) /\ k # l
          <6>1. Headings \subseteq 1 .. Len(content) /\ Len(content) \in Nat
            BY DEF Headings, Splitting
          <6>2. pos \in Nat /\ bodyStart \in 0 .. pos /\ l \in bodyStart + 1 .. pos
            BY DEF Splitting
          <6> QED
            BY <4>1, <6>1, <6>2
        <5> QED
          BY <1>1, <5>1
      <4>3. Range(stack) \subseteq 1 .. Len(content) /\ OpenAt(l) \subseteq 1 .. Len(content)
        <5>1. \A j \in DOMAIN stack : stack[j] \in 1 .. pos
          BY <1>1
        <5>2. pos <= Len(content) /\ Len(content) \in Nat /\ DOMAIN content = 1 .. Len(content)
          BY DEF Splitting
        <5> QED
          BY <1>1, <5>1, <5>2 DEF Range, OpenAt, Headings
      <4> QED
        BY <4>2, <4>3
    <3>3. Rising(stack)
      BY <1>1 DEF Rising, Splitting
    <3>4. sections'[Len(sections) + 1].breadcrumb = stack
      BY <2>2
    <3> QED
      BY <3>1, <3>2, <3>3, <3>4, SameText DEF Placed
  <2>6. \A i \in DOMAIN sections' : sections'[i].to <= pos
    BY <1>1, <1>3, <2>2, <2>3
  <2>7. \A l \in 1 .. pos : l \in 1 .. bodyStart \/ l \in bodyStart + 1 .. pos
    BY <1>1
  <2> HIDE DEF new
  <2>8. sections' \in Seq(Section)
    BY <2>2
  <2> QED
    BY <2>4, <2>5, <2>6, <2>7, <2>8, Zenon
<1> QED
  BY <1>1, <1>4, <1>5

(* The headings above a new one are those of a lower level.                *)
LEMMA StillOpen ==
    ASSUME ChunkingAssumption, Splitting, NEW level \in Nat
    PROVE  \E m \in 0 .. Len(stack) :
              /\ Enclosing(level) = SubSeq(stack, 1, m)
              /\ \A i \in DOMAIN stack : i <= m <=> content[stack[i]] < level
<1> DEFINE lower == {i \in DOMAIN stack : content[stack[i]] < level}
           m == Max({0} \cup lower)
<1>1. DOMAIN stack = 1 .. Len(stack) /\ Len(stack) \in Nat
  BY DEF Splitting
<1>2. m \in {0} \cup lower /\ \A i \in {0} \cup lower : i <= m
  <2> DEFINE all == {0} \cup lower
  <2>1. all \in SUBSET Int /\ all # {} /\ \A i \in all : i <= Len(stack)
    BY <1>1
  <2>2. Max(all) \in all /\ \A i \in all : i <= Max(all)
    <3>1. Len(stack) \in Int
      BY <1>1
    <3> HIDE DEF all, lower
    <3> QED
      BY <2>1, <3>1, Greatest, Zenon
  <2> QED
    BY <2>2
<1>3. Enclosing(level) = SubSeq(stack, 1, m)
  BY DEF Enclosing
<1> HIDE DEF m
<1>4. \A i \in DOMAIN stack : content[stack[i]] \in Nat
  <2>1. ASSUME NEW i \in DOMAIN stack PROVE stack[i] \in Headings
    <3>1. stack[i] \in 1 .. pos /\ 1 .. pos \subseteq 1 .. Len(content)
      BY <1>1 DEF Splitting
    <3>2. stack[i] \in 1 .. Len(content)
      BY <3>1
    <3> QED
      BY <3>2 DEF Splitting
  <2> QED
    BY <2>1, Headed DEF Splitting
<1>5. ASSUME NEW i \in DOMAIN stack PROVE i <= m <=> content[stack[i]] < level
  <2> HIDE DEF lower
  <2>0. i \in Nat /\ (i \in lower <=> content[stack[i]] < level)
    BY <1>1 DEF lower
  <2>1. CASE i \in lower
    BY <1>2, <2>0, <2>1
  <2>2. CASE i \notin lower /\ i <= m
    <3>1. m \in lower /\ m # i
      BY <1>1, <1>2, <2>2
    <3>2. m \in DOMAIN stack /\ content[stack[m]] < level /\ i < m
      BY <1>1, <2>2, <3>1 DEF lower
    <3>3. content[stack[i]] < content[stack[m]]
      BY <3>2 DEF Splitting
    <3>4. content[stack[i]] < level
      BY <1>4, <3>2, <3>3
    <3> QED
      BY <2>0, <2>2, <3>4
  <2>3. CASE i \notin lower /\ ~(i <= m)
    BY <2>0, <2>3
  <2> QED
    BY <2>1, <2>2, <2>3
<1>6. m \in 0 .. Len(stack)
  BY <1>1, <1>2
<1> QED
  BY <1>3, <1>5, <1>6

(* A line of text, or a fence.                                             *)
LEMMA OtherLine ==
    ASSUME ChunkingAssumption, Splitting, ReadLine, pos + 1 \notin Headings
    PROVE  Splitting'
<1>1. /\ pos < Len(content) /\ pos' = pos + 1 /\ UNCHANGED content
      /\ inFence' = (inFence # (content[pos + 1] = Fence))
  BY DEF ReadLine
<1>2. /\ pos \in 0 .. Len(content) /\ Len(content) \in Nat /\ bodyStart \in 0 .. pos
      /\ inFence \in BOOLEAN /\ (inFence <=> Fenced(pos)) /\ content \in Seq(Lines)
  BY DEF Splitting
<1>3. /\ Fenced(pos + 1) <=> ~(Fenced(pos) <=> content[pos + 1] = Fence)
      /\ pos + 1 \in Headings <=> ~Fenced(pos) /\ content[pos + 1] \notin {Fence, Prose}
  BY <1>1, <1>2, NextLine
<1>4. UNCHANGED <<sections, stack, bodyStart>>
  BY <1>2, <1>3 DEF ReadLine
<1>5. \A k \in Headings : k \in Nat /\ (k <= pos <=> k <= pos + 1)
  <2>1. \A k \in Headings : k \in 1 .. Len(content)
    BY <1>2, Headed
  <2> QED
    BY <1>2, <2>1
<1>6. inFence' \in BOOLEAN /\ (inFence' <=> Fenced(pos)')
  <2>1. Fenced(pos)' <=> Fenced(pos + 1)
    BY <1>1 DEF Fenced
  <2>2. inFence' \in BOOLEAN /\ (inFence' <=> ~(inFence <=> content[pos + 1] = Fence))
    BY <1>1, <1>2
  <2> QED
    BY <1>2, <1>3, <2>1, <2>2
<1>7. stack' \in Seq(1 .. pos')
  BY <1>1, <1>2, <1>4 DEF Splitting
<1>8. \A l \in bodyStart' + 1 .. pos' : l \notin Headings'
  BY <1>1, <1>2, <1>4, SameText DEF Splitting
<1>9. \A l \in 1 .. bodyStart' : l \in Headings' \/ Placed(l)'
  <2>1. ASSUME NEW l \in 1 .. bodyStart, Placed(l) PROVE Placed(l)'
    BY <1>1, <1>4, <2>1, SameText DEF Placed, Around
  <2> QED
    BY <1>1, <1>4, <2>1, SameText DEF Splitting
<1>10. \A i \in 1 .. Len(content) : (\E j \in DOMAIN stack : stack[j] = i) <=>
          /\ i \in Headings /\ i <= pos + 1
          /\ \A k \in Headings : i < k /\ k <= pos + 1 => content[k] > content[i]
  BY <1>5 DEF Splitting
<1>11. stack = <<>> => \A i \in Headings : i > pos + 1
  <2>1. \A i \in Headings : i \in Nat /\ i # pos + 1
    BY <1>5
  <2> QED
    BY <1>2, <2>1 DEF Splitting
<1> QED
  BY <1>1, <1>2, <1>4, <1>6, <1>7, <1>8, <1>9, <1>10, <1>11, SameText DEF Splitting

(* A heading: the lines before it get their section.                       *)
LEMMA HeadingLine ==
    ASSUME ChunkingAssumption, Splitting, ReadLine, pos + 1 \in Headings
    PROVE  Splitting'
<1> DEFINE line == content[pos + 1]
<1>1. /\ pos < Len(content) /\ pos' = pos + 1 /\ UNCHANGED content
      /\ inFence' = (inFence # (line = Fence))
  BY DEF ReadLine
<1>2. /\ pos \in 0 .. Len(content) /\ Len(content) \in Nat /\ bodyStart \in 0 .. pos
      /\ inFence \in BOOLEAN /\ (inFence <=> Fenced(pos)) /\ content \in Seq(Lines)
      /\ stack \in Seq(1 .. pos)
  BY DEF Splitting
<1>3. /\ Fenced(pos + 1) <=> ~(Fenced(pos) <=> line = Fence)
      /\ pos + 1 \in Headings <=> ~Fenced(pos) /\ line \notin {Fence, Prose}
  BY <1>1, <1>2, NextLine
<1>4. /\ sections' = Flushed(pos) /\ stack' = Append(Enclosing(line), pos + 1)
      /\ bodyStart' = pos + 1
  BY <1>2, <1>3 DEF ReadLine
<1>5. line \in Nat /\ \A k \in Headings : k \in 1 .. Len(content) /\ content[k] \in Nat
  BY <1>2, Headed
<1>6. inFence' \in BOOLEAN /\ (inFence' <=> Fenced(pos)')
  <2>1. Fenced(pos)' <=> Fenced(pos + 1)
    BY <1>1 DEF Fenced
  <2>2. inFence' \in BOOLEAN /\ (inFence' <=> ~(inFence <=> line = Fence))
    BY <1>1, <1>2
  <2> QED
    BY <1>2, <1>3, <2>1, <2>2
<1>7. PICK m \in 0 .. Len(stack) :
         /\ Enclosing(line) = SubSeq(stack, 1, m)
         /\ \A i \in DOMAIN stack : i <= m <=> content[stack[i]] < line
  BY <1>5, StillOpen
<1> HIDE DEF line
<1>8. /\ DOMAIN stack = 1 .. Len(stack) /\ Len(stack) \in Nat
      /\ \A i \in DOMAIN stack : stack[i] \in 1 .. pos
  BY <1>2
<1>9. /\ stack' \in Seq(1 .. pos + 1) /\ DOMAIN stack' = 1 .. m + 1
      /\ \A i \in 1 .. m : i \in DOMAIN stack /\ stack'[i] = stack[i]
      /\ stack'[m + 1] = pos + 1
  <2>1. /\ SubSeq(stack, 1, m) \in Seq(1 .. pos + 1) /\ Len(SubSeq(stack, 1, m)) = m
        /\ \A i \in 1 .. m : i \in DOMAIN stack /\ SubSeq(stack, 1, m)[i] = stack[i]
    <3>1. \A i \in 1 .. m : i \in DOMAIN stack /\ stack[i] \in 1 .. pos + 1
      BY <1>2, <1>8
    <3>2. /\ SubSeq(stack, 1, m) \in Seq(1 .. pos + 1)
          /\ Len(SubSeq(stack, 1, m)) = IF 1 <= m THEN m - 1 + 1 ELSE 0
          /\ \A i \in 1 .. m - 1 + 1 : SubSeq(stack, 1, m)[i] = stack[1 + i - 1]
      <4>1. \A i \in 1 .. m : stack[i] \in 1 .. pos + 1
        BY <3>1
      <4>2. 1 \in Int /\ m \in Int
        BY <1>8
      <4> QED
        BY <4>1, <4>2, SubSeqProperties
    <3> QED
      BY <1>8, <3>1, <3>2
  <2>2. pos + 1 \in 1 .. pos + 1
    BY <1>2
  <2> QED
    BY <1>4, <1>7, <2>1, <2>2
<1>10. \A i, j \in DOMAIN stack' : i < j =>
          stack'[i] < stack'[j] /\ content[stack'[i]] < content[stack'[j]]
  <2> SUFFICES ASSUME NEW i \in 1 .. m + 1, NEW j \in 1 .. m + 1, i < j
               PROVE  stack'[i] < stack'[j] /\ content[stack'[i]] < content[stack'[j]]
    BY <1>9
  <2>1. i \in 1 .. m /\ i \in DOMAIN stack /\ stack'[i] = stack[i]
    BY <1>9
  <2>2. CASE j = m + 1
    <3>1. stack'[j] = pos + 1 /\ stack[i] \in 1 .. pos
      BY <1>8, <1>9, <2>1, <2>2
    <3>2. content[stack[i]] < line
      BY <1>7, <2>1
    <3> QED
      BY <1>2, <2>1, <3>1, <3>2 DEF line
  <2>3. CASE j # m + 1
    <3>1. j \in 1 .. m /\ j \in DOMAIN stack /\ stack'[j] = stack[j]
      BY <1>9, <2>3
    <3> QED
      BY <2>1, <3>1 DEF Splitting
  <2> QED
    BY <2>2, <2>3
<1>11. \A i \in 1 .. Len(content) : (\E j \in DOMAIN stack' : stack'[j] = i) <=>
          /\ i \in Headings /\ i <= pos + 1
          /\ \A k \in Headings : i < k /\ k <= pos + 1 => content[k] > content[i]
  <2> SUFFICES ASSUME NEW i \in 1 .. Len(content)
               PROVE  (\E j \in DOMAIN stack' : stack'[j] = i) <=>
                         /\ i \in Headings /\ i <= pos + 1
                         /\ \A k \in Headings : i < k /\ k <= pos + 1 => content[k] > content[i]
    OBVIOUS
  <2>1. CASE i = pos + 1
    <3>1. m + 1 \in DOMAIN stack' /\ stack'[m + 1] = i
      BY <1>9, <2>1
    <3>2. \A k \in Headings : ~(i < k /\ k <= pos + 1)
      BY <1>2, <1>5, <2>1
    <3> QED
      BY <1>2, <2>1, <3>1, <3>2
  <2>2. CASE i # pos + 1
    <3>1. (\E j \in DOMAIN stack' : stack'[j] = i) <=>
             content[i] < line /\ \E j \in DOMAIN stack : stack[j] = i
      <4>1. \A j \in DOMAIN stack' : j \in 1 .. m \/ j = m + 1
        BY <1>9
      <4>2. \A j \in 1 .. m : j \in DOMAIN stack' /\ j <= m
        BY <1>9
      <4>3. \A j \in DOMAIN stack : j <= m => j \in 1 .. m
        BY <1>8
      <4> QED
        BY <1>7, <1>9, <2>2, <4>1, <4>2, <4>3
    <3>2. (\E j \in DOMAIN stack : stack[j] = i) <=>
             /\ i \in Headings /\ i <= pos
             /\ \A k \in Headings : i < k /\ k <= pos => content[k] > content[i]
      BY DEF Splitting
    <3>3. i <= pos + 1 <=> i <= pos
      BY <1>2, <2>2
    <3>4. \A k \in Headings : k <= pos + 1 <=> k <= pos \/ k = pos + 1
      BY <1>2, <1>5
    <3>5. i <= pos /\ i \in Headings => (content[pos + 1] > content[i] <=> content[i] < line)
      BY <1>5 DEF line
    <3>6. i <= pos => i < pos + 1
      BY <1>2
    <3> QED
      BY <3>1, <3>2, <3>3, <3>4, <3>5, <3>6
  <2> QED
    BY <2>1, <2>2
<1>12. /\ sections' \in Seq(Section) /\ \A i \in DOMAIN sections' : sections'[i].to <= pos
       /\ \A l \in 1 .. pos : l \in Headings \/ Placed(l)'
  BY <1>1, <1>4, Flush
<1>13. \A i \in DOMAIN sections' : sections'[i].to <= bodyStart'
  <2>1. \A i \in DOMAIN sections' : sections'[i] \in Section
    BY <1>12
  <2> QED
    BY <1>2, <1>4, <1>12, <2>1 DEF Section
<1>14. \A l \in 1 .. bodyStart' : l \in Headings' \/ Placed(l)'
  <2>1. \A l \in 1 .. pos + 1 : l \in 1 .. pos \/ l = pos + 1
    BY <1>2
  <2> QED
    BY <1>1, <1>4, <1>12, <2>1, SameText
<1>15. stack' # <<>>
  <2>1. Len(stack') = m + 1 /\ m \in Nat
    BY <1>8, <1>9
  <2> QED
    BY <2>1
<1>16. \A l \in bodyStart' + 1 .. pos' : l \notin Headings'
  BY <1>1, <1>2, <1>4
<1>17. bodyStart' \in 0 .. pos' /\ pos' \in 0 .. Len(content)
  BY <1>1, <1>2, <1>4
<1> QED
  BY <1>1, <1>2, <1>6, <1>9, <1>10, <1>11, <1>12, <1>13, <1>14, <1>15, <1>16, <1>17, SameText DEF Splitting

(* When the text is at its end the open section is closed.                 *)
LEMMA TextEnds ==
    ASSUME ChunkingAssumption, Splitting, EndSections, Headings # {}
    PROVE  \A l \in DOMAIN content' \ Headings' : Placed(l)'
<1>1. /\ pos = Len(content) /\ UNCHANGED content
      /\ sections' = IF stack = <<>> THEN <<>> ELSE Flushed(pos)
  BY DEF EndSections
<1>2. stack # <<>>
  <2>1. PICK i \in Headings : TRUE
    OBVIOUS
  <2>2. i \in 1 .. Len(content)
    BY <2>1, Headed DEF Splitting
  <2> QED
    BY <1>1, <2>2 DEF Splitting
<1>3. \A l \in 1 .. pos : l \in Headings \/ Placed(l)'
  BY <1>1, <1>2, Flush
<1>4. DOMAIN content = 1 .. pos
  BY <1>1 DEF Splitting
<1> QED
  BY <1>1, <1>3, <1>4, SameText

(* The loop of splitSections keeps Splitting.                              *)
LEMMA SectionInvariance ==
    ASSUME ChunkingAssumption
    PROVE  ChunkingSpec => []SectionInv
<1> USE DEF chunkVars, splitVars
<1>1. ChunkingInit => SectionInv
  BY DEF ChunkingInit, SectionInv
<1>2. ASSUME SectionInv, [ChunkingNext]_chunkingVars PROVE SectionInv'
  <2>1. CASE BeginChunks
    <3>1. at = "start" /\ at' \in {"done", "chunk"} /\ size' # 0
      BY <2>1 DEF BeginChunks, ChunkingAssumption
    <3> QED
      BY <3>1 DEF SectionInv
  <2>2. CASE Chunk
    <3>1. at = "chunk" /\ at' \in {"done", "chunk"} /\ size' = size
      BY <2>2 DEF Chunk
    <3> QED
      BY <1>2, <3>1 DEF SectionInv
  <2>3. CASE BeginSections
    <3>1. /\ at = "start" /\ at' = "split" /\ content' \in Seq(Lines)
          /\ UNCHANGED <<size, pos, inFence, stack, bodyStart, sections>>
      BY <2>3 DEF BeginSections, ChunkingAssumption, Lines
    <3>2. /\ size = 0 /\ pos = 0 /\ inFence = FALSE /\ stack = <<>> /\ bodyStart = 0
          /\ sections = <<>>
      BY <1>2, <3>1 DEF SectionInv
    <3>3. ~Fenced(0)'
      <4>1. {f \in 1 .. 0 : content'[f] = Fence} = {}
        OBVIOUS
      <4> QED
        BY <4>1, FS_EmptySet DEF Fenced
    <3>4. \A i \in Headings' : i \in Nat /\ i > 0
      BY <3>1 DEF Headings
    <3>5. Splitting'
      <4>1. (inFence <=> Fenced(pos))'
        BY <3>1, <3>2, <3>3
      <4>2. pos' \in 0 .. Len(content') /\ Len(content') \in Nat
        BY <3>1, <3>2
      <4>3. DOMAIN stack' = {} /\ DOMAIN sections' = {}
        BY <3>1, <3>2
      <4>4. stack' \in Seq(1 .. pos') /\ sections' \in Seq(Section)
        BY <3>1, <3>2
      <4>5. \A i \in 1 .. Len(content') : ~(i \in Headings' /\ i <= pos')
        BY <3>1, <3>2
      <4>6. bodyStart' \in 0 .. pos' /\ \A l \in bodyStart' + 1 .. pos' : FALSE
        BY <3>1, <3>2
      <4>7. \A l \in 1 .. bodyStart' : FALSE
        BY <3>1, <3>2
      <4>8. inFence' \in BOOLEAN /\ \A i \in Headings' : i > pos'
        BY <3>1, <3>2, <3>4
      <4> QED
        BY <3>1, <4>1, <4>2, <4>3, <4>4, <4>5, <4>6, <4>7, <4>8 DEF Splitting
    <3> QED
      BY <3>1, <3>2, <3>5 DEF SectionInv
  <2>4. CASE ReadLine
    <3>1. at = "split" /\ UNCHANGED <<at, size>>
      BY <2>4 DEF ReadLine
    <3>2. Splitting /\ size = 0
      BY <1>2, <3>1 DEF SectionInv
    <3>3. Splitting'
      BY <2>4, <3>2, OtherLine, HeadingLine
    <3> QED
      BY <3>1, <3>2, <3>3 DEF SectionInv
  <2>5. CASE EndSections
    <3>1. at = "split" /\ at' = "done" /\ UNCHANGED <<content, size>>
      BY <2>5 DEF EndSections
    <3>2. Splitting
      BY <1>2, <3>1 DEF SectionInv
    <3>3. Headings' # {} => \A l \in DOMAIN content' \ Headings' : Placed(l)'
      BY <2>5, <3>1, <3>2, TextEnds, SameText
    <3> QED
      BY <3>1, <3>3 DEF SectionInv
  <2>6. CASE UNCHANGED chunkingVars
    <3>1. UNCHANGED <<at, content, size, pos, inFence, stack, bodyStart, sections>>
      BY <2>6 DEF chunkingVars
    <3>2. \A l : Placed(l)' <=> Placed(l)
      BY <3>1, SameText DEF Placed, Around
    <3>3. Fenced(pos)' <=> Fenced(pos)
      BY <3>1 DEF Fenced
    <3>4. Headings' = Headings
      BY <3>1, SameText
    <3>5. Splitting => Splitting'
      BY <3>1, <3>2, <3>3, <3>4 DEF Splitting
    <3> QED
      BY <1>2, <3>1, <3>2, <3>4, <3>5 DEF SectionInv
  <2> QED
    BY <1>2, <2>1, <2>2, <2>3, <2>4, <2>5, <2>6 DEF ChunkingNext
<1> QED
  BY <1>1, <1>2, PTL DEF ChunkingSpec

(* Every line under a heading is in one section, under the headings that   *)
(* enclose it (splitSections).                                             *)
THEOREM SectionsAreExact == ChunkingSpec => []SectionsExact
<1>1. SectionInv => SectionsExact
  BY DEF SectionInv, Placed, Around, Rising, SectionsExact
<1> QED
  BY <1>1, SectionInvariance, ChunkingAssumption, PTL

-----------------------------------------------------------------------------
(* The crawl of a library.                                                 *)

(* The smaller of two numbers. *)
LEMMA MinOfTwo ==
    ASSUME NEW a \in Int, NEW b \in Int
    PROVE  Min({a, b}) = IF a <= b THEN a ELSE b
BY DEF Min

(* What is left of a list is taken one by one. *)
LEMMA TakeFirst ==
    ASSUME NEW S, NEW s \in Seq(S), NEW e \in 0 .. Len(s), NEW v \in 0 .. e
    PROVE  LET p == SubSeq(s, v + 1, e) IN
           /\ p = <<>> => v = e
           /\ p # <<>> => v + 1 \in 1 .. e /\ Head(p) = s[v + 1] /\ Tail(p) = SubSeq(s, v + 2, e)
<1> DEFINE p == SubSeq(s, v + 1, e)
           q == SubSeq(s, v + 2, e)
<1>1. /\ p \in Seq(S) /\ Len(p) = e - v
      /\ \A i \in 1 .. e - v : p[i] = s[v + i]
  OBVIOUS
<1>2. CASE p = <<>>
  BY <1>1, <1>2
<1>3. CASE p # <<>>
  <2>1. v < e /\ v + 1 \in 1 .. e /\ Head(p) = s[v + 1]
    BY <1>1, <1>3
  <2>2. /\ Tail(p) \in Seq(S) /\ Len(Tail(p)) = e - v - 1
        /\ \A i \in 1 .. e - v - 1 : Tail(p)[i] = s[v + 1 + i]
    <3>1. /\ Tail(p) \in Seq(S) /\ Len(Tail(p)) = Len(p) - 1
          /\ \A i \in 1 .. Len(p) - 1 : Tail(p)[i] = p[i + 1]
      BY <1>1, <1>3, HeadTailProperties
    <3> HIDE DEF p
    <3> QED
      BY <1>1, <3>1
  <2>3. /\ q \in Seq(S) /\ Len(q) = e - v - 1
        /\ \A i \in 1 .. e - v - 1 : q[i] = s[v + 1 + i]
    BY <2>1
  <2>4. Tail(p) = q
    <3> HIDE DEF p, q
    <3> QED
      BY <2>2, <2>3, SeqEqual
  <2> QED
    BY <1>3, <2>1, <2>4
<1> QED
  BY <1>2, <1>3

-----------------------------------------------------------------------------
(* The types a crawl's proof needs. *)
CrawlTyped ==
    /\ offset \in Nat
    /\ step = "start" => offset = 0 /\ repos = <<>> /\ ~truncated
    /\ step # "start" => catalog \in Seq(Range(catalog))
    /\ step # "start" /\ source = "gitea" =>
          /\ repos \in Seq(Range(catalog))
          /\ \A r \in Range(catalog) : r.files \in Seq(Range(r.files)) /\ r.listed \in 0 .. Len(r.files)
    /\ step \in {"bookmarks", "bookmark"} => source = "linkding" /\ ~truncated
    /\ step \in {"repos", "repo", "tree", "file"} => source = "gitea"
    /\ step \in {"repos", "repo"} => ~truncated

(* A page ends with the library or is full. *)
LEMMA EndOfPage ==
    ASSUME CrawlAssumption, offset \in Nat, catalog \in Seq(Range(catalog))
    PROVE  /\ PageEnd \in 0 .. Len(catalog)
           /\ offset + PageLength >= Len(catalog) => PageEnd = Len(catalog)
           /\ offset + PageLength < Len(catalog) => PageEnd = offset + PageLength
           /\ offset <= PageEnd => Len(Listed) = PageEnd - offset
           /\ Listed = <<>> => Len(catalog) <= offset
           /\ LastPage => PageEnd = Len(catalog)
           /\ ~LastPage => PageEnd = offset + PageLength
<1>1. PageLength \in Nat \ {0} /\ Len(catalog) \in Nat
  BY DEF CrawlAssumption
<1>2. PageEnd = IF offset + PageLength <= Len(catalog) THEN offset + PageLength ELSE Len(catalog)
  BY <1>1, MinOfTwo DEF PageEnd
<1> USE DEF Listed, LastPage
<1>3. PageEnd \in 0 .. Len(catalog)
  BY <1>1, <1>2
<1> HIDE DEF PageEnd
<1>4. CASE offset <= PageEnd
  <2>1. Len(Listed) = PageEnd - offset
    BY <1>1, <1>3, <1>4
  <2> HIDE DEF Listed
  <2> QED
    BY <1>1, <1>2, <1>3, <1>4, <2>1
<1>5. CASE offset > PageEnd
  <2>1. Len(Listed) = 0
    BY <1>1, <1>3, <1>5
  <2> HIDE DEF Listed
  <2> QED
    BY <1>1, <1>2, <1>3, <1>5, <2>1
<1> HIDE DEF Listed, LastPage
<1>6. offset <= PageEnd \/ offset > PageEnd
  BY <1>1, <1>3
<1> QED
  BY <1>4, <1>5, <1>6

(* A bookmark or file a crawl is done with, and a repository it knows.     *)
Emitted(b) == b = Nameless \/ b \subseteq seen \/ hidden
FileEmitted(f) == f = Other \/ f \in seen
Noted(r) == r.usable => r \in Range(repos)
Walked(r) == r.usable => r \in Range(repos) \/ \A f \in Range(r.files) : FileEmitted(f)

(* What was listed before the rest of the page has been dealt with.        *)
CrawlInv ==
    /\ CrawlTyped
    /\ step = "bookmarks" => \A i \in DOMAIN catalog : i <= offset => Emitted(catalog[i])
    /\ step = "repos" => \A i \in DOMAIN catalog : i <= offset => Noted(catalog[i])
    /\ step = "bookmark" => \E v \in 0 .. PageEnd :
          /\ page = SubSeq(catalog, v + 1, PageEnd)
          /\ \A i \in DOMAIN catalog : i <= v => Emitted(catalog[i])
    /\ step = "repo" => \E v \in 0 .. PageEnd :
          /\ page = SubSeq(catalog, v + 1, PageEnd)
          /\ \A i \in DOMAIN catalog : i <= v => Noted(catalog[i])
    /\ step = "tree" /\ ~truncated => \A r \in Range(catalog) : Walked(r)
    /\ step = "file" => repos # <<>>
    /\ step = "file" /\ ~truncated =>
          /\ \A r \in Range(catalog) : Walked(r)
          /\ LET files == Head(repos).files IN
             \E v \in 0 .. Len(files) :
                /\ page = SubSeq(files, v + 1, Len(files))
                /\ \A i \in 1 .. v : FileEmitted(files[i])
    /\ UntruncatedSawAll

(* The library is as it was.                                               *)
LEMMA SameLibrary ==
    ASSUME UNCHANGED walk
    PROVE  Holdings' = Holdings /\ Range(catalog)' = Range(catalog)
BY DEF walk, Holdings

(* All bookmarks, or all repositories, are all documents.                  *)
LEMMA AllOfThem ==
    /\ source = "linkding" /\ (\A i \in DOMAIN catalog : Emitted(catalog[i])) /\ ~hidden => Holdings \subseteq seen
    /\ source = "gitea" /\ repos = <<>> /\ (\A r \in Range(catalog) : Walked(r)) => Holdings \subseteq seen
<1>1. ASSUME source = "linkding", \A i \in DOMAIN catalog : Emitted(catalog[i]), ~hidden
      PROVE  Holdings \subseteq seen
  BY <1>1 DEF Holdings, Emitted, Range
<1>2. ASSUME source = "gitea", repos = <<>>, \A r \in Range(catalog) : Walked(r)
      PROVE  Holdings \subseteq seen
  <2>1. Range(repos) = {}
    BY <1>2 DEF Range
  <2>2. Holdings = UNION {Range(r.files) \ {Other} : r \in {q \in Range(catalog) : q.usable}}
    BY <1>2 DEF Holdings
  <2> QED
    BY <1>2, <2>1, <2>2 DEF Walked, FileEmitted
<1> QED
  BY <1>1, <1>2

(* The crawl of bookmarks.                                                 *)
LEMMA BookmarkSteps ==
    ASSUME CrawlAssumption, CrawlInv, BeginBookmarks \/ ListBookmarks \/ CrawlBookmark \/ EndPage
    PROVE  CrawlInv'
<1> USE DEF GoOn, EndCrawl, walk
<1>1. CASE BeginBookmarks
  <2>1. /\ offset' = 0 /\ repos' = <<>> /\ ~truncated' /\ step' = "bookmarks" /\ source' = "linkding"
        /\ catalog' \in Seq(Range(catalog'))
    BY <1>1 DEF BeginBookmarks, CrawlInv, CrawlTyped, CrawlAssumption
  <2> QED
    BY <2>1 DEF CrawlInv, CrawlTyped, UntruncatedSawAll
<1>2. CASE ListBookmarks
  <2>1. /\ source = "linkding" /\ ~truncated /\ catalog \in Seq(Range(catalog)) /\ offset \in Nat
        /\ \A i \in DOMAIN catalog : i <= offset => Emitted(catalog[i])
        /\ UNCHANGED <<catalog, source, offset, processed, repos, seen, hidden>>
    BY <1>2 DEF ListBookmarks, CrawlInv, CrawlTyped
  <2>2. CASE processed >= MaxBookmarks
    BY <1>2, <2>1, <2>2 DEF ListBookmarks, CrawlInv, CrawlTyped, UntruncatedSawAll
  <2>3. CASE ~(processed >= MaxBookmarks) /\ Listed = <<>>
    <3>1. \A i \in DOMAIN catalog : Emitted(catalog[i])
      BY <2>1, <2>3, EndOfPage
    <3>2. ~hidden => Holdings \subseteq seen
      BY <2>1, <3>1, AllOfThem
    <3>3. step' = "done"
      BY <1>2, <2>3 DEF ListBookmarks
    <3>4. UntruncatedSawAll'
      BY <2>1, <3>2, SameLibrary DEF UntruncatedSawAll
    <3> QED
      BY <2>1, <3>3, <3>4 DEF CrawlInv, CrawlTyped
  <2>4. CASE ~(processed >= MaxBookmarks) /\ Listed # <<>>
    <3>1. step' = "bookmark" /\ page' = Listed /\ UNCHANGED truncated
      BY <1>2, <2>4 DEF ListBookmarks
    <3>2. offset \in 0 .. PageEnd
      <4>1. PageEnd \in Nat
        BY <2>1, EndOfPage
      <4>2. offset <= PageEnd
        BY <2>1, <2>4, <4>1 DEF Listed
      <4> QED
        BY <2>1, <4>1, <4>2
    <3>3. page' = SubSeq(catalog', offset + 1, PageEnd') /\ PageEnd' = PageEnd
      BY <2>1, <3>1 DEF Listed, PageEnd
    <3>4. \A i \in DOMAIN catalog' : i <= offset => Emitted(catalog[i])'
      BY <2>1 DEF Emitted
    <3>5. CrawlTyped' /\ UntruncatedSawAll'
      BY <2>1, <3>1 DEF CrawlTyped, UntruncatedSawAll
    <3> QED
      BY <3>1, <3>2, <3>3, <3>4, <3>5 DEF CrawlInv
  <2> QED
    BY <2>2, <2>3, <2>4
<1>3. CASE CrawlBookmark
  <2>1. /\ source = "linkding" /\ ~truncated /\ catalog \in Seq(Range(catalog)) /\ offset \in Nat
        /\ step = "bookmark" /\ page # <<>> /\ page' = Tail(page)
        /\ UNCHANGED <<step, catalog, source, offset, repos, truncated>>
    BY <1>3 DEF CrawlBookmark, CrawlInv, CrawlTyped
  <2>2. PICK v \in 0 .. PageEnd :
          /\ page = SubSeq(catalog, v + 1, PageEnd)
          /\ \A i \in DOMAIN catalog : i <= v => Emitted(catalog[i])
    BY <2>1 DEF CrawlInv
  <2>3. PageEnd \in 0 .. Len(catalog) /\ PageEnd' = PageEnd
    BY <2>1, EndOfPage DEF PageEnd
  <2>4. v + 1 \in 1 .. PageEnd /\ Head(page) = catalog[v + 1] /\ page' = SubSeq(catalog, v + 2, PageEnd)
    BY <2>1, <2>2, <2>3, TakeFirst
  <2>5. \A b : Emitted(b) => Emitted(b)'
    BY <1>3 DEF CrawlBookmark, Emitted
  <2>6. \A b : b = Head(page) => Emitted(b)'
    BY <1>3 DEF CrawlBookmark, Emitted
  <2>7. \A i \in DOMAIN catalog' : i <= v + 1 => Emitted(catalog[i])'
    <3> SUFFICES ASSUME NEW i \in DOMAIN catalog, i <= v + 1, NEW b, b = catalog[i]
                 PROVE  Emitted(b)'
      BY <2>1
    <3>0. i \in Nat
      BY <2>1
    <3>1. CASE i <= v
      BY <2>2, <2>5, <3>1
    <3>2. CASE i = v + 1
      BY <2>4, <2>6, <3>2
    <3> QED
      BY <3>0, <3>1, <3>2
  <2>8. v + 1 \in 0 .. PageEnd' /\ page' = SubSeq(catalog', (v + 1) + 1, PageEnd')
    <3>1. v + 2 = (v + 1) + 1 /\ v + 1 \in 0 .. PageEnd
      BY <2>3, <2>4
    <3> QED
      BY <2>1, <2>3, <2>4, <3>1
  <2>9. CrawlTyped' /\ UntruncatedSawAll'
    BY <2>1 DEF CrawlTyped, UntruncatedSawAll
  <2> QED
    BY <2>1, <2>7, <2>8, <2>9 DEF CrawlInv
<1>4. CASE EndPage
  <2>1. /\ source = "linkding" /\ ~truncated /\ catalog \in Seq(Range(catalog)) /\ offset \in Nat
        /\ step = "bookmark" /\ page = <<>>
        /\ UNCHANGED <<catalog, source, page, processed, repos, seen, hidden>>
    BY <1>4 DEF EndPage, CrawlInv, CrawlTyped
  <2>2. PICK v \in 0 .. PageEnd :
          /\ page = SubSeq(catalog, v + 1, PageEnd)
          /\ \A i \in DOMAIN catalog : i <= v => Emitted(catalog[i])
    BY <2>1 DEF CrawlInv
  <2>3. PageEnd \in 0 .. Len(catalog)
    BY <2>1, EndOfPage
  <2>4. v = PageEnd
    BY <2>1, <2>2, <2>3, TakeFirst
  <2>5. CASE LastPage
    <3>1. PageEnd = Len(catalog)
      BY <2>1, <2>5, EndOfPage
    <3>2. \A i \in DOMAIN catalog : Emitted(catalog[i])
      BY <2>1, <2>2, <2>4, <3>1
    <3>3. ~hidden => Holdings \subseteq seen
      BY <2>1, <3>2, AllOfThem
    <3>4. UntruncatedSawAll'
      BY <2>1, <3>3, SameLibrary DEF UntruncatedSawAll
    <3>5. step' = "done" /\ offset' = offset
      BY <1>4, <2>5 DEF EndPage
    <3> QED
      BY <2>1, <3>4, <3>5 DEF CrawlInv, CrawlTyped
  <2>6. CASE ~LastPage
    <3>1. step' = "bookmarks" /\ offset' = offset + PageLength /\ UNCHANGED truncated
      BY <1>4, <2>6 DEF EndPage
    <3>2. offset' = PageEnd /\ offset' \in Nat
      BY <2>1, <2>3, <2>6, <3>1, EndOfPage
    <3>3. \A i \in DOMAIN catalog' : i <= offset' => Emitted(catalog[i])'
      BY <2>1, <2>2, <2>4, <3>2 DEF Emitted
    <3>4. CrawlTyped' /\ UntruncatedSawAll'
      BY <2>1, <3>1, <3>2 DEF CrawlTyped, UntruncatedSawAll
    <3> QED
      BY <3>1, <3>3, <3>4 DEF CrawlInv
  <2> QED
    BY <2>5, <2>6
<1> QED
  BY <1>1, <1>2, <1>3, <1>4

(* The search for repositories.                                            *)
LEMMA RepoSteps ==
    ASSUME CrawlAssumption, CrawlInv, BeginRepos \/ ListRepos \/ DiscoverRepo \/ EndRepoPage
    PROVE  CrawlInv'
<1> USE DEF GoOn, EndCrawl, walk
<1>1. CASE BeginRepos
  <2>1. /\ offset' = 0 /\ ~truncated' /\ source' = "gitea" /\ catalog' \in Seq(Range(catalog'))
        /\ \A r \in Range(catalog)' : r.files \in Seq(Range(r.files)) /\ r.listed \in 0 .. Len(r.files)
    BY <1>1 DEF BeginRepos, CrawlInv, CrawlTyped, CrawlAssumption
  <2>2. CASE step' = "repos" /\ repos' = <<>>
    BY <2>1, <2>2 DEF CrawlInv, CrawlTyped, UntruncatedSawAll
  <2>3. CASE step' = "tree" /\ repos' = catalog'
    BY <2>1, <2>3 DEF CrawlInv, CrawlTyped, UntruncatedSawAll, Walked
  <2> QED
    BY <1>1, <2>2, <2>3 DEF BeginRepos, CrawlInv, CrawlTyped
<1> DEFINE Ready ==
             /\ source = "gitea" /\ step # "start" /\ catalog \in Seq(Range(catalog)) /\ offset \in Nat
             /\ repos \in Seq(Range(catalog)) /\ ~truncated /\ UNCHANGED <<catalog, source, processed, seen, hidden>>
             /\ \A r \in Range(catalog) : r.files \in Seq(Range(r.files)) /\ r.listed \in 0 .. Len(r.files)
             /\ PageEnd \in 0 .. Len(catalog) /\ Range(catalog)' = Range(catalog) /\ UntruncatedSawAll
<1>2. ASSUME ~BeginRepos
      PROVE  Ready
  <2>1. /\ source = "gitea" /\ step # "start" /\ ~truncated /\ UNCHANGED <<catalog, source, processed, seen, hidden>>
    BY <1>2 DEF ListRepos, DiscoverRepo, EndRepoPage, CrawlInv, CrawlTyped
  <2>2. catalog \in Seq(Range(catalog)) /\ offset \in Nat
    BY <2>1 DEF CrawlInv, CrawlTyped
  <2> QED
    BY <2>1, <2>2, EndOfPage DEF CrawlInv, CrawlTyped
<1>3. CASE ListRepos
  <2>1. /\ step = "repos" /\ step' = "repo" /\ page' = Listed /\ UNCHANGED <<offset, repos, truncated>>
        /\ \A i \in DOMAIN catalog : i <= offset => Noted(catalog[i])
    BY <1>3 DEF ListRepos, CrawlInv
  <2>0. Ready
    BY <1>2, <2>1 DEF BeginRepos
  <2>2. PageEnd' = PageEnd
    BY <2>0, <2>1 DEF PageEnd
  <2>3. CASE offset <= PageEnd
    <3>1. offset \in 0 .. PageEnd' /\ page' = SubSeq(catalog', offset + 1, PageEnd')
      BY <2>0, <2>1, <2>2, <2>3 DEF Listed
    <3>2. \A i \in DOMAIN catalog' : i <= offset => Noted(catalog[i])'
      BY <2>0, <2>1 DEF Noted
    <3>3. CrawlTyped' /\ UntruncatedSawAll'
      BY <2>0, <2>1 DEF CrawlTyped, UntruncatedSawAll
    <3> QED
      BY <2>0, <2>1, <3>1, <3>2, <3>3 DEF CrawlInv
  <2>4. CASE offset > PageEnd
    <3>1. PageEnd = Len(catalog)
      BY <2>0, <2>4, EndOfPage DEF CrawlAssumption
    <3>2. \A i \in DOMAIN catalog' : i <= PageEnd => Noted(catalog[i])'
      BY <2>0, <2>1, <2>4 DEF Noted
    <3>3. page' = SubSeq(catalog', PageEnd + 1, PageEnd')
      <4>1. SubSeq(catalog, offset + 1, PageEnd) = <<>> /\ SubSeq(catalog, PageEnd + 1, PageEnd) = <<>>
        BY <2>0, <2>4
      <4> QED
        BY <2>0, <2>1, <2>2, <4>1 DEF Listed
    <3>4. CrawlTyped' /\ UntruncatedSawAll'
      BY <2>0, <2>1 DEF CrawlTyped, UntruncatedSawAll
    <3>5. PageEnd \in 0 .. PageEnd'
      BY <2>0, <2>2
    <3> QED
      BY <2>0, <2>1, <3>2, <3>3, <3>4, <3>5 DEF CrawlInv
  <2> QED
    BY <2>0, <2>3, <2>4
<1>4. CASE DiscoverRepo
  <2>1. /\ step = "repo" /\ page # <<>> /\ UNCHANGED offset
        /\ repos' = IF Head(page).usable THEN Append(repos, Head(page)) ELSE repos
        /\ \/ step' = "tree" /\ truncated'
           \/ UNCHANGED <<step, truncated>> /\ page' = Tail(page)
    BY <1>4 DEF DiscoverRepo
  <2>0. Ready
    BY <1>2, <2>1 DEF BeginRepos
  <2>10. catalog \in Seq(Range(catalog)) /\ PageEnd \in 0 .. Len(catalog)
    BY <2>0
  <2>2. PICK v \in 0 .. PageEnd :
          /\ page = SubSeq(catalog, v + 1, PageEnd)
          /\ \A i \in DOMAIN catalog : i <= v => Noted(catalog[i])
    BY <2>0, <2>1 DEF CrawlInv
  <2>3. v + 1 \in 1 .. PageEnd /\ Head(page) = catalog[v + 1] /\ Tail(page) = SubSeq(catalog, v + 2, PageEnd)
    BY <2>10, <2>1, <2>2, TakeFirst
  <2>4. Head(page) \in Range(catalog)
    <3>1. v + 1 \in DOMAIN catalog
      BY <2>3, <2>10
    <3> QED
      BY <2>3, <3>1 DEF Range
  <2>5. /\ repos' \in Seq(Range(catalog)) /\ Range(repos) \subseteq Range(repos)'
        /\ Head(page).usable => Head(page) \in Range(repos)'
    <3>1. CASE ~Head(page).usable
      BY <2>0, <2>1, <3>1
    <3>2. CASE Head(page).usable
      <4>1. repos' = Append(repos, Head(page))
        BY <2>0, <2>1, <3>2
      <4>2. /\ repos' \in Seq(Range(catalog)) /\ DOMAIN repos' = 1 .. Len(repos) + 1
            /\ \A i \in DOMAIN repos : i \in DOMAIN repos' /\ repos'[i] = repos[i]
            /\ Len(repos) + 1 \in DOMAIN repos' /\ repos'[Len(repos) + 1] = Head(page)
        BY <2>0, <2>4, <4>1
      <4> QED
        BY <2>0, <4>2 DEF Range
    <3> QED
      BY <2>0, <3>1, <3>2
  <2>6. CrawlTyped'
    BY <2>0, <2>1, <2>5 DEF CrawlTyped
  <2>7. CASE step' = "tree" /\ truncated'
    BY <2>0, <2>6, <2>7 DEF CrawlInv, UntruncatedSawAll
  <2>8. CASE UNCHANGED <<step, truncated>> /\ page' = Tail(page)
    <3>1. \A r : Noted(r) => Noted(r)'
      BY <2>0, <2>5 DEF Noted
    <3>2. \A r : r = Head(page) => Noted(r)'
      BY <2>0, <2>5 DEF Noted
    <3>3. \A i \in DOMAIN catalog' : i <= v + 1 => Noted(catalog[i])'
      <4> SUFFICES ASSUME NEW i \in DOMAIN catalog, i <= v + 1, NEW r, r = catalog[i]
                   PROVE  Noted(r)'
        BY <2>0
      <4>0. i \in Nat
        BY <2>0
      <4>1. CASE i <= v
        BY <2>0, <2>2, <3>1, <4>1
      <4>2. CASE i = v + 1
        BY <2>0, <2>3, <3>2, <4>2
      <4> QED
        BY <2>0, <4>0, <4>1, <4>2
    <3>4. v + 1 \in 0 .. PageEnd' /\ page' = SubSeq(catalog', (v + 1) + 1, PageEnd')
      <4>1. v + 2 = (v + 1) + 1 /\ v + 1 \in 0 .. PageEnd /\ PageEnd' = PageEnd
        BY <2>0, <2>1, <2>3 DEF PageEnd
      <4> QED
        BY <2>0, <2>3, <2>8, <4>1
    <3>5. UntruncatedSawAll'
      BY <2>0, <2>1, <2>8 DEF UntruncatedSawAll
    <3> QED
      BY <2>0, <2>1, <2>6, <2>8, <3>3, <3>4, <3>5 DEF CrawlInv
  <2> QED
    BY <2>0, <2>1, <2>7, <2>8
<1>5. CASE EndRepoPage
  <2>1. step = "repo" /\ page = <<>> /\ UNCHANGED <<page, repos, truncated>>
    BY <1>5 DEF EndRepoPage
  <2>0. Ready
    BY <1>2, <2>1 DEF BeginRepos
  <2>10. catalog \in Seq(Range(catalog)) /\ PageEnd \in 0 .. Len(catalog)
    BY <2>0
  <2>2. PICK v \in 0 .. PageEnd :
          /\ page = SubSeq(catalog, v + 1, PageEnd)
          /\ \A i \in DOMAIN catalog : i <= v => Noted(catalog[i])
    BY <2>0, <2>1 DEF CrawlInv
  <2>3. v = PageEnd
    BY <2>10, <2>1, <2>2, TakeFirst
  <2>4. CASE LastPage
    <3>1. PageEnd = Len(catalog)
      BY <2>0, <2>4, EndOfPage
    <3>2. \A r \in Range(catalog) : Noted(r)
      BY <2>0, <2>2, <2>3, <3>1 DEF Range
    <3>3. \A r \in Range(catalog)' : Walked(r)'
      BY <2>0, <2>1, <3>2 DEF Noted, Walked
    <3>4. step' = "tree" /\ offset' = offset
      BY <2>0, <1>5, <2>4 DEF EndRepoPage
    <3>5. CrawlTyped' /\ UntruncatedSawAll'
      BY <2>0, <2>1, <3>4 DEF CrawlTyped, UntruncatedSawAll
    <3> QED
      BY <2>0, <3>3, <3>4, <3>5 DEF CrawlInv
  <2>5. CASE ~LastPage
    <3>1. step' = "repos" /\ offset' = offset + PageLength
      BY <2>0, <1>5, <2>5 DEF EndRepoPage
    <3>2. offset' = PageEnd /\ offset' \in Nat
      BY <2>0, <2>5, <3>1, EndOfPage
    <3>3. \A i \in DOMAIN catalog' : i <= offset' => Noted(catalog[i])'
      BY <2>0, <2>1, <2>2, <2>3, <3>2 DEF Noted
    <3>4. CrawlTyped' /\ UntruncatedSawAll'
      BY <2>0, <2>1, <3>1, <3>2 DEF CrawlTyped, UntruncatedSawAll
    <3> QED
      BY <2>0, <3>1, <3>3, <3>4 DEF CrawlInv
  <2> QED
    BY <2>0, <2>4, <2>5
<1> QED
  BY <1>1, <1>3, <1>4, <1>5

(* The walk through the repositories that were found.                      *)
LEMMA TreeSteps ==
    ASSUME CrawlAssumption, CrawlInv, ListTree \/ CrawlFile \/ EndTree \/ EndRepos
    PROVE  CrawlInv'
<1> USE DEF GoOn, EndCrawl, walk
<1>1. /\ source = "gitea" /\ step # "start" /\ catalog \in Seq(Range(catalog)) /\ offset \in Nat
      /\ repos \in Seq(Range(catalog)) /\ UNCHANGED <<catalog, source, offset, hidden>>
      /\ \A r \in Range(catalog) : r.files \in Seq(Range(r.files)) /\ r.listed \in 0 .. Len(r.files)
      /\ Range(catalog)' = Range(catalog)
  BY DEF ListTree, CrawlFile, EndTree, EndRepos, CrawlInv, CrawlTyped
<1> DEFINE files == Head(repos).files
<1>2. repos # <<>> => /\ Head(repos) \in Range(catalog) /\ files \in Seq(Range(files)) /\ Len(files) \in Nat
                      /\ Head(repos).listed \in 0 .. Len(files)
                      /\ Tail(repos) \in Seq(Range(catalog)) /\ Range(repos) \subseteq Range(Tail(repos)) \cup {Head(repos)}
  <2> SUFFICES ASSUME repos # <<>>
               PROVE  /\ Head(repos) \in Range(catalog) /\ Tail(repos) \in Seq(Range(catalog))
                      /\ Range(repos) \subseteq Range(Tail(repos)) \cup {Head(repos)}
    BY <1>1
  <2>1. /\ Head(repos) = repos[1] /\ Tail(repos) \in Seq(Range(catalog)) /\ Len(Tail(repos)) = Len(repos) - 1
        /\ \A i \in 1 .. Len(repos) - 1 : Tail(repos)[i] = repos[i + 1]
    BY <1>1, HeadTailProperties
  <2>2. \A i \in DOMAIN repos : i = 1 \/ (i - 1 \in DOMAIN Tail(repos) /\ repos[i] = Tail(repos)[i - 1])
    BY <1>1, <2>1
  <2>3. 1 \in DOMAIN repos
    BY <1>1
  <2>4. Range(repos) \subseteq Range(Tail(repos)) \cup {Head(repos)}
    <3> SUFFICES ASSUME NEW i \in DOMAIN repos
                 PROVE  repos[i] = Head(repos) \/ repos[i] \in Range(Tail(repos))
      BY DEF Range
    <3> QED
      BY <2>1, <2>2 DEF Range
  <2>5. Head(repos) \in Range(catalog)
    BY <1>1, <2>1, <2>3
  <2> QED
    BY <2>1, <2>4, <2>5
<1> HIDE DEF files
<1>3. CASE ListTree
  <2>1. /\ step = "tree" /\ step' = "file" /\ repos # <<>> /\ page' = SubSeq(files, 1, Head(repos).listed)
        /\ truncated' = (truncated \/ Head(repos).listed < Len(files)) /\ UNCHANGED <<repos, seen>>
    BY <1>3 DEF ListTree, files
  <2>2. CrawlTyped' /\ UntruncatedSawAll'
    BY <1>1, <2>1 DEF CrawlTyped, UntruncatedSawAll
  <2>3. ASSUME ~truncated'
        PROVE  /\ \A r \in Range(catalog)' : Walked(r)'
               /\ 0 \in 0 .. Len(files) /\ page' = SubSeq(files, 0 + 1, Len(files)) /\ \A i \in 1 .. 0 : FileEmitted(files[i])'
    <3>1. Head(repos).listed = Len(files) /\ ~truncated
      <4>1. Len(files) \in Nat /\ Head(repos).listed \in 0 .. Len(files)
        BY <1>2, <2>1
      <4>2. ~truncated /\ ~(Head(repos).listed < Len(files))
        BY <2>1, <2>3
      <4> QED
        BY <4>1, <4>2
    <3>2. \A r \in Range(catalog)' : Walked(r)'
      BY <1>1, <2>1, <3>1 DEF CrawlInv, Walked, FileEmitted
    <3> QED
      BY <1>2, <2>1, <3>1, <3>2
  <2>4. files' = files
    BY <2>1 DEF files
  <2> QED
    BY <2>1, <2>2, <2>3, <2>4 DEF CrawlInv, files
<1>4. CASE CrawlFile
  <2>1. step = "file" /\ page # <<>> /\ repos # <<>> /\ UNCHANGED repos /\ files' = files
    BY <1>4 DEF CrawlFile, CrawlInv, files
  <2>2. CASE processed >= MaxFiles
    <3>1. step' = "done" /\ truncated'
      BY <1>4, <2>2 DEF CrawlFile
    <3> QED
      BY <1>1, <2>1, <3>1 DEF CrawlInv, CrawlTyped, UntruncatedSawAll
  <2>3. CASE ~(processed >= MaxFiles)
    <3>1. /\ page' = Tail(page) /\ seen \subseteq seen' /\ UNCHANGED <<step, truncated>>
          /\ \A f : f = Head(page) => FileEmitted(f)'
      BY <1>4, <2>3 DEF CrawlFile, FileEmitted
    <3>2. CrawlTyped' /\ UntruncatedSawAll'
      BY <1>1, <2>1, <3>1 DEF CrawlTyped, UntruncatedSawAll
    <3>3. ASSUME ~truncated
          PROVE  /\ \A r \in Range(catalog)' : Walked(r)'
                 /\ \E v \in 0 .. Len(files) :
                       /\ page' = SubSeq(files, v + 1, Len(files))
                       /\ \A i \in 1 .. v : FileEmitted(files[i])'
      <4>1. PICK v \in 0 .. Len(files) :
              /\ page = SubSeq(files, v + 1, Len(files))
              /\ \A i \in 1 .. v : FileEmitted(files[i])
        BY <2>1, <3>3 DEF CrawlInv, files
      <4>2. v + 1 \in 1 .. Len(files) /\ Head(page) = files[v + 1] /\ page' = SubSeq(files, v + 2, Len(files))
        BY <1>2, <2>1, <3>1, <4>1, TakeFirst
      <4>3. \A f : FileEmitted(f) => FileEmitted(f)'
        BY <3>1 DEF FileEmitted
      <4>4. \A i \in 1 .. v + 1 : FileEmitted(files[i])'
        <5> SUFFICES ASSUME NEW i \in 1 .. v + 1, NEW f, f = files[i]
                     PROVE  FileEmitted(f)'
          BY <2>1
        <5>1. CASE i \in 1 .. v
          BY <4>1, <4>3, <5>1
        <5>2. CASE i = v + 1
          BY <3>1, <4>2, <5>2
        <5> QED
          BY <5>1, <5>2
      <4>5. \A r \in Range(catalog)' : Walked(r)'
        <5>1. \A r \in Range(catalog) : Walked(r)
          BY <2>1, <3>3 DEF CrawlInv
        <5> QED
          BY <1>1, <2>1, <4>3, <5>1 DEF Walked
      <4>6. v + 1 \in 0 .. Len(files) /\ v + 2 = (v + 1) + 1
        BY <1>2, <2>1, <4>2
      <4> QED
        BY <4>2, <4>4, <4>5, <4>6
    <3> QED
      BY <2>1, <3>1, <3>2, <3>3 DEF CrawlInv, files
  <2> QED
    BY <2>2, <2>3
<1>5. CASE EndTree
  <2>1. step = "file" /\ page = <<>> /\ repos # <<>> /\ repos' = Tail(repos) /\ UNCHANGED <<seen, page>>
    BY <1>5 DEF EndTree, CrawlInv
  <2>2. CASE processed >= MaxFiles
    <3>1. step' = "done" /\ truncated'
      BY <1>5, <2>2 DEF EndTree
    <3> QED
      BY <1>1, <1>2, <2>1, <3>1 DEF CrawlInv, CrawlTyped, UntruncatedSawAll
  <2>3. CASE ~(processed >= MaxFiles)
    <3>1. step' = "tree" /\ UNCHANGED truncated
      BY <1>5, <2>3 DEF EndTree
    <3>2. CrawlTyped' /\ UntruncatedSawAll'
      BY <1>1, <1>2, <2>1, <3>1 DEF CrawlTyped, UntruncatedSawAll
    <3>3. ASSUME ~truncated PROVE \A r \in Range(catalog)' : Walked(r)'
      <4>1. PICK v \in 0 .. Len(files) :
              /\ page = SubSeq(files, v + 1, Len(files))
              /\ \A i \in 1 .. v : FileEmitted(files[i])
        BY <2>1, <3>3 DEF CrawlInv, files
      <4>2. v = Len(files)
        <5>1. files \in Seq(Range(files)) /\ Len(files) \in 0 .. Len(files)
          BY <1>2, <2>1
        <5>2. SubSeq(files, v + 1, Len(files)) = <<>> => v = Len(files)
          BY <5>1, TakeFirst
        <5> QED
          BY <2>1, <4>1, <5>2
      <4>3. \A f \in Range(files) : FileEmitted(f)
        BY <1>2, <2>1, <4>1, <4>2 DEF Range
      <4>4. \A r \in Range(catalog) : Walked(r)
        BY <2>1, <3>3 DEF CrawlInv
      <4> QED
        BY <1>1, <1>2, <2>1, <4>3, <4>4 DEF Walked, FileEmitted, files
    <3> QED
      BY <3>1, <3>2, <3>3 DEF CrawlInv
  <2> QED
    BY <2>2, <2>3
<1>6. CASE EndRepos
  <2>1. /\ step = "tree" /\ repos = <<>> /\ step' = "done"
        /\ UNCHANGED <<truncated, repos, seen>>
    BY <1>6 DEF EndRepos
  <2>2. ~truncated => Holdings \subseteq seen
    BY <1>1, <2>1, AllOfThem DEF CrawlInv
  <2>3. UntruncatedSawAll'
    BY <1>1, <2>1, <2>2, SameLibrary DEF UntruncatedSawAll
  <2> QED
    BY <1>1, <2>1, <2>3 DEF CrawlInv, CrawlTyped
<1> QED
  BY <1>3, <1>4, <1>5, <1>6

(* A crawl that is not truncated has emitted every document of the library *)
(* (Crawler.Crawl of linkding and Gitea).                                  *)
THEOREM CrawlsAreComplete == CrawlSpec => []UntruncatedSawAll
<1>1. ASSUME CrawlInit PROVE CrawlInv
  <2>1. step = "start" /\ offset = 0 /\ repos = <<>> /\ ~truncated
    BY <1>1 DEF CrawlInit
  <2>2. CrawlTyped /\ UntruncatedSawAll
    BY <2>1 DEF CrawlTyped, UntruncatedSawAll
  <2> QED
    BY <2>1, <2>2 DEF CrawlInv
<1>2. ASSUME CrawlInv, [CrawlNext]_crawlVars PROVE CrawlInv'
  <2> USE <1>2
  <2>1. CASE BeginBookmarks \/ ListBookmarks \/ CrawlBookmark \/ EndPage
    BY <2>1, BookmarkSteps, CrawlAssumption
  <2>2. CASE BeginRepos \/ ListRepos \/ DiscoverRepo \/ EndRepoPage
    BY <2>2, RepoSteps, CrawlAssumption
  <2>3. CASE ListTree \/ CrawlFile \/ EndTree \/ EndRepos
    BY <2>3, TreeSteps, CrawlAssumption
  <2>4. CASE CrawlFails
    BY <2>4 DEF CrawlFails, walk, CrawlInv, CrawlTyped, UntruncatedSawAll
  <2>5. CASE UNCHANGED crawlVars
    BY <2>5 DEF crawlVars, CrawlInv, CrawlTyped, UntruncatedSawAll, Holdings, PageEnd, Emitted, FileEmitted, Noted, Walked
  <2> QED
    BY <2>1, <2>2, <2>3, <2>4, <2>5 DEF CrawlNext
<1>3. CrawlInv => UntruncatedSawAll
  BY DEF CrawlInv
<1> QED
  BY <1>1, <1>2, <1>3, PTL DEF CrawlSpec

-----------------------------------------------------------------------------
(* The hybrid search.                                                      *)

(* The sequence of a finite set has each of its elements once. *)
LEMMA EachOnce ==
    ASSUME NEW S, IsFiniteSet(S), NEW s \in SetToSeqs(S)
    PROVE  /\ s \in Seq(S) /\ Len(s) = Cardinality(S) /\ Cardinality(S) \in Nat
           /\ Range(s) = S
           /\ \A i, j \in DOMAIN s : s[i] = s[j] => i = j
<1>1. Cardinality(S) \in Nat
  BY FS_CardinalityType
<1>2. s \in [1 .. Cardinality(S) -> S] /\ \A i, j \in 1 .. Cardinality(S) : s[i] = s[j] => i = j
  BY DEF SetToSeqs
<1>3. s \in Seq(S) /\ Len(s) = Cardinality(S) /\ DOMAIN s = 1 .. Cardinality(S)
  BY <1>1, <1>2
<1>4. s \in Injection(1 .. Cardinality(S), S)
  BY <1>2 DEF Injection, IsInjective
<1>5. IsFiniteSet(1 .. Cardinality(S)) /\ Cardinality(1 .. Cardinality(S)) = Cardinality(S)
  BY <1>1, FS_Interval
<1>6. s \in Surjection(1 .. Cardinality(S), S)
  BY <1>4, <1>5, FS_Injection
<1>7. Range(s) = S
  BY <1>2, <1>3, <1>6 DEF Surjection, Range
<1> QED
  BY <1>1, <1>2, <1>3, <1>7

(* A sequence without repetitions has as many elements as places. *)
LEMMA NoneTwice ==
    ASSUME NEW S, NEW s \in Seq(S), \A i, j \in DOMAIN s : s[i] = s[j] => i = j
    PROVE  IsFiniteSet(Range(s)) /\ Cardinality(Range(s)) = Len(s)
<1>1. Len(s) \in Nat /\ DOMAIN s = 1 .. Len(s)
  OBVIOUS
<1>2. IsFiniteSet(1 .. Len(s)) /\ Cardinality(1 .. Len(s)) = Len(s)
  BY <1>1, FS_Interval
<1>3. s \in Injection(1 .. Len(s), Range(s)) /\ s \in Surjection(1 .. Len(s), Range(s))
  BY <1>1 DEF Injection, Surjection, IsInjective, Range
<1> QED
  BY <1>2, <1>3, FS_Surjection

(* The elements of a sequence are finitely many. *)
LEMMA FinitelyMany ==
    ASSUME NEW S, NEW s \in Seq(S)
    PROVE  IsFiniteSet(Range(s)) /\ Range(s) \subseteq S
<1>1. Len(s) \in Nat /\ DOMAIN s = 1 .. Len(s)
  OBVIOUS
<1>2. IsFiniteSet(1 .. Len(s))
  BY <1>1, FS_Interval
<1>3. s \in Surjection(1 .. Len(s), Range(s))
  BY <1>1 DEF Surjection, Range
<1>4. Range(s) \subseteq S
  BY DEF Range
<1> QED
  BY <1>2, <1>3, <1>4, FS_Surjection

(* The beginning of a sequence without repetitions is one too. *)
LEMMA Beginning ==
    ASSUME NEW S, NEW s \in Seq(S), NEW m \in 0 .. Len(s)
    PROVE  /\ SubSeq(s, 1, m) \in Seq(S) /\ Len(SubSeq(s, 1, m)) = m /\ DOMAIN SubSeq(s, 1, m) = 1 .. m
           /\ \A i \in 1 .. m : SubSeq(s, 1, m)[i] = s[i]
           /\ Range(SubSeq(s, 1, m)) \subseteq Range(s)
           /\ (\A i, j \in DOMAIN s : s[i] = s[j] => i = j) =>
                 \A i, j \in DOMAIN SubSeq(s, 1, m) : SubSeq(s, 1, m)[i] = SubSeq(s, 1, m)[j] => i = j
<1> DEFINE t == SubSeq(s, 1, m)
<1>1. t \in Seq(S) /\ Len(t) = m /\ DOMAIN t = 1 .. m /\ \A i \in 1 .. m : t[i] = s[i]
  OBVIOUS
<1> HIDE DEF t
<1>2. \A i \in DOMAIN t : t[i] = s[i] /\ i \in DOMAIN s
  BY <1>1
<1>3. Range(t) \subseteq Range(s)
  BY <1>2 DEF Range
<1>4. (\A i, j \in DOMAIN s : s[i] = s[j] => i = j) => \A i, j \in DOMAIN t : t[i] = t[j] => i = j
  BY <1>2
<1> QED
  BY <1>1, <1>3, <1>4 DEF t

(* A ranking holds identifiers it was given, no more than the pool. *)
LEMMA RankedAreGiven ==
    ASSUME SearchAssumption, NEW worth, IsFiniteSet(DOMAIN worth), NEW r \in Rankings(worth)
    PROVE  r \in Seq(DOMAIN worth) /\ Len(r) <= Pool
<1> DEFINE W == DOMAIN worth
<1>1. PICK s \in SetToSeqs(W) : r = SubSeq(s, 1, Min({Pool, Len(s)}))
  BY DEF Rankings
<1>2. IsFiniteSet(W) /\ Pool \in Nat
  BY DEF SearchAssumption
<1> HIDE DEF W
<1>3. s \in Seq(W)
  BY <1>2, EachOnce
<1> DEFINE m == Min({Pool, Len(s)})
<1>4. r = SubSeq(s, 1, m)
  BY <1>1
<1>5. m \in 0 .. Len(s) /\ m <= Pool
  BY <1>2, <1>3, MinOfTwo
<1> HIDE DEF m
<1>6. r \in Seq(W) /\ Len(r) = m
  BY <1>3, <1>4, <1>5, Beginning
<1> QED
  BY <1>2, <1>3, <1>5, <1>6 DEF W

(* In one list, the earlier place gives the larger share of the score. *)
LEMMA EarlierCountsMore ==
    ASSUME SearchAssumption, NEW r \in Seq(Nat), Len(r) <= Pool, NEW a, NEW b
    PROVE  LET x == Reciprocal(r, a)
               y == Reciprocal(r, b)
           IN  /\ x \in [num : Nat, den : Nat \ {0}] /\ y \in [num : Nat, den : Nat \ {0}]
               /\ Place(r, a) \in Nat
               /\ Place(r, a) <= Place(r, b) => x.num * y.den >= y.num * x.den
               /\ Place(r, a) < Place(r, b) => x.num * y.den > y.num * x.den
<1>1. RrfK \in Nat /\ Pool \in Nat
  BY DEF SearchAssumption
<1>2. \A id : IF id \in Range(r)
              THEN /\ Place(r, id) \in 1 .. Pool
                   /\ Reciprocal(r, id) = [num |-> 1, den |-> RrfK + Place(r, id)]
              ELSE /\ Place(r, id) = Pool + 1
                   /\ Reciprocal(r, id) = [num |-> 0, den |-> 1]
  <2> SUFFICES ASSUME NEW id
               PROVE  IF id \in Range(r)
                      THEN /\ Place(r, id) \in 1 .. Pool
                           /\ Reciprocal(r, id) = [num |-> 1, den |-> RrfK + Place(r, id)]
                      ELSE /\ Place(r, id) = Pool + 1
                           /\ Reciprocal(r, id) = [num |-> 0, den |-> 1]
    OBVIOUS
  <2>1. CASE id \in Range(r)
    <3> DEFINE p == CHOOSE q \in DOMAIN r : r[q] = id
    <3>1. p \in DOMAIN r
      BY <2>1 DEF Range
    <3>2. p \in 1 .. Pool
      BY <1>1, <3>1
    <3>3. Place(r, id) = p /\ Reciprocal(r, id) = [num |-> 1, den |-> RrfK + p]
      BY <2>1 DEF Place, Reciprocal, Fraction
    <3> HIDE DEF p
    <3> QED
      BY <2>1, <3>2, <3>3
  <2>2. CASE id \notin Range(r)
    BY <2>2 DEF Place, Reciprocal, Fraction
  <2> QED
    BY <2>1, <2>2
<1> DEFINE x == Reciprocal(r, a)
           y == Reciprocal(r, b)
           p == Place(r, a)
           q == Place(r, b)
<1>3. /\ (p \in 1 .. Pool /\ x = [num |-> 1, den |-> RrfK + p]) \/ (p = Pool + 1 /\ x = [num |-> 0, den |-> 1])
      /\ (q \in 1 .. Pool /\ y = [num |-> 1, den |-> RrfK + q]) \/ (q = Pool + 1 /\ y = [num |-> 0, den |-> 1])
  BY <1>2
<1> HIDE DEF x, y, p, q
<1>4. /\ x \in [num : Nat, den : Nat \ {0}] /\ y \in [num : Nat, den : Nat \ {0}] /\ p \in Nat
      /\ p <= q => x.num * y.den >= y.num * x.den
      /\ p < q => x.num * y.den > y.num * x.den
  BY <1>1, <1>3
<1> QED
  BY <1>4 DEF x, y, p, q

(* Products of numbers that are not negative keep an order. *)
LEMMA Scaled ==
    ASSUME NEW k \in Nat \ {0}, NEW m \in Int, NEW n \in Int
    PROVE  /\ m >= n => m * k >= n * k
           /\ m > n => m * k > n * k
OBVIOUS

(* A sum of fractions exceeds another when no part is less and one is more. *)
LEMMA AddUp ==
    ASSUME NEW x \in [num : Nat, den : Nat \ {0}], NEW y \in [num : Nat, den : Nat \ {0}],
           NEW z \in [num : Nat, den : Nat \ {0}], NEW w \in [num : Nat, den : Nat \ {0}],
           x.num * y.den >= y.num * x.den, z.num * w.den >= w.num * z.den,
           x.num * y.den > y.num * x.den \/ z.num * w.den > w.num * z.den
    PROVE  Exceeds(Plus(x, z), Plus(y, w)) /\ ~Exceeds(Plus(y, w), Plus(x, z))
<1> DEFINE A == x.num * y.den
           B == y.num * x.den
           C == z.num * w.den
           D == w.num * z.den
           k == z.den * w.den
           l == x.den * y.den
<1>1. A \in Nat /\ B \in Nat /\ C \in Nat /\ D \in Nat /\ k \in Nat \ {0} /\ l \in Nat \ {0}
  OBVIOUS
<1>2. /\ Plus(x, z).num * Plus(y, w).den = A * k + C * l
      /\ Plus(y, w).num * Plus(x, z).den = B * k + D * l
  BY DEF Plus, Fraction
<1>3. A >= B /\ C >= D /\ (A > B \/ C > D)
  OBVIOUS
<1> HIDE DEF A, B, C, D, k, l
<1>4. A * k >= B * k /\ C * l >= D * l /\ (A > B => A * k > B * k) /\ (C > D => C * l > D * l)
  <2>1. A * k >= B * k /\ (A > B => A * k > B * k)
    <3>1. k \in Nat \ {0} /\ A \in Int /\ B \in Int
      BY <1>1
    <3> QED
      BY <1>3, <3>1, Scaled
  <2>2. C * l >= D * l /\ (C > D => C * l > D * l)
    <3>1. l \in Nat \ {0} /\ C \in Int /\ D \in Int
      BY <1>1
    <3> QED
      BY <1>3, <3>1, Scaled
  <2> QED
    BY <2>1, <2>2
<1>5. A * k \in Int /\ B * k \in Int /\ C * l \in Int /\ D * l \in Int
  BY <1>1
<1>6. A * k + C * l > B * k + D * l
  BY <1>3, <1>4, <1>5
<1> QED
  BY <1>2, <1>5, <1>6 DEF Exceeds
-----------------------------------------------------------------------------
(* What is known of a search while it runs. *)
SearchTyped ==
    /\ phase \in {"index", "keyword", "fuse", "answered"} /\ lastId \in Nat /\ limit \in Nat
    /\ DOMAIN table \subseteq 1 .. lastId /\ \A i \in DOMAIN table : table[i] \in Contents
    /\ DOMAIN loaded \subseteq 1 .. lastId /\ \A i \in DOMAIN loaded : loaded[i] \in Contents
    /\ \A i \in DOMAIN table \cap DOMAIN loaded : table[i] = loaded[i]

(* Both lists are no longer than the pool and hold what the read that made *)
(* them may hold, and what is found is found in what was loaded.           *)
Ranked ==
    /\ byVector \in Seq(Nat) /\ Len(byVector) <= Pool
    /\ \A id \in Range(byVector) : id \in DOMAIN loaded /\ loaded[id].sim >= MinRelevance
    /\ byKeyword \in Seq(Nat) /\ Len(byKeyword) <= Pool
    /\ \A id \in Range(byKeyword) : id \in DOMAIN loaded => loaded[id].word > 0

SearchInv ==
    /\ SearchTyped /\ Ranked
    /\ phase = "index" => byKeyword = <<>>
    /\ phase # "answered" => hits = <<>>
    /\ HitsAreTheBest

(* What is ahead in both lists has the better score. *)
LEMMA AheadScoresMore ==
    ASSUME SearchAssumption, Ranked, NEW a, NEW b, Ahead(a, b)
    PROVE  /\ a # b
           /\ Exceeds(Score(byVector, byKeyword, a), Score(byVector, byKeyword, b))
           /\ ~Exceeds(Score(byVector, byKeyword, b), Score(byVector, byKeyword, a))
<1>1. /\ Reciprocal(byVector, a) \in [num : Nat, den : Nat \ {0}]
      /\ Reciprocal(byVector, b) \in [num : Nat, den : Nat \ {0}]
      /\ Place(byVector, a) \in Nat
      /\ Place(byVector, a) <= Place(byVector, b) =>
            Reciprocal(byVector, a).num * Reciprocal(byVector, b).den >= Reciprocal(byVector, b).num * Reciprocal(byVector, a).den
      /\ Place(byVector, a) < Place(byVector, b) =>
            Reciprocal(byVector, a).num * Reciprocal(byVector, b).den > Reciprocal(byVector, b).num * Reciprocal(byVector, a).den
  BY EarlierCountsMore DEF Ranked
<1>2. /\ Reciprocal(byKeyword, a) \in [num : Nat, den : Nat \ {0}]
      /\ Reciprocal(byKeyword, b) \in [num : Nat, den : Nat \ {0}]
      /\ Place(byKeyword, a) \in Nat
      /\ Place(byKeyword, a) <= Place(byKeyword, b) =>
            Reciprocal(byKeyword, a).num * Reciprocal(byKeyword, b).den >= Reciprocal(byKeyword, b).num * Reciprocal(byKeyword, a).den
      /\ Place(byKeyword, a) < Place(byKeyword, b) =>
            Reciprocal(byKeyword, a).num * Reciprocal(byKeyword, b).den > Reciprocal(byKeyword, b).num * Reciprocal(byKeyword, a).den
  BY EarlierCountsMore DEF Ranked
<1>3. Place(byVector, b) \in Nat /\ Place(byKeyword, b) \in Nat
  BY EarlierCountsMore DEF Ranked
<1>4. /\ Place(byVector, a) <= Place(byVector, b) /\ Place(byKeyword, a) <= Place(byKeyword, b)
      /\ Place(byVector, a) < Place(byVector, b) \/ Place(byKeyword, a) < Place(byKeyword, b)
  <2>1. /\ Place(byVector, a) <= Place(byVector, b) /\ Place(byKeyword, a) <= Place(byKeyword, b)
        /\ Place(byVector, a) # Place(byVector, b) \/ Place(byKeyword, a) # Place(byKeyword, b)
    BY DEF Ahead
  <2>2. /\ Place(byVector, a) \in Nat /\ Place(byKeyword, a) \in Nat
        /\ Place(byVector, b) \in Nat /\ Place(byKeyword, b) \in Nat
    BY <1>1, <1>2, <1>3
  <2> QED
    BY <2>1, <2>2
<1>5. a # b
  BY <1>1, <1>2, <1>4
<1> QED
  BY <1>1, <1>2, <1>4, <1>5, AddUp DEF Score

(* The list that is shown is what the search promises. *)
LEMMA AnswersAreTheBest ==
    ASSUME SearchAssumption, SearchInv, Answer
    PROVE  HitsAreTheBest'
<1> DEFINE found == Range(byVector) \cup Range(byKeyword)
<1>1. PICK fused \in FuseRRF(byVector, byKeyword) :
        LET best == SubSeq(fused, 1, Min({limit, Len(fused)}))
        IN  hits' \in {h \in SetToSeqs(Range(best) \cap DOMAIN loaded) :
              \A i, j \in DOMAIN h : i < j => \E p, q \in DOMAIN best : p < q /\ best[p] = h[i] /\ best[q] = h[j]}
  BY DEF Answer
<1> DEFINE m == Min({limit, Len(fused)})
           best == SubSeq(fused, 1, m)
           H == Range(best) \cap DOMAIN loaded
<1>2. IsFiniteSet(found)
  BY FinitelyMany, FS_Union DEF SearchInv, Ranked
<1>3. /\ fused \in SetToSeqs(found)
      /\ \A i, j \in DOMAIN fused : i < j =>
            \/ Exceeds(Score(byVector, byKeyword, fused[i]), Score(byVector, byKeyword, fused[j]))
            \/ ~Exceeds(Score(byVector, byKeyword, fused[j]), Score(byVector, byKeyword, fused[i]))
  BY DEF FuseRRF
<1>4. hits' \in SetToSeqs(H)
      /\ \A i, j \in DOMAIN hits' : i < j => \E p, q \in DOMAIN best : p < q /\ best[p] = hits'[i] /\ best[q] = hits'[j]
  BY <1>1
<1>5. limit \in Nat
  BY DEF SearchInv, SearchTyped
<1> HIDE DEF found
<1>6. /\ fused \in Seq(found) /\ Len(fused) = Cardinality(found) /\ Cardinality(found) \in Nat
      /\ Range(fused) = found
      /\ \A i, j \in DOMAIN fused : fused[i] = fused[j] => i = j
  BY <1>2, <1>3, EachOnce
<1>7. /\ m \in 0 .. Len(fused) /\ best \in Seq(found) /\ Len(best) = m /\ DOMAIN best = 1 .. m
      /\ \A i \in 1 .. m : best[i] = fused[i]
      /\ Range(best) \subseteq found
      /\ \A i, j \in DOMAIN best : best[i] = best[j] => i = j
  <2>1. m \in 0 .. Len(fused)
    BY <1>5, <1>6, MinOfTwo
  <2> HIDE DEF m
  <2>2. /\ best \in Seq(found) /\ Len(best) = m /\ DOMAIN best = 1 .. m
        /\ \A i \in 1 .. m : best[i] = fused[i]
        /\ Range(best) \subseteq Range(fused)
        /\ \A i, j \in DOMAIN best : best[i] = best[j] => i = j
    BY <1>6, <2>1, Beginning
  <2> QED
    BY <1>6, <2>1, <2>2
<1>8. m = Min({limit, Cardinality(found)})
  BY <1>6
<1> HIDE DEF m, best
<1>9. IsFiniteSet(Range(best)) /\ Cardinality(Range(best)) = m
  BY <1>7, NoneTwice
<1>10. IsFiniteSet(H)
  BY <1>9, FS_Subset
<1> HIDE DEF H
<1>11. /\ hits' \in Seq(H) /\ Len(hits') = Cardinality(H) /\ Range(hits') = H
       /\ \A i, j \in DOMAIN hits' : hits'[i] = hits'[j] => i = j
  BY <1>4, <1>10, EachOnce
<1>12. H \subseteq found /\ H \subseteq DOMAIN loaded /\ H \subseteq Range(best)
  BY <1>7 DEF H
<1>13. Cardinality(Range(hits')) = Len(hits')
  BY <1>11
<1>14. \A id \in Range(hits') : loaded[id].sim >= MinRelevance \/ loaded[id].word > 0
  BY <1>11, <1>12 DEF found, SearchInv, Ranked
<1> DEFINE place(h) == [id \in Range(h) |-> CHOOSE p \in DOMAIN h : h[p] = id]
<1>15. ASSUME NEW b \in Range(hits'), NEW a \in found \cap DOMAIN loaded, Ahead(a, b)
       PROVE  a \in Range(hits') /\ place(hits')[a] < place(hits')[b]
  <2>1. PICK q \in 1 .. m : best[q] = b /\ fused[q] = b
    BY <1>7, <1>11, <1>12 DEF Range
  <2>2. PICK p \in DOMAIN fused : fused[p] = a
    BY <1>6 DEF Range
  <2>3. DOMAIN fused = 1 .. Len(fused) /\ Len(fused) \in Nat /\ m \in Nat /\ q \in DOMAIN fused
    BY <1>6, <1>7, <2>1
  <2>4. /\ a # b
        /\ Exceeds(Score(byVector, byKeyword, a), Score(byVector, byKeyword, b))
        /\ ~Exceeds(Score(byVector, byKeyword, b), Score(byVector, byKeyword, a))
    BY <1>15, AheadScoresMore DEF SearchInv
  <2>5. ~(q < p)
    BY <1>3, <2>1, <2>2, <2>3, <2>4
  <2>6. p < q
    BY <2>1, <2>2, <2>3, <2>4, <2>5
  <2>7. p \in 1 .. m /\ best[p] = a
    BY <1>7, <2>1, <2>2, <2>3, <2>6
  <2>8. a \in Range(hits')
    BY <1>7, <1>11, <2>7 DEF H, Range
  <2> DEFINE i == place(hits')[a]
             j == place(hits')[b]
  <2>9. i \in DOMAIN hits' /\ hits'[i] = a /\ j \in DOMAIN hits' /\ hits'[j] = b
    BY <2>8 DEF Range
  <2> HIDE DEF place, i, j
  <2>10. ~(j < i)
    <3> SUFFICES ASSUME j < i PROVE FALSE
      OBVIOUS
    <3>1. PICK k, l \in DOMAIN best : k < l /\ best[k] = b /\ best[l] = a
      BY <1>4, <2>9
    <3>2. k = q /\ l = p
      BY <1>7, <2>1, <2>7, <3>1
    <3> QED
      BY <2>1, <2>3, <2>6, <2>7, <3>1, <3>2
  <2>11. i # j /\ i \in Nat /\ j \in Nat
    BY <1>11, <2>4, <2>9
  <2> QED
    BY <2>8, <2>10, <2>11 DEF i, j
<1>16. /\ Len(hits') <= limit
       /\ Len(hits') + Cardinality(found \ DOMAIN loaded) >= Min({limit, Cardinality(found)})
  <2> DEFINE Skipped == Range(best) \ DOMAIN loaded
             Unloaded == found \ DOMAIN loaded
  <2>1. Range(best) = H \cup Skipped /\ H \cap Skipped = {} /\ Skipped \subseteq Unloaded
    BY <1>7 DEF H
  <2>2. IsFiniteSet(Unloaded) /\ IsFiniteSet(Skipped)
    BY <1>2, <2>1, FS_Subset
  <2> HIDE DEF Skipped, Unloaded
  <2>3. m = Cardinality(H) + Cardinality(Skipped)
    <3>1. Cardinality(H \cup Skipped)
             = Cardinality(H) + Cardinality(Skipped) - Cardinality(H \cap Skipped)
      BY <1>10, <2>2, FS_Union
    <3>2. Cardinality(H \cap Skipped) = 0
      BY <2>1, FS_EmptySet
    <3>3. Cardinality(H \cup Skipped) = m
      BY <1>9, <2>1
    <3>4. Cardinality(H) \in Nat /\ Cardinality(Skipped) \in Nat
      BY <1>10, <2>2, FS_CardinalityType
    <3> HIDE DEF m, H
    <3> QED
      BY <3>1, <3>2, <3>3, <3>4
  <2>4. Cardinality(Skipped) <= Cardinality(Unloaded)
    BY <2>1, <2>2, FS_Subset
  <2>5. /\ Cardinality(H) \in Nat /\ Cardinality(Skipped) \in Nat /\ Cardinality(Unloaded) \in Nat
        /\ m \in Nat /\ m <= limit
    <3>1. m \in Nat /\ m <= limit
      BY <1>5, <1>6, <1>7, <1>8, MinOfTwo
    <3> QED
      BY <1>10, <2>2, <3>1, FS_CardinalityType
  <2> QED
    BY <1>5, <1>8, <1>11, <2>3, <2>4, <2>5 DEF Unloaded
<1>17. limit' = limit /\ loaded' = loaded /\ byVector' = byVector /\ byKeyword' = byKeyword
  BY DEF Answer
<1>18. Cardinality(Range(hits))' = Len(hits)'
  BY <1>13
<1>19. (\A id \in Range(hits) : loaded[id].sim >= MinRelevance \/ loaded[id].word > 0)'
  BY <1>14, <1>17
<1>20. (/\ Len(hits) <= limit
        /\ Len(hits) + Cardinality(found \ DOMAIN loaded) >= Min({limit, Cardinality(found)}))'
  BY <1>16, <1>17 DEF found
<1>21. (\A b \in Range(hits) : \A a \in found \cap DOMAIN loaded :
           Ahead(a, b) => a \in Range(hits) /\ place(hits)[a] < place(hits)[b])'
  <2> SUFFICES ASSUME NEW b \in Range(hits'), NEW a \in (found \cap DOMAIN loaded)', Ahead(a, b)'
               PROVE  a \in Range(hits') /\ place(hits')[a] < place(hits')[b]
    OBVIOUS
  <2>1. a \in found \cap DOMAIN loaded
    BY <1>17 DEF found
  <2>2. Ahead(a, b)
    BY <1>17 DEF Ahead, Place
  <2> QED
    BY <1>15, <2>1, <2>2
<1> QED
  BY <1>18, <1>19, <1>20, <1>21 DEF HitsAreTheBest, found

-----------------------------------------------------------------------------
(* A step of a run that writes while the search has not answered. *)
LEMMA WritesKeep ==
    ASSUME SearchAssumption, SearchInv,
           (\E c \in Contents : InsertChunk(c)) \/ (\E i \in DOMAIN table : DeleteChunk(i))
    PROVE  SearchInv'
<1>1. SearchTyped'
  <2>1. CASE \E c \in Contents : InsertChunk(c)
    <3>1. PICK c \in Contents : InsertChunk(c)
      BY <2>1
    <3>2. /\ lastId' = lastId + 1 /\ lastId \in Nat /\ DOMAIN table' = DOMAIN table \cup {lastId + 1}
          /\ table'[lastId + 1] = c /\ \A i \in DOMAIN table : table'[i] = table[i]
      BY <3>1 DEF InsertChunk, SearchInv, SearchTyped
    <3>3. phase' = phase /\ limit' = limit /\ loaded' = loaded
      BY <3>1 DEF InsertChunk
    <3> QED
      BY <3>2, <3>3 DEF SearchInv, SearchTyped
  <2>2. CASE \E i \in DOMAIN table : DeleteChunk(i)
    <3>1. PICK i \in DOMAIN table : DeleteChunk(i)
      BY <2>2
    <3>2. DOMAIN table' = DOMAIN table \ {i} /\ \A j \in DOMAIN table' : table'[j] = table[j]
      BY <3>1 DEF DeleteChunk
    <3>3. phase' = phase /\ limit' = limit /\ loaded' = loaded /\ lastId' = lastId
      BY <3>1 DEF DeleteChunk
    <3> QED
      BY <3>2, <3>3 DEF SearchInv, SearchTyped
  <2> QED
    BY <2>1, <2>2
<1>2. /\ phase # "answered" /\ phase' = phase /\ limit' = limit /\ loaded' = loaded
      /\ byVector' = byVector /\ byKeyword' = byKeyword /\ hits' = hits
  BY DEF InsertChunk, DeleteChunk
<1> QED
  BY <1>1, <1>2 DEF SearchInv, Ranked, HitsAreTheBest

(* The first read ranks what it loads. *)
LEMMA LoadedAndRanked ==
    ASSUME SearchAssumption, SearchInv, NEW asked \in Limits, LoadAll(asked)
    PROVE  SearchInv'
<1> DEFINE near == {i \in DOMAIN table : table[i].sim >= MinRelevance}
           W == [i \in near |-> table[i].sim]
<1>1. /\ phase = "index" /\ loaded' = table /\ table' = table /\ lastId' = lastId
      /\ byKeyword' = byKeyword /\ hits' = hits /\ byVector' \in Rankings(W)
      /\ phase' \in {"answered", "keyword"} /\ (phase' = "answered" => table = Empty)
      /\ limit' = IF asked <= 0 \/ asked > MaxLimit THEN DefaultLimit ELSE asked
  BY DEF LoadAll
<1>2. limit' \in Nat
  BY <1>1 DEF SearchAssumption
<1>3. SearchTyped'
  <2> HIDE DEF near, W
  <2>1. /\ lastId \in Nat /\ DOMAIN table \subseteq 1 .. lastId
        /\ \A i \in DOMAIN table : table[i] \in Contents
    BY DEF SearchInv, SearchTyped
  <2> QED
    BY <1>1, <1>2, <2>1 DEF SearchTyped
<1>4. byKeyword' = <<>> /\ hits' = <<>> /\ Range(<<>>) = {}
  BY <1>1 DEF SearchInv, Range
<1>5. near \subseteq 1 .. lastId /\ lastId \in Nat /\ DOMAIN W = near
  BY DEF SearchInv, SearchTyped
<1>6. IsFiniteSet(near)
  <2>1. IsFiniteSet(1 .. lastId)
    BY <1>5, FS_Interval
  <2> HIDE DEF near
  <2> QED
    BY <1>5, <2>1, FS_Subset
<1> HIDE DEF W
<1>7. byVector' \in Seq(near) /\ Len(byVector') <= Pool
  BY <1>1, <1>5, <1>6, RankedAreGiven
<1>8. Range(byVector') \subseteq near
  BY <1>7, FinitelyMany
<1>9. Ranked'
  <2>1. byVector' \in Seq(Nat)
    BY <1>5, <1>7
  <2>2. Pool \in Nat
    BY DEF SearchAssumption
  <2> QED
    BY <1>1, <1>4, <1>7, <1>8, <2>1, <2>2 DEF Ranked
<1>10. HitsAreTheBest'
  <2>1. CASE phase' = "answered"
    <3>1. near = {}
      BY <1>1, <2>1 DEF Empty
    <3>2. Range(byVector') = {} /\ Range(byKeyword') = {} /\ Range(hits') = {} /\ Len(hits') = 0
      BY <1>4, <1>8, <3>1
    <3>3. Cardinality({}) = 0
      BY FS_EmptySet
    <3>4. Min({limit', 0}) = 0 /\ 0 <= limit'
      BY <1>2, MinOfTwo
    <3>5. (Range(byVector) \cup Range(byKeyword))' = {}
          /\ (Range(byVector) \cup Range(byKeyword))' \ DOMAIN loaded' = {}
      BY <3>2
    <3> DEFINE met == (Range(byVector) \cup Range(byKeyword))'
               unread == (Range(byVector) \cup Range(byKeyword))' \ DOMAIN loaded'
    <3>6. Cardinality(met) = 0 /\ Cardinality(unread) = 0
      BY <3>3, <3>5
    <3>7. 0 <= limit' /\ 0 + Cardinality(unread) >= Min({limit', Cardinality(met)})
      <4> HIDE DEF met, unread
      <4> QED
        BY <1>2, <3>4, <3>6
    <3>8. hits' = <<>> /\ Range(hits') = {} /\ Cardinality(Range(hits')) = Len(hits')
      BY <1>4, <3>2, <3>3
    <3> HIDE DEF near, W
    <3> QED
      BY <3>2, <3>7, <3>8 DEF HitsAreTheBest
  <2>2. CASE phase' # "answered"
    BY <2>2 DEF HitsAreTheBest
  <2> QED
    BY <2>1, <2>2
<1> QED
  BY <1>1, <1>3, <1>4, <1>9, <1>10 DEF SearchInv

(* The second read may meet chunks that the first did not, but none that it *)
(* met with another content.                                                *)
LEMMA MatchedAndRanked ==
    ASSUME SearchAssumption, SearchInv, BM25Search
    PROVE  SearchInv'
<1> DEFINE matching == {i \in DOMAIN table : table[i].word > 0}
           W == [i \in matching |-> table[i].word]
<1>1. /\ phase = "keyword" /\ phase' = "fuse" /\ table' = table /\ lastId' = lastId /\ limit' = limit
      /\ loaded' = loaded /\ byVector' = byVector /\ hits' = hits
      /\ byKeyword' \in Rankings(W) \/ byKeyword' = <<>>
  BY DEF BM25Search
<1>2. SearchTyped'
  BY <1>1 DEF SearchInv, SearchTyped
<1>3. matching \subseteq 1 .. lastId /\ lastId \in Nat /\ DOMAIN W = matching
  BY DEF SearchInv, SearchTyped
<1>4. IsFiniteSet(matching)
  <2>1. IsFiniteSet(1 .. lastId)
    BY <1>3, FS_Interval
  <2> HIDE DEF matching
  <2> QED
    BY <1>3, <2>1, FS_Subset
<1>5. Pool \in Nat
  BY DEF SearchAssumption
<1>6. /\ byKeyword' \in Seq(Nat) /\ Len(byKeyword') <= Pool
      /\ Range(byKeyword') \subseteq matching
  <2>1. CASE byKeyword' = <<>>
    BY <1>5, <2>1 DEF Range
  <2>2. CASE byKeyword' \in Rankings(W)
    <3> HIDE DEF W
    <3>1. byKeyword' \in Seq(matching) /\ Len(byKeyword') <= Pool
      BY <1>3, <1>4, <2>2, RankedAreGiven
    <3>2. Range(byKeyword') \subseteq matching
      BY <3>1, FinitelyMany
    <3>3. byKeyword' \in Seq(Nat)
      BY <1>3, <3>1
    <3> QED
      BY <3>1, <3>2, <3>3
  <2> QED
    BY <1>1, <2>1, <2>2
<1>7. \A id \in Range(byKeyword') : id \in DOMAIN loaded => loaded[id].word > 0
  BY <1>6 DEF SearchInv, SearchTyped
<1>8. Ranked'
  BY <1>1, <1>6, <1>7 DEF SearchInv, Ranked
<1> QED
  BY <1>1, <1>2, <1>8 DEF SearchInv, HitsAreTheBest

(* What is shown depends on nothing but the lists and what was loaded. *)
LEMMA Unchanged ==
    ASSUME HitsAreTheBest, phase' = phase, limit' = limit, loaded' = loaded,
           byVector' = byVector, byKeyword' = byKeyword, hits' = hits
    PROVE  HitsAreTheBest'
<1> DEFINE found == Range(byVector) \cup Range(byKeyword)
           place(h) == [id \in Range(h) |-> CHOOSE p \in DOMAIN h : h[p] = id]
<1> SUFFICES ASSUME phase = "answered" PROVE HitsAreTheBest'
  BY DEF HitsAreTheBest
<1>1. (Cardinality(Range(hits)) = Len(hits))'
  BY DEF HitsAreTheBest
<1>2. (\A id \in Range(hits) : loaded[id].sim >= MinRelevance \/ loaded[id].word > 0)'
  BY DEF HitsAreTheBest
<1>3. (/\ Len(hits) <= limit
       /\ Len(hits) + Cardinality(found \ DOMAIN loaded) >= Min({limit, Cardinality(found)}))'
  BY DEF HitsAreTheBest
<1>4. (\A b \in Range(hits) : \A a \in found \cap DOMAIN loaded :
          Ahead(a, b) => a \in Range(hits) /\ place(hits)[a] < place(hits)[b])'
  <2> SUFFICES ASSUME NEW b \in Range(hits'), NEW a \in (found \cap DOMAIN loaded)', Ahead(a, b)'
               PROVE  a \in Range(hits') /\ place(hits')[a] < place(hits')[b]
    OBVIOUS
  <2>1. a \in found \cap DOMAIN loaded /\ b \in Range(hits)
    OBVIOUS
  <2>2. Ahead(a, b)
    BY DEF Ahead, Place
  <2>3. a \in Range(hits) /\ place(hits)[a] < place(hits)[b]
    BY <2>1, <2>2 DEF HitsAreTheBest
  <2> QED
    BY <2>3
<1> QED
  BY <1>1, <1>2, <1>3, <1>4 DEF HitsAreTheBest

(* Whatever a run writes between the two reads of a search, its hits are the *)
(* best of what it loaded and found, in the order of the fused scores, and  *)
(* they fall short of the limit by no more than the chunks that were found  *)
(* without having been loaded (index.go:716-725 skips them after the cut).  *)
THEOREM AnswersAreSound == SearchSpec => []HitsAreTheBest
<1> USE SearchAssumption
<1>1. SearchInit => SearchInv
  <2>1. Empty = Empty /\ DOMAIN Empty = {} /\ Range(<<>>) = {} /\ Pool \in Nat
    BY DEF Empty, Range, SearchAssumption
  <2> QED
    BY <2>1 DEF SearchInit, SearchInv, SearchTyped, Ranked, HitsAreTheBest
<1>2. SearchInv /\ [SearchNext]_searchVars => SearchInv'
  <2> SUFFICES ASSUME SearchInv, [SearchNext]_searchVars PROVE SearchInv'
    OBVIOUS
  <2>1. CASE (\E c \in Contents : InsertChunk(c)) \/ (\E i \in DOMAIN table : DeleteChunk(i))
    BY <2>1, WritesKeep
  <2>2. CASE \E n \in Limits : LoadAll(n)
    BY <2>2, LoadedAndRanked
  <2>3. CASE BM25Search
    BY <2>3, MatchedAndRanked
  <2>4. CASE Answer
    <3>1. HitsAreTheBest'
      BY <2>4, AnswersAreTheBest
    <3>2. /\ phase' = "answered" /\ table' = table /\ lastId' = lastId /\ limit' = limit
          /\ loaded' = loaded /\ byVector' = byVector /\ byKeyword' = byKeyword
      BY <2>4 DEF Answer
    <3> QED
      BY <3>1, <3>2 DEF SearchInv, SearchTyped, Ranked
  <2>5. CASE UNCHANGED searchVars
    <3>1. /\ phase' = phase /\ table' = table /\ lastId' = lastId /\ limit' = limit
          /\ loaded' = loaded /\ byVector' = byVector /\ byKeyword' = byKeyword /\ hits' = hits
      BY <2>5 DEF searchVars
    <3>2. HitsAreTheBest'
      BY <3>1, Unchanged DEF SearchInv
    <3> QED
      BY <3>1, <3>2 DEF SearchInv, SearchTyped, Ranked
  <2> QED
    BY <2>1, <2>2, <2>3, <2>4, <2>5 DEF SearchNext
<1>3. SearchInv => HitsAreTheBest
  BY DEF SearchInv
<1> QED
  BY <1>1, <1>2, <1>3, PTL DEF SearchSpec
=============================================================================
