-------------------------- MODULE ReviewLifecycle --------------------------
(***************************************************************************)
(* What becomes of a code the store does not know.  A scan counts at once  *)
(* on a provisional product, opens a review and asks a decoder; the        *)
(* answer, a person, or both settle the review, in any order and any       *)
(* number of times: while a decode is under way nothing stops a person     *)
(* from linking, naming, approving, ignoring or reopening the same code.   *)
(*                                                                         *)
(* One variable holds the store, as the program's one store object does;   *)
(* every definition that changes it is a function of the store before.     *)
(* Deletion, sessions and the sync queue are the subject of CountTransfer. *)
(***************************************************************************)
EXTENDS Integers, Sequences, FiniteSets, FiniteSetsExt

CONSTANTS
  Codes,        \* barcodes
  Catalogue,    \* codes of the verified products the store starts with
  MaxScans, MaxActs,   \* bounds: scans (physical, or made by decisions), things a person does
  None

\* A verified product of interest carries a code.
ASSUME CatalogueAssumption ==
  Catalogue \in Seq((SUBSET Codes) \ {{}}) /\ None \notin Codes \cup Nat
ASSUME BoundsAssumption == {MaxScans, MaxActs} \subseteq Nat

VARIABLES
  store,    \* products with their count rows, aliases, scan feed, reviews
  decode,   \* the decode of each code's review: idle, queued or asked
  scans,    \* physical scans so far
  acts,     \* things a person has done so far
  again,    \* units that may be counted twice: see NothingInvented
  applied,  \* scans a decision made for the person
  renamed   \* verified products an answer has renamed

vars == <<store, decode, scans, acts, again, applied, renamed>>

\* What a product is called: by its placeholder, by a decoder without or with
\* evidence for it, or by a person.
Names == {"floor", "guess", "backed", "human"}
Product == [codes : SUBSET Codes, primary : Codes, provisional : BOOLEAN, verified : BOOLEAN,
            gone : BOOLEAN, name : Names, qty : Nat, events : SUBSET Nat]
Alias == [code : Codes, product : Nat, approved : BOOLEAN]
FeedRow == [code : Codes, product : Nat \cup {None}, decoding : BOOLEAN,
            status : {"known", "needs_review", "conflict", "resolved"}]
\* offered: the suggestion shown on the feed rows of the code.
Review == [status : {"none", "open", "suggested", "resolved", "ignored"},
           by : {"human", "auto", None}, provisional : Nat \cup {None},
           name : {None, "empty", "guess", "backed"}, codes : SUBSET Codes, offered : {"no", "pending", "settled"}]

Store == [products : Seq(Product), aliases : SUBSET Alias, feed : Seq(FeedRow),
          reviews : [Codes -> Review]]

TypeOK ==
  /\ store \in Store
  /\ \A a \in store.aliases : a.product \in DOMAIN store.products
  /\ \A e \in DOMAIN store.feed : store.feed[e].product \in {None} \cup DOMAIN store.products
  /\ \A c \in Codes : store.reviews[c].provisional \in {None} \cup DOMAIN store.products
  /\ decode \in [Codes -> {"idle", "queued", "asked"}]
  /\ scans \in 0..MaxScans /\ acts \in 0..MaxActs /\ {again, applied} \subseteq Nat
  /\ renamed \subseteq DOMAIN store.products

NoReview == [status |-> "none", by |-> None, provisional |-> None, name |-> None,
             codes |-> {}, offered |-> "no"]
Placeholder(c) == [codes |-> {c}, primary |-> c, provisional |-> TRUE, verified |-> FALSE,
                   gone |-> FALSE, name |-> "floor", qty |-> 0, events |-> {}]

Init ==
  /\ store = [products |-> [p \in DOMAIN Catalogue |->
                [codes |-> Catalogue[p], primary |-> CHOOSE c \in Catalogue[p] : TRUE,
                 provisional |-> FALSE, verified |-> TRUE, gone |-> FALSE, name |-> "human",
                 qty |-> 0, events |-> {}]],
              aliases |-> {}, feed |-> <<>>, reviews |-> [c \in Codes |-> NoReview]]
  /\ decode = [c \in Codes |-> "idle"]
  /\ scans = 0 /\ acts = 0 /\ again = 0 /\ applied = 0 /\ renamed = {}

-----------------------------------------------------------------------------
(* Reading the store *)

Awaiting == {"open", "suggested"}

Live(s) == {p \in DOMAIN s.products : ~s.products[p].gone}
Counted(s) == {p \in Live(s) : s.products[p].qty > 0}
Carriers(s, c) == {p \in Counted(s) : c \in s.products[p].codes}
Bridge(s, c) == {p \in Carriers(s, c) : s.products[p].provisional}

\* resolveScanToProductTiered: approved aliases, whatever they name, and the
\* codes of verified products; more than one product is a conflict.
Resolved(s, c) ==
  {a.product : a \in {x \in s.aliases : x.code = c /\ x.approved}} \cup
  {p \in Live(s) : s.products[p].verified /\ c \in s.products[p].codes}

\* The first of a set of products, as find returns it.
First(P) == IF P = {} THEN None ELSE Min(P)

\* The units on the books, told apart by the product they are counted on.
UnitsOn(s, p) == {p} \X (1..s.products[p].qty)
Units(s) == Cardinality(UNION {UnitsOn(s, p) : p \in DOMAIN s.products})
RowsOf(s, c) == {e \in DOMAIN s.feed : s.feed[e].code = c}

\* The provisional product of the review: by the id it keeps, or by its code.
Orphan(s, c) ==
  IF s.reviews[c].provisional \in Counted(s) THEN s.reviews[c].provisional
  ELSE First(Bridge(s, c))

-----------------------------------------------------------------------------
(* Counting *)

\* incrementInventoryCount: an event counts once on a product.
Increment(s, p, e) ==
  IF e \in s.products[p].events THEN s
  ELSE [s EXCEPT !.products[p].qty = @ + 1, !.products[p].events = @ \cup {e}]

\* The row of an event counts on p from now on.
CountRow(s, p, e) ==
  Increment([s EXCEPT !.feed[e].product = p, !.feed[e].status = "known"], p, e)

\* The rows E count on p, one after another.
CountRows(s, p, E) ==
  [s EXCEPT !.feed = [e \in DOMAIN @ |->
              IF e \in E THEN [@[e] EXCEPT !.product = p, !.status = "known"] ELSE @[e]],
            !.products[p].qty = @ + Cardinality(E \ s.products[p].events),
            !.products[p].events = @ \cup E]

NewRow(s, c, p, status, busy) ==
  [s EXCEPT !.feed = Append(@, [code |-> c, product |-> p, status |-> status, decoding |-> busy])]

Mint(s, product) == [s EXCEPT !.products = Append(@, product)]

\* Mutants: the orphan keeps its count; its events are forgotten.
TransferKeeping(s, o, t) ==
  [s EXCEPT !.products[t].qty = @ + s.products[o].qty,
            !.products[t].events = @ \cup s.products[o].events]
TransferForgetting(s, o, t) ==
  [s EXCEPT !.products[o].gone = TRUE, !.products[o].qty = 0, !.products[o].events = {},
            !.products[t].qty = @ + s.products[o].qty,
            !.feed = [e \in DOMAIN @ |-> IF @[e].product = o THEN [@[e] EXCEPT !.product = t] ELSE @[e]]]

\* transferOrphanCount and the repointed rows; the orphan leaves the products.
Transfer(s, o, t) ==
  [s EXCEPT
     !.products = [p \in DOMAIN @ |->
       IF p = o THEN [@[p] EXCEPT !.gone = TRUE, !.qty = 0, !.events = {}]
       ELSE IF p = t
       THEN [@[p] EXCEPT !.qty = s.products[t].qty + s.products[o].qty,
                         !.events = s.products[t].events \cup s.products[o].events]
       ELSE @[p]],
     !.feed = [e \in DOMAIN @ |-> IF @[e].product = o THEN [@[e] EXCEPT !.product = t] ELSE @[e]]]

-----------------------------------------------------------------------------
(* processScan *)

\* ensureProvisionalCount for the row just added, and the review.
UnknownScan(s, c, ask) ==
  LET held == NewRow(s, c, None, "needs_review", ask /\ s.reviews[c].status # "open")
      fresh == Len(s.products) + 1
      done == IF Carriers(s, c) # {} THEN held
              ELSE CountRow(Mint(held, Placeholder(c)), fresh, Len(held.feed))
      own == First({p \in Live(done) : done.products[p].provisional /\ done.products[p].primary = c})
      kept == s.reviews[c]
  IN [done EXCEPT !.reviews[c] =
        IF kept.status # "open" THEN [NoReview EXCEPT !.status = "open", !.provisional = own]
        ELSE IF Carriers(s, c) = {} /\ kept.provisional = None THEN [kept EXCEPT !.provisional = fresh]
        ELSE kept]

\* A repeat scan shows the suggestion the review awaits an answer to.
Offered(s, c) ==
  IF s.reviews[c].status \in Awaiting /\ s.reviews[c].name \in {"guess", "backed"}
  THEN [s EXCEPT !.reviews[c].offered = "pending"] ELSE s

ScanOf(s, c, ask) ==
  LET e == Len(s.feed) + 1
      on(p) == Increment(NewRow(s, c, p, "known", FALSE), p, e)
  IN IF Cardinality(Resolved(s, c)) = 1 THEN on(CHOOSE p \in Resolved(s, c) : TRUE)
     ELSE IF Bridge(s, c) # {} THEN Offered(on(Min(Bridge(s, c))), c)
     ELSE UnknownScan(Offered(s, c), c, ask)

\* A scan asks the decoder for a new review only, and if the gate is open.
Asked(s, c, ask, at) ==
  IF /\ ask /\ at[c] = "idle" /\ Cardinality(Resolved(s, c)) # 1
     /\ Bridge(s, c) = {} /\ s.reviews[c].status # "open"
  THEN [at EXCEPT ![c] = "queued"] ELSE at

Scan(c, ask) ==
  /\ scans < MaxScans /\ scans' = scans + 1
  /\ store' = ScanOf(store, c, ask)
  /\ decode' = Asked(store, c, ask, decode)
  /\ UNCHANGED <<acts, again, applied, renamed>>

\* A queued decode starts; the review is looked at here and never again.
Start(c) ==
  /\ decode[c] = "queued"
  /\ decode' = [decode EXCEPT ![c] = IF store.reviews[c].status = "open" THEN "asked" ELSE "idle"]
  /\ UNCHANGED <<store, scans, acts, again, applied, renamed>>

-----------------------------------------------------------------------------
(* resolveUnknown *)

HasAlias(s, c, p) == \E a \in s.aliases : a.code = c /\ a.product = p
Learn(s, C, p, ok) ==
  [s EXCEPT !.aliases = @ \cup {[code |-> c, product |-> p, approved |-> ok] :
                                  c \in {x \in C : ~HasAlias(s, x, p)}}]

\* buildAliasesForCodes: a code approved for another product is left alone.
Taken(s, c, p) == \E a \in s.aliases : a.code = c /\ a.product # p /\ a.approved
LearnAll(s, C, p) == Learn(s, {c \in C : ~Taken(s, c, p)}, p, TRUE)

Settled(s, c) == [s EXCEPT !.reviews[c].status = "resolved", !.reviews[c].by = "human"]

\* The rows of the code that are open, or on another product, go to p.
Relabel(s, c, p) ==
  [s EXCEPT !.feed = [e \in DOMAIN @ |->
     IF @[e].code = c /\ (@[e].status \in {"needs_review", "conflict"} \/ @[e].product # p)
     THEN [@[e] EXCEPT !.status = "resolved", !.product = p] ELSE @[e]]]

\* From "Permanently learn the alias" on: orphan is merged away, None if there
\* is none to merge; also, the codes aliased besides.
Commit(s, c, p, weak, orphan, also) ==
  LET learnt == LearnAll(Learn(Learn(s, {c}, p, ~weak), also.made, p, TRUE), also.chosen, p)
      done == Relabel(Settled(learnt, c), c, p)
  IN IF orphan = None THEN done ELSE Transfer(done, orphan, p)

Held(s) == [store |-> s, held |-> TRUE, rescan |-> FALSE]
Done(s, rescan) == [store |-> s, held |-> FALSE, rescan |-> rescan]

\* A product confirmed under a name, with the codes that came with it.
Confirm(s, p, named, weak) ==
  [s EXCEPT !.products[p].verified = ~weak, !.products[p].provisional = weak,
            !.products[p].name = named.name, !.products[p].codes = @ \cup named.codes]

Conflicted(s, o) ==
  [s EXCEPT !.feed = [e \in DOMAIN @ |->
     IF o # None /\ @[e].product = o
     THEN [@[e] EXCEPT !.status = "conflict", !.decoding = FALSE] ELSE @[e]]]

\* Mutant: any name will do.
NeverWeak(named, human) == FALSE

\* A suggestion without evidence never becomes identity by itself.
Weak(named, human) == named.name = "guess" /\ ~human

\* Action create_new.  alike: another product has nearly the same name.
CreateNew(s, c, named, human, alike, chosen) ==
  LET orphan == Orphan(s, c)
      mine == {c} \cup named.codes
      owners == ((UNION {Resolved(s, x) : x \in mine}) \cup
                 {p \in Counted(s) : s.products[p].codes \cap mine # {}}) \ {orphan}
      real == {p \in Live(s) \ {orphan} : ~s.products[p].provisional}
      twin == First({p \in real : s.products[p].codes \cap named.codes # {}})
      targets == IF owners = {} /\ twin # None THEN {twin} ELSE owners
      p == CHOOSE t \in targets : TRUE
      also(t, q) == [made |-> t.products[q].codes \ {c}, chosen |-> chosen]
  IN IF targets = {} /\ alike /\ real # {} THEN Held(s)
     ELSE IF Cardinality(targets) > 1 THEN Held(Conflicted(s, orphan))
     ELSE IF targets # {} THEN
       LET waits == p \in Live(s) /\ s.products[p].provisional
           weak == waits /\ Weak(named, human)
           ready == IF waits /\ ~weak THEN Confirm(s, p, [named EXCEPT !.codes = {}], FALSE) ELSE s
       IN Done(Commit(ready, c, p, weak, orphan, [made |-> {}, chosen |-> IF p \in Live(s) THEN chosen ELSE {}]),
               orphan = None /\ ~waits)
     ELSE IF orphan # None THEN
       LET weak == Weak(named, human)
           ready == Confirm(s, orphan, [named EXCEPT !.codes = @ \cup {c}], weak)
       IN Done(Commit(ready, c, orphan, weak, None, also(ready, orphan)), FALSE)
     ELSE
       LET weak == Weak(named, FALSE)
           ready == Confirm(Mint(s, Placeholder(c)), Len(s.products) + 1, named, weak)
           minted == [ready EXCEPT !.products[Len(s.products) + 1].provisional = FALSE]
       IN Done(Commit(minted, c, Len(minted.products), weak, None, also(minted, Len(minted.products))),
               ~weak)

\* Action link_existing.
LinkTo(s, c, p) ==
  LET orphan == IF Orphan(s, c) = p THEN None ELSE Orphan(s, c)
  IN Done(Commit(s, c, p, FALSE, orphan, [made |-> {}, chosen |-> {}]), orphan = None)

\* applyToCount: with nothing to merge, the code is scanned for the person.
Conclude(r, c, apply) ==
  IF r.rescan /\ apply
  THEN /\ \E ask \in BOOLEAN : /\ store' = ScanOf(r.store, c, ask)
                              /\ decode' = Asked(r.store, c, ask, decode)
       /\ applied' = applied + 1
  ELSE store' = r.store /\ UNCHANGED <<decode, applied>>

-----------------------------------------------------------------------------
(* The decode answers: the store is read afresh, the review is not judged again *)

\* The newest row of the code that does not say known is counted on p.
Late(s, c) == {e \in RowsOf(s, c) : s.feed[e].status # "known"}
CountLate(s, c, p) == IF Late(s, c) = {} THEN s ELSE CountRow(s, p, Max(Late(s, c)))
\* That row was decided before, so a decision or an earlier answer has counted it.
CountedTwice(s, c, p) ==
  IF Late(s, c) # {} /\ Max(Late(s, c)) \notin s.products[p].events
     /\ s.feed[Max(Late(s, c))].status # "needs_review" THEN 1 ELSE 0

Quiet(s, c) ==
  [s EXCEPT !.feed = [e \in DOMAIN @ |->
     IF @[e].code = c THEN [@[e] EXCEPT !.decoding = FALSE] ELSE @[e]]]
Keep(id, other) == IF id # None THEN id ELSE other

Answered(c) == decode[c] = "asked" /\ decode' = [decode EXCEPT ![c] = "idle"]

\* No answer: network, rate limit, cap or timeout.
Fail(c) ==
  LET own == First(Carriers(store, c))
      p == Keep(own, Len(store.products) + 1)
      s == IF own = None THEN Mint(store, Placeholder(c)) ELSE store
      counted == Quiet(CountLate(s, c, p), c)
  IN /\ Answered(c)
     /\ store' = [counted EXCEPT
          !.reviews[c].provisional = Keep(@, p),
          !.reviews[c].name = IF @ = "empty" THEN "guess" ELSE @]
     /\ again' = again + CountedTwice(s, c, p)
     /\ UNCHANGED <<scans, acts, applied, renamed>>

Written(s, c, a) ==
  Quiet([s EXCEPT !.reviews[c].name = a.name, !.reviews[c].codes = a.codes], c)

\* Where an answer short of verified puts the code: on the counted product that
\* has one of its codes, else on its own, made for it if it has none.
Placed(s, c, a) ==
  LET own == First(Carriers(s, c))
      twin == IF a.name = "empty" THEN None
              ELSE First({p \in Live(s) \ {own} : /\ ~s.products[p].provisional
                                                  /\ s.products[p].codes \cap a.codes # {}})
      learnt == LearnAll(s, {c}, twin)
      named == IF a.name = "empty" THEN "floor" ELSE a.name
  IN IF twin \in Counted(s)
     THEN [store |-> IF own = None THEN learnt ELSE Transfer(learnt, own, twin), on |-> twin]
     ELSE IF own = None
     THEN [store |-> Mint(s, [Placeholder(c) EXCEPT !.name = named, !.codes = @ \cup a.codes]),
           on |-> Len(s.products) + 1]
     ELSE [store |-> IF a.name = "empty" THEN s
                     ELSE [s EXCEPT !.products[own].name = named,
                                    !.products[own].codes = @ \cup a.codes],
           on |-> own]

\* Mutant: the inline suggestion parks the review whatever it is.
AlwaysParked(r, then) ==
  IF then = "close" THEN [r EXCEPT !.status = "resolved", !.by = "auto"]
  ELSE IF then = "park" THEN [r EXCEPT !.status = "suggested", !.offered = "pending"] ELSE r

\* What becomes of the review: autoSuggestApplied closes it whatever it says,
\* the inline suggestion parks it if it is open.
Disposed(r, then) ==
  IF then = "close" THEN [r EXCEPT !.status = "resolved", !.by = "auto"]
  ELSE IF then = "park"
  THEN [r EXCEPT !.status = IF @ = "open" THEN "suggested" ELSE @,
                 !.offered = IF @ = "no" THEN "pending" ELSE @]
  ELSE r

Suggest(c, a) ==
  LET placed == Placed(Written(store, c, a), c, a)
      s == CountLate(placed.store, c, placed.on)
      own == First({p \in Live(s) : s.products[p].provisional /\ s.products[p].primary = c})
      kept == [s.reviews[c] EXCEPT !.provisional = Keep(@, own)]
  IN /\ Answered(c)
     /\ store' = [s EXCEPT !.reviews[c] = Disposed(kept, a.then)]
     /\ again' = again + CountedTwice(placed.store, c, placed.on)
     /\ renamed' = IF placed.on \in Carriers(store, c) /\ store.products[placed.on].verified
                   THEN renamed \cup {placed.on} ELSE renamed
     /\ UNCHANGED <<scans, acts, applied>>

\* The evidence gate passed: resolveUnknown is called, and heeds the review.
Verify(c, a, alike) ==
  LET s == Written(store, c, a)
      r == CreateNew(s, c, [name |-> a.name, codes |-> a.codes], FALSE, alike, {})
      over == [decode EXCEPT ![c] = "idle"]
  IN /\ decode[c] = "asked"
     /\ IF s.reviews[c].status \in Awaiting /\ r.rescan
        THEN /\ applied < MaxScans /\ applied' = applied + 1
             /\ \E ask \in BOOLEAN : /\ store' = ScanOf(r.store, c, ask)
                                    /\ decode' = Asked(r.store, c, ask, over)
        ELSE /\ store' = IF s.reviews[c].status \in Awaiting THEN r.store ELSE s
             /\ decode' = over /\ UNCHANGED applied
     /\ UNCHANGED <<scans, acts, again, renamed>>

-----------------------------------------------------------------------------
(* What a person does *)

Act == acts < MaxActs /\ acts' = acts + 1 /\ UNCHANGED <<scans, renamed>>

\* reopenNeedsReview: a review there is keeps its provisional product.
Reopened(s, c) ==
  [s EXCEPT !.reviews[c].status = "open", !.reviews[c].by = None,
            !.reviews[c].name = None, !.reviews[c].codes = {}]

Ignore(c) ==
  /\ Act /\ store.reviews[c].status \in Awaiting
  /\ store' = [store EXCEPT !.reviews[c].status = "ignored", !.reviews[c].by = "human"]
  /\ UNCHANGED <<decode, again, applied>>

Link(c, p, apply) ==
  /\ Act /\ store.reviews[c].status \in Awaiting /\ p \in Live(store)
  /\ UNCHANGED again
  /\ Conclude(LinkTo(store, c, p), c, apply)

\* The tag of the rows is settled when the review no longer waits.
Tagged(r, c) ==
  [r EXCEPT !.store.reviews[c].offered =
     IF @ = "pending" /\ r.store.reviews[c].status \notin Awaiting THEN "settled" ELSE @]

\* confirmRowIdentity: the review of a row to name, reopened if it must be.
ToName(s, c, e) ==
  LET r == s.reviews[c]
  IN IF r.status \in Awaiting THEN s
     ELSE IF r.status = "resolved" /\ r.by = "auto"
     THEN [s EXCEPT !.reviews[c].status = "open", !.reviews[c].by = None]
     ELSE [Reopened(s, c) EXCEPT !.reviews[c].provisional = Keep(@, s.feed[e].product)]

Type(c, e, codes, alike) ==
  /\ Act /\ e \in RowsOf(store, c)
  /\ store.reviews[c].offered # "settled"
  /\ \A a \in store.aliases : ~(a.code = c /\ a.approved)
  /\ LET r == store.reviews[c]
     IN r.status = "resolved" /\ r.by = "auto" /\ r.provisional # None
          => ~store.products[r.provisional].verified
  /\ UNCHANGED again
  /\ Conclude(Tagged(CreateNew(ToName(store, c, e), c, [name |-> "human", codes |-> codes],
                               TRUE, alike, {}), c), c, TRUE)

\* batchApprove, and approveSuggestion through it: a suggestion that cannot be
\* taken goes to the open queue.
Untagged(r, c) ==
  IF r.held /\ r.store.reviews[c].status = "suggested"
  THEN [r EXCEPT !.store.reviews[c].status = "open", !.store.reviews[c].offered = "no"]
  ELSE r

Accept(c, alike) ==
  LET r == store.reviews[c]
  IN /\ Act /\ r.status \in Awaiting /\ r.name \in {"guess", "backed"} /\ UNCHANGED again
     /\ Conclude(Untagged(Tagged(CreateNew(store, c, [name |-> r.name, codes |-> r.codes],
                                           FALSE, alike, r.codes), c), c), c, TRUE)

\* declineSuggestion: the row gets its placeholder name back, then the review opens.
Decline(c, e) ==
  LET p == Keep(store.feed[e].product, store.reviews[c].provisional)
      refused == IF p # None /\ store.products[p].provisional /\ ~store.products[p].verified
                 THEN [store EXCEPT !.products[p].name = "floor"] ELSE store
  IN /\ Act /\ e \in RowsOf(store, c) /\ store.reviews[c].offered = "pending"
     /\ store' = Reopened([refused EXCEPT !.reviews[c].offered = "settled"], c)
     /\ UNCHANGED <<decode, again, applied>>

Retry(c) ==
  /\ Act /\ store.reviews[c].status = "open" /\ decode[c] = "idle"
  /\ decode' = [decode EXCEPT ![c] = "queued"]
  /\ UNCHANGED <<store, again, applied>>

-----------------------------------------------------------------------------
(* markWrong: the units go to placeholders of the codes they were scanned with *)

\* The approved aliases and the trust of p are withdrawn, its rows reopened, its
\* count row dropped.
Withdrawn(s, p, codes) ==
  [s EXCEPT
     !.aliases = {IF a.product = p /\ a.code \in codes THEN [a EXCEPT !.approved = FALSE]
                  ELSE a : a \in @},
     !.products[p].verified = FALSE, !.products[p].qty = 0, !.products[p].events = {},
     !.feed = [e \in DOMAIN @ |-> IF @[e].product = p
                 THEN [@[e] EXCEPT !.product = None, !.status = "needs_review"] ELSE @[e]]]

\* Mutant: every reopened code gets a placeholder of its own.
RehomedApart(r, p, c) ==
  LET s == r.store
      heir == Len(s.products) + 1
      pending == {e \in RowsOf(s, c) : s.feed[e].product = None /\ s.feed[e].status = "needs_review"}
  IN [r EXCEPT !.store = CountRows(Mint(s, Placeholder(c)), heir, pending),
               !.heirs = @ \cup {<<c, heir>>}]

\* One code: ensureProvisionalCount, which counts the newest row that does not
\* say known whoever has decided it, then each row that was reopened.
Rehomed(r, p, c) ==
  LET s == r.store
      there == First(Carriers(s, c))
      heir == Keep(there, Len(s.products) + 1)
      minted == Mint(s, Placeholder(c))
      made == IF there = None THEN CountLate(minted, c, heir) ELSE s
      pending == {e \in RowsOf(made, c) : made.feed[e].product = None
                                          /\ made.feed[e].status = "needs_review"}
      twice == IF there = None THEN CountedTwice(minted, c, heir) ELSE 0
  IN IF heir # p /\ made.products[heir].provisional
     THEN [store |-> CountRows(made, heir, pending), heirs |-> r.heirs \cup {<<c, heir>>},
           twice |-> r.twice + twice]
     ELSE [r EXCEPT !.store = made, !.twice = @ + twice]

AllRehomed(start, p, codes) == FoldSet(LAMBDA c, r : Rehomed(r, p, c), start, codes)

\* The units no row accounts for go on one of the placeholders.
Kept(r, events) == {e \in events : \E h \in r.heirs : r.store.feed[e].product = h[2]}
Residue(r, units, events) ==
  LET rest == units - Cardinality(Kept(r, events))
      h == CHOOSE x \in r.heirs : TRUE
      row == NewRow(r.store, h[1], h[2], "known", FALSE)
  IN IF rest <= 0 \/ r.heirs = {} THEN r.store
     ELSE [row EXCEPT !.products[h[2]].qty = @ + rest,
                      !.products[h[2]].events = @ \cup {Len(row.feed)}]

MarkWrong(p, first) ==
  LET mine == {e \in DOMAIN store.feed : store.feed[e].product = p}
      product == store.products[p]
      on(E) == {store.feed[e].code : e \in E}
      seen == on(mine \cup product.events)
      homes == IF mine # {} THEN on(mine) ELSE on(product.events)
      start == [store |-> Withdrawn(store, p, seen), heirs |-> {}, twice |-> 0]
      moved == AllRehomed(start, p, homes)
      \* Rows that were not on p's books, and rows left open that a residue stands for.
      doubled == IF moved.heirs = {} THEN mine \ product.events
                 ELSE mine \ Kept(moved, product.events)
  IN /\ Act /\ product.qty > 0 /\ first \in seen
     /\ first = IF mine # {} THEN store.feed[Max(mine)].code ELSE first
     /\ store' = LET s == Residue(moved, product.qty, product.events)
                 IN Reopened(s, first)
     /\ again' = again + moved.twice + Cardinality(doubled)
     /\ UNCHANGED <<decode, applied>>

-----------------------------------------------------------------------------
\* What a decoder may say of c: nothing of use, a guess, or an identity with
\* evidence, which may carry other codes; it is kept, parked or applied.
Answers(c) ==
  {[name |-> "empty", codes |-> {}, then |-> "keep"]} \cup
  {[name |-> "guess", codes |-> {}, then |-> t] : t \in {"keep", "park", "close"}} \cup
  {[name |-> "backed", codes |-> C, then |-> t] :
     C \in SUBSET (Codes \ {c}), t \in {"keep", "park", "close"}}

Next ==
  \/ \E c \in Codes : Start(c) \/ Fail(c) \/ Ignore(c) \/ Retry(c)
  \/ \E c \in Codes, ask \in BOOLEAN : Scan(c, ask)
  \/ \E c \in Codes : \E a \in Answers(c) : Suggest(c, a)
  \/ \E c \in Codes, alike \in BOOLEAN : \E a \in Answers(c) :
       a.name = "backed" /\ a.then = "keep" /\ Verify(c, a, alike)
  \/ \E c \in Codes, apply \in BOOLEAN, p \in DOMAIN store.products : Link(c, p, apply)
  \/ \E c \in Codes, alike \in BOOLEAN : Accept(c, alike)
  \/ \E c \in Codes, alike \in BOOLEAN : \E e \in RowsOf(store, c), C \in SUBSET (Codes \ {c}) :
       Type(c, e, C, alike)
  \/ \E c \in Codes : \E e \in RowsOf(store, c) : Decline(c, e)
  \/ \E p \in DOMAIN store.products, c \in Codes : MarkWrong(p, c)

Spec == Init /\ [][Next]_vars

-----------------------------------------------------------------------------
(* Properties *)

\* The top law read from above: no unit is on the books that nobody scanned.
\* Two operations do count a row a second time and are kept apart in again: an
\* answer that finds the row relabelled by a decision (reviewSlice.ts 602-620,
\* then decodeSlice.ts 1531-1558), and markWrong, by the same search for a row
\* that does not say known (scanSlice.ts 925), of rows counted elsewhere, or by
\* a residue for a row it leaves open.  Merging, confirming, approving and
\* moving never do.
NothingInvented == Units(store) <= scans + applied + again

\* And from below: a row shown as counted is on the books of the product it
\* shows, wherever merges, late answers and markWrong have carried its count.
KnownIsCounted ==
  \A e \in DOMAIN store.feed : store.feed[e].status = "known" =>
    store.feed[e].product # None /\ e \in store.products[store.feed[e].product].events

\* The units scanned with a code never split over two placeholders of that code,
\* whoever makes one: the scan, a failed decode, an answer or markWrong; unless
\* a code has been linked to a placeholder, which revives one left behind.
OnePlaceholder ==
  \A c \in Codes :
    Cardinality({p \in DOMAIN store.products :
                   /\ store.products[p].provisional /\ store.products[p].primary = c
                   /\ \A a \in store.aliases : a.product # p
                   /\ store.products[p].events \cap RowsOf(store, c) # {}}) <= 1

\* A name without evidence never becomes identity: a verified product was named
\* by a person or with evidence, unless a later answer has renamed it.
GuessIsNotIdentity ==
  \A p \in DOMAIN store.products :
    store.products[p].verified => store.products[p].name \in {"human", "backed"} \/ p \in renamed

\* A decided review is reopened by a person or a new scan only; a late answer may
\* close it over the person's head (autoSuggestApplied) but never reopens or parks it.
DecidedStands ==
  [][\A c \in Codes :
       store.reviews[c].status \in {"resolved", "ignored"} /\ acts' = acts /\ scans' = scans
       => store'.reviews[c].status = store.reviews[c].status \/ store'.reviews[c].by = "auto"]_vars

\* The top law as decodeSlice.ts 1531 and reviewSlice.ts 631 claim it: N scans
\* are N units whatever has been asked, answered and decided ("idempotent by event
\* id"), but for the scans a decision makes.  An answer to a code that was linked
\* meanwhile counts the event again, on another product.
ScanNCountN == Units(store) = scans + applied
=============================================================================
