---------------------------- MODULE ReviewsProofs ----------------------------
(***************************************************************************)
(* Proofs about Reviews, for any number of users, reviews, ratings and     *)
(* concurrent requests.                                                    *)
(***************************************************************************)
EXTENDS Reviews, FiniteSetTheorems, WellFoundedInduction, TLAPS

(* -------------------------- Rows, figures, requests -------------------- *)

LEMMA NoRowType == NoRow \in Row /\ ~(NoRow.reviewer \in Users)
  BY ReviewsAssumption DEF NoRow, Row, ReviewsAssumption

\* What the columns of a row may be given.
LEMMA RowChange ==
    ASSUME NEW a \in Row
    PROVE  /\ \A u \in Users, q \in Ratings :
                  [NoRow EXCEPT !.reviewer = u, !.rating = q] \in Row
           /\ \A q \in Ratings : [a EXCEPT !.rating = q] \in Row
           /\ \A h \in BOOLEAN : [a EXCEPT !.hidden = h] \in Row
           /\ \A x \in Texts : [a EXCEPT !.response = x] \in Row
  BY NoRowType DEF NoRow, Row

LEMMA OverlayRow ==
    ASSUME NEW a \in Row, NEW b \in Row, NEW cols \in SUBSET Columns
    PROVE  /\ Overlay(a, cols, b) \in Row
           /\ \A c \in Columns : Overlay(a, cols, b)[c] =
                                     IF c \in cols THEN a[c] ELSE b[c]
  BY DEF Row, Overlay, Columns

LEMMA OverlayFigures ==
    ASSUME NEW a \in Provider, NEW b \in Provider, NEW cols \in SUBSET Figures
    PROVE  /\ Overlay(a, cols, b) \in Provider
           /\ \A c \in Figures : Overlay(a, cols, b)[c] =
                                     IF c \in cols THEN a[c] ELSE b[c]
  BY DEF Provider, Overlay, Figures

\* The number of reviews found is a number, the mean one of the possible means.
LEMMA FoundFigures ==
    ASSUME NEW found \in Ratings0
    PROVE  Count(found) \in Nat /\ Mean(found) \in Means
  <1>1. IsFiniteSet({r \in Reviews : found[r] # 0})
    BY ReviewsAssumption, FS_Subset DEF ReviewsAssumption
  <1> QED
    BY <1>1, FS_CardinalityType DEF Count, Means

LEMMA IdleType == Idle \in Request /\ NoFigures \in Provider /\ NoReviews \in Ratings0
  <1>1. NoReviews \in Ratings0
    BY DEF NoReviews, Ratings0
  <1>2. NoFigures \in Provider
    BY <1>1, FoundFigures DEF NoFigures, Provider
  <1> QED
    BY <1>1, <1>2, NoRowType DEF Idle, Request

LEMMA VisibleType == TypeOK => Visible \in Ratings0
  BY DEF TypeOK, Visible, Ratings0, Row

\* Two requests that differ at most in that q has become stale.
Same(q, p) ==
    /\ q.pc = p.pc /\ q.op = p.op /\ q.review = p.review /\ q.row = p.row
    /\ q.cols = p.cols /\ q.found = p.found /\ q.provider = p.provider
    /\ q.figures = p.figures
    /\ p.stale => q.stale

LEMMA Stale ==
    ASSUME NEW p \in Request
    PROVE  /\ [p EXCEPT !.stale = TRUE] \in Request
           /\ Same([p EXCEPT !.stale = TRUE], p) /\ Same(p, p)
           /\ [p EXCEPT !.stale = TRUE].stale
  BY DEF Request, Same

LEMMA FollowType ==
    ASSUME NEW p \in Request
    PROVE  /\ Follow(p) \in Request
           /\ p.op \in Recalculating => /\ Follow(p).pc = "findReviews"
                                        /\ Follow(p).op = p.op
           /\ p.op \notin Recalculating => Follow(p).pc = "idle"
           /\ \A r \in Reviews : /\ [Follow(p) EXCEPT !.review = r] \in Request
                                 /\ [Follow(p) EXCEPT !.review = r].pc = Follow(p).pc
                                 /\ [Follow(p) EXCEPT !.review = r].op = Follow(p).op
  <1>1. CASE p.op \in Recalculating
    <2>1. p.op \in Operations /\ p.review \in Reviews \union {None}
      BY <1>1 DEF Request, Operations
    <2>2. Follow(p) = [Idle EXCEPT !.pc = "findReviews", !.op = p.op, !.review = p.review]
      BY <1>1 DEF Follow
    <2>3. /\ Follow(p) \in Request /\ Follow(p).pc = "findReviews"
          /\ Follow(p).op = p.op
      BY <2>1, <2>2, IdleType DEF Request
    <2> QED
      BY <1>1, <2>3 DEF Request
  <1>2. CASE p.op \notin Recalculating
    <2>1. Follow(p) = Idle
      BY <1>2 DEF Follow
    <2>2. Idle.pc = "idle"
      BY DEF Idle
    <2> QED
      BY <1>2, <2>1, <2>2, IdleType DEF Request
  <1> QED
    BY <1>1, <1>2

\* A write of review r ends the writer's save and makes every request stale that
\* is about to save r or has added the reviews up.
LEMMA CommittedType ==
    ASSUME TypeOK, NEW s \in Slots, NEW r \in Reviews, NEW after \in Request,
           Committed(s, r, after)
    PROVE  /\ req' \in [Slots -> Request]
           /\ req'[s] = after
           /\ \A t \in Slots \ {s} :
                 /\ Same(req'[t], req[t])
                 /\ req[t].pc \in Saving /\ req[t].review = r => req'[t].stale
                 /\ req[t].pc \in Recalculation /\ req[t].op # "completeJob"
                       => req'[t].stale
  <1>1. \A t \in Slots : req[t] \in Request
    BY DEF TypeOK
  <1>2. \A t \in Slots \ {s} : req'[t] \in {req[t], [req[t] EXCEPT !.stale = TRUE]}
    BY DEF Committed
  <1>3. \A t \in Slots \ {s} : req'[t] \in Request /\ Same(req'[t], req[t])
    BY <1>1, <1>2, Stale
  <1>4. ASSUME NEW t \in Slots \ {s},
               \/ req[t].pc \in Saving /\ req[t].review = r
               \/ req[t].pc \in Recalculation /\ req[t].op # "completeJob"
        PROVE  req'[t].stale
    <2>1. req'[t] = [req[t] EXCEPT !.stale = TRUE]
      BY <1>4 DEF Committed
    <2> QED
      BY <1>1, <2>1, Stale
  <1>5. req'[s] = after /\ req' = [t \in Slots |-> req'[t]]
    BY DEF Committed
  <1> QED
    BY <1>3, <1>4, <1>5

(* --------------------------- Type correctness -------------------------- *)

\* The operations that save a review they have read.
Changing == (Recalculating \union Responses \union {"verifyReview"})
               \ {"createReview", "deleteReview"}

\* What a request is about, by how far it has come.
Sound(q) ==
    /\ q.pc = "insert" => q.op = "createReview" /\ q.row.reviewer \in Users
    /\ q.pc \in {"diff", "update", "reinsert"} =>
           /\ q.review \in Reviews /\ q.review \in used
           /\ q.op \in Changing /\ q.row.reviewer \in Users
    /\ q.pc = "remove" => q.review \in Reviews /\ q.op = "deleteReview"
    /\ q.pc = "findReviews" => q.op \in Recalculating

\* The row an operation makes of the one it read: its own column apart, the same.
Honest(op, base, row) ==
    /\ base.reviewer \in Users /\ row.reviewer = base.reviewer
    /\ op # "updateReview" => row.rating = base.rating
    /\ op \notin {"hideReview", "unhideReview"} => row.hidden = base.hidden
    /\ op = "hideReview" => row.hidden
    /\ op = "unhideReview" => ~row.hidden
    /\ op \notin Responses => row.response = base.response
    /\ op = "addProviderResponse" => base.response = None

\* A stored review has an author, a review not stored is NoRow, and the keys of
\* the stored ones are given out.
Tables == \A r \in Reviews : \/ review[r] = NoRow
                             \/ review[r].reviewer \in Users /\ r \in used

Typed == TypeOK /\ Tables /\ \A s \in Slots : Sound(req[s])

LEMMA BeginType ==
    ASSUME TypeOK, NEW s \in Slots, NEW pc \in {"insert", "diff", "remove", "findProvider"},
           NEW op \in Operations, NEW r \in Reviews \union {None}, NEW row \in Row,
           Begin(s, pc, op, r, row)
    PROVE  /\ TypeOK'
           /\ req'[s].pc = pc /\ req'[s].op = op /\ req'[s].review = r
           /\ req'[s].row = row /\ ~req'[s].stale
           /\ \A t \in Slots \ {s} : req'[t] = req[t]
  <1> DEFINE q == [Idle EXCEPT !.pc = pc, !.op = op, !.review = r, !.row = row]
  <1>1. q \in Request
    BY IdleType DEF Request
  <1>2. /\ q.pc = pc /\ q.op = op /\ q.review = r /\ q.row = row /\ ~q.stale
    BY DEF Idle
  <1>3. req' = [req EXCEPT ![s] = q]
    BY DEF Begin
  <1> HIDE DEF q
  <1>4. req' \in [Slots -> Request] /\ req'[s] = q /\ \A t \in Slots \ {s} : req'[t] = req[t]
    BY <1>1, <1>3 DEF TypeOK
  <1>5. /\ UNCHANGED <<review, provider, used, raced, astray, counted, crossed>>
        /\ begun' = begun + 1
    BY DEF Begin
  <1>6. begun' \in Nat
    BY <1>5 DEF TypeOK
  <1> QED
    BY <1>2, <1>4, <1>5, <1>6 DEF TypeOK

LEMMA HandleBegins ==
    ASSUME Typed, NEW s \in Slots, NEW u \in Users, NEW r \in Reviews, Handle(s, u, r)
    PROVE  \E op \in Operations, row \in Row :
              \/ /\ op = "deleteReview" /\ row.reviewer \in Users
                 /\ Begin(s, "remove", op, r, row)
              \/ /\ op \in Changing /\ Honest(op, review[r], row)
                 /\ Begin(s, "diff", op, r, row)
  <1> DEFINE base == review[r]
  <1>1. base \in Row /\ base.hidden \in BOOLEAN
    BY DEF Typed, TypeOK, Row
  <1>2. base.reviewer \in Users
    <2>1. base.reviewer # None
      BY ReviewsAssumption DEF Handle, UpdateReview, UpdateComment, DeleteReview,
         VerifyReview, HideReview, UnhideReview, AddProviderResponse,
         UpdateProviderResponse, Stored, ReviewsAssumption
    <2> QED
      BY <1>1, <2>1 DEF Row
  <1>3. CASE \E q \in Ratings : UpdateReview(s, u, r, q)
    <2>1. PICK q \in Ratings : UpdateReview(s, u, r, q)
      BY <1>3
    <2>2. /\ [base EXCEPT !.rating = q] \in Row
          /\ Honest("updateReview", base, [base EXCEPT !.rating = q])
      BY <1>1, <1>2, RowChange DEF Honest, Row, Responses
    <2> QED
      BY <2>1, <2>2 DEF UpdateReview, Changing, Operations, Recalculating
  <1>4. CASE UpdateComment(s, u, r)
    BY <1>1, <1>2, <1>4 DEF UpdateComment, Honest, Changing, Operations, Recalculating,
       Responses
  <1>5. CASE DeleteReview(s, u, r)
    BY <1>1, <1>2, <1>5 DEF DeleteReview, Operations, Recalculating
  <1>6. CASE VerifyReview(s, u, r)
    BY <1>1, <1>2, <1>6 DEF VerifyReview, Honest, Changing, Operations, Recalculating,
       Responses
  <1>7. CASE HideReview(s, u, r)
    <2>1. /\ [base EXCEPT !.hidden = TRUE] \in Row
          /\ Honest("hideReview", base, [base EXCEPT !.hidden = TRUE])
      BY <1>1, <1>2, RowChange DEF Honest, Row, Responses
    <2> QED
      BY <1>7, <2>1 DEF HideReview, Changing, Operations, Recalculating
  <1>8. CASE UnhideReview(s, u, r)
    <2>1. /\ [base EXCEPT !.hidden = FALSE] \in Row
          /\ Honest("unhideReview", base, [base EXCEPT !.hidden = FALSE])
      BY <1>1, <1>2, RowChange DEF Honest, Row, Responses
    <2> QED
      BY <1>8, <2>1 DEF UnhideReview, Changing, Operations, Recalculating
  <1>9. CASE \E x \in Texts : \/ AddProviderResponse(s, u, r, x)
                              \/ UpdateProviderResponse(s, u, r, x)
    <2>1. PICK x \in Texts : \/ AddProviderResponse(s, u, r, x)
                             \/ UpdateProviderResponse(s, u, r, x)
      BY <1>9
    <2>2. /\ [base EXCEPT !.response = x] \in Row
          /\ Honest("updateProviderResponse", base, [base EXCEPT !.response = x])
          /\ base.response = None =>
                 Honest("addProviderResponse", base, [base EXCEPT !.response = x])
      BY <1>1, <1>2, RowChange DEF Honest, Row, Responses
    <2> QED
      BY <2>1, <2>2 DEF AddProviderResponse, UpdateProviderResponse, Changing,
         Operations, Responses
  <1> QED
    BY <1>3, <1>4, <1>5, <1>6, <1>7, <1>8, <1>9 DEF Handle

\* What a step of the recalculation leaves of the requests.
LEMMA OneRequest ==
    ASSUME TypeOK, NEW s \in Slots, NEW q \in Request, req' = [req EXCEPT ![s] = q]
    PROVE  /\ req' \in [Slots -> Request] /\ req'[s] = q
           /\ \A t \in Slots \ {s} : req'[t] = req[t]
  BY DEF TypeOK

\* Diff: on to the insert, done, or on to the update of what differs.
LEMMA DiffStep ==
    ASSUME TypeOK, NEW s \in Slots, Diff(s)
    PROVE  \E q \in Request :
              /\ req' = [req EXCEPT ![s] = q]
              /\ \/ q = Follow(req[s])
                 \/ /\ q.pc \in {"update", "reinsert"} /\ q.op = req[s].op
                    /\ q.review = req[s].review /\ q.row = req[s].row
                    /\ q.stale = req[s].stale
                    /\ q.pc = "reinsert" => ~Stored(q.review)
                    /\ q.pc = "update" => q.cols = Changed(s)
  <1> DEFINE p == req[s]
             reinsert == [p EXCEPT !.pc = "reinsert"]
             update == [p EXCEPT !.pc = "update", !.cols = Changed(s)]
  <1>1. p \in Request /\ Changed(s) \in SUBSET Columns
    BY DEF TypeOK, Changed
  <1>2. /\ reinsert \in Request /\ update \in Request
        /\ reinsert.pc = "reinsert" /\ reinsert.op = p.op /\ reinsert.review = p.review
        /\ reinsert.row = p.row /\ reinsert.stale = p.stale
        /\ update.pc = "update" /\ update.op = p.op /\ update.review = p.review
        /\ update.row = p.row /\ update.stale = p.stale /\ update.cols = Changed(s)
    BY <1>1 DEF Request
  <1>3. \/ req' = [req EXCEPT ![s] = reinsert] /\ ~Stored(p.review)
        \/ req' = [req EXCEPT ![s] = Follow(p)]
        \/ req' = [req EXCEPT ![s] = update]
    BY DEF Diff
  <1>4. Follow(p) \in Request
    BY <1>1, FollowType
  <1> HIDE DEF p, reinsert, update
  <1>5. CASE req' = [req EXCEPT ![s] = reinsert] /\ ~Stored(p.review)
    BY <1>2, <1>5 DEF p
  <1>6. CASE req' = [req EXCEPT ![s] = Follow(p)]
    BY <1>4, <1>6 DEF p
  <1>7. CASE req' = [req EXCEPT ![s] = update]
    BY <1>2, <1>7 DEF p
  <1> QED
    BY <1>3, <1>5, <1>6, <1>7

\* The recalculation's own steps: what the requests hold after them.
LEMMA FindReviewsStep ==
    ASSUME TypeOK, NEW s \in Slots, FindReviews(s)
    PROVE  \E q \in Request :
              /\ req' = [req EXCEPT ![s] = q]
              /\ q.pc = "findProvider" /\ q.op = req[s].op /\ q.found = Visible
  <1> DEFINE q == [req[s] EXCEPT !.pc = "findProvider", !.found = Visible]
  <1>1. req[s] \in Request
    BY DEF TypeOK
  <1>2. /\ q \in Request /\ q.pc = "findProvider" /\ q.op = req[s].op
        /\ q.found = Visible
    BY <1>1, VisibleType DEF Request
  <1>3. req' = [req EXCEPT ![s] = q]
    BY DEF FindReviews
  <1> HIDE DEF q
  <1> QED
    BY <1>2, <1>3

LEMMA FindProviderStep ==
    ASSUME TypeOK, NEW s \in Slots, FindProvider(s)
    PROVE  \E q \in Request :
              /\ req' = [req EXCEPT ![s] = q]
              /\ q.pc = "diffProvider" /\ q.op = req[s].op /\ q.found = req[s].found
              /\ q.stale = req[s].stale
              /\ q.op = "completeJob" =>
                    /\ q.provider.rating = provider.rating
                    /\ q.provider.reviewCount = provider.reviewCount
                    /\ q.provider.completedJobs = provider.completedJobs + 1
              /\ q.op # "completeJob" =>
                    /\ q.provider.rating = Mean(q.found)
                    /\ q.provider.reviewCount = Count(q.found)
                    /\ q.provider.completedJobs = provider.completedJobs
  <1> DEFINE one == [provider EXCEPT !.completedJobs = @ + 1]
             two == [provider EXCEPT !.rating = Mean(req[s].found),
                                     !.reviewCount = Count(req[s].found)]
  <1>1. req[s] \in Request /\ provider \in Provider /\ req[s].found \in Ratings0
    BY DEF TypeOK, Request
  <1>2. /\ one \in Provider /\ one.rating = provider.rating
        /\ one.reviewCount = provider.reviewCount
        /\ one.completedJobs = provider.completedJobs + 1
    BY <1>1 DEF Provider
  <1>3. Mean(req[s].found) \in Means /\ Count(req[s].found) \in Nat
    BY <1>1, FoundFigures
  <1>4. /\ two \in Provider /\ two.rating = Mean(req[s].found)
        /\ two.reviewCount = Count(req[s].found)
        /\ two.completedJobs = provider.completedJobs
    BY <1>1, <1>3 DEF Provider
  <1>5. req' = [req EXCEPT ![s] = [@ EXCEPT !.pc = "diffProvider",
                    !.provider = IF req[s].op = "completeJob" THEN one ELSE two]]
    BY DEF FindProvider
  <1> HIDE DEF one, two
  <1>6. ASSUME NEW x \in Provider
        PROVE  LET q == [req[s] EXCEPT !.pc = "diffProvider", !.provider = x] IN
                 /\ q \in Request /\ q.pc = "diffProvider" /\ q.op = req[s].op
                 /\ q.found = req[s].found /\ q.provider = x /\ q.stale = req[s].stale
    BY <1>1 DEF Request
  <1>7. CASE req[s].op = "completeJob"
    <2> DEFINE q == [req[s] EXCEPT !.pc = "diffProvider", !.provider = one]
    <2>1. req' = [req EXCEPT ![s] = q]
      BY <1>5, <1>7
    <2>2. /\ q \in Request /\ q.pc = "diffProvider" /\ q.op = req[s].op
          /\ q.found = req[s].found /\ q.provider = one /\ q.stale = req[s].stale
      BY <1>2, <1>6
    <2> HIDE DEF q
    <2> QED
      BY <1>2, <1>7, <2>1, <2>2
  <1>8. CASE req[s].op # "completeJob"
    <2> DEFINE q == [req[s] EXCEPT !.pc = "diffProvider", !.provider = two]
    <2>1. req' = [req EXCEPT ![s] = q]
      BY <1>5, <1>8
    <2>2. /\ q \in Request /\ q.pc = "diffProvider" /\ q.op = req[s].op
          /\ q.found = req[s].found /\ q.provider = two /\ q.stale = req[s].stale
      BY <1>4, <1>6
    <2> HIDE DEF q
    <2> QED
      BY <1>4, <1>8, <2>1, <2>2
  <1> QED
    BY <1>7, <1>8

\* What differs between the provider a request holds and the provider's row.
Differ(s) == {c \in Figures : \/ req[s].provider[c] # provider[c]
                              \/ c = "rating" /\ req[s].op # "completeJob"}

LEMMA DiffProviderStep ==
    ASSUME TypeOK, NEW s \in Slots, DiffProvider(s)
    PROVE  \E q \in Request :
              /\ req' = [req EXCEPT ![s] = q]
              /\ \/ q = Idle /\ Differ(s) = {}
                 \/ /\ q.pc = "updateProvider" /\ q.op = req[s].op
                    /\ q.found = req[s].found /\ q.provider = req[s].provider
                    /\ q.stale = req[s].stale /\ q.figures = Differ(s)
  <1> DEFINE q == [req[s] EXCEPT !.pc = "updateProvider", !.figures = Differ(s)]
  <1>1. req[s] \in Request /\ Differ(s) \in SUBSET Figures
    BY DEF TypeOK, Differ
  <1>2. /\ q \in Request /\ q.pc = "updateProvider" /\ q.op = req[s].op
        /\ q.found = req[s].found /\ q.provider = req[s].provider
        /\ q.stale = req[s].stale /\ q.figures = Differ(s)
    BY <1>1 DEF Request
  <1>3. \/ Differ(s) = {} /\ req' = [req EXCEPT ![s] = Idle]
        \/ req' = [req EXCEPT ![s] = q]
    BY DEF DiffProvider, Differ
  <1> HIDE DEF q
  <1> QED
    BY <1>2, <1>3, IdleType

LEMMA UpdateProviderStep ==
    ASSUME TypeOK, NEW s \in Slots, UpdateProvider(s)
    PROVE  /\ req' \in [Slots -> Request] /\ req'[s] = Idle
           /\ \A t \in Slots \ {s} :
                 /\ Same(req'[t], req[t])
                 /\ req[t].pc \in {"diffProvider", "updateProvider"} => req'[t].stale
           /\ provider' \in Provider
           /\ \A c \in Figures : provider'[c] = IF c \in req[s].figures
                                                THEN req[s].provider[c] ELSE provider[c]
  <1>1. \A t \in Slots : req[t] \in Request
    BY DEF TypeOK
  <1>2. req' = [t \in Slots |-> req'[t]] /\ req'[s] = Idle
    BY DEF UpdateProvider
  <1>3. \A t \in Slots \ {s} : req'[t] \in {req[t], [req[t] EXCEPT !.stale = TRUE]}
    BY DEF UpdateProvider
  <1>4. \A t \in Slots \ {s} : req'[t] \in Request /\ Same(req'[t], req[t])
    BY <1>1, <1>3, Stale
  <1>5. ASSUME NEW t \in Slots \ {s}, req[t].pc \in {"diffProvider", "updateProvider"}
        PROVE  req'[t].stale
    <2>1. req'[t] = [req[t] EXCEPT !.stale = TRUE]
      BY <1>5 DEF UpdateProvider
    <2> QED
      BY <1>1, <2>1, Stale
  <1>6. /\ req[s].provider \in Provider /\ req[s].figures \in SUBSET Figures
        /\ provider \in Provider
    BY <1>1 DEF Request, TypeOK
  <1>7. provider' = Overlay(req[s].provider, req[s].figures, provider)
    BY DEF UpdateProvider
  <1> QED
    BY <1>2, <1>4, <1>5, <1>6, <1>7, IdleType, OverlayFigures

LEMMA TypedInit == Init => Typed
  <1> SUFFICES ASSUME Init PROVE Typed
    OBVIOUS
  <1>1. TypeOK
    BY IdleType, NoRowType DEF Init, TypeOK
  <1>2. \A s \in Slots : req[s].pc = "idle"
    BY DEF Init, Idle
  <1>3. \A s \in Slots : Sound(req[s])
    BY <1>2 DEF Sound
  <1>4. Tables
    BY DEF Init, Tables
  <1> QED
    BY <1>1, <1>3, <1>4 DEF Typed

\* A step that hands request s the value q and writes neither table.
LEMMA QuietStep ==
    ASSUME Typed, NEW s \in Slots, NEW q \in Request, Sound(q),
           req' = [req EXCEPT ![s] = q],
           UNCHANGED <<review, provider, begun, used, raced, counted, crossed>>,
           astray' \in BOOLEAN
    PROVE  Typed'
  <1>1. /\ req' \in [Slots -> Request] /\ req'[s] = q
        /\ \A t \in Slots \ {s} : req'[t] = req[t]
    BY OneRequest DEF Typed
  <1>2. \A t \in Slots : Sound(req[t])
    BY DEF Typed
  <1>3. \A t \in Slots : Sound(req'[t])
    BY <1>1, <1>2
  <1>4. TypeOK'
    BY <1>1 DEF Typed, TypeOK
  <1>5. Tables'
    BY DEF Typed, Tables
  <1> QED
    BY <1>3, <1>4, <1>5 DEF Typed, Sound

LEMMA FollowSound == \A p \in Request : Sound(Follow(p))
  <1> SUFFICES ASSUME NEW p \in Request PROVE Sound(Follow(p))
    OBVIOUS
  <1> QED
    BY FollowType DEF Sound

\* A step that writes review r, and whose requests are as Committed says.
LEMMA WriteStep ==
    ASSUME Typed, NEW s \in Slots, NEW r \in Reviews, NEW after \in Request,
           Sound(after), Committed(s, r, after),
           NEW row \in Row, row = NoRow \/ row.reviewer \in Users,
           review' = [review EXCEPT ![r] = row],
           row = NoRow \/ r \in used', used \subseteq used', used' \in SUBSET Reviews,
           UNCHANGED <<provider, begun, counted, crossed>>,
           raced' \in SUBSET Reviews, astray' \in BOOLEAN
    PROVE  Typed'
  <1>1. /\ req' \in [Slots -> Request] /\ req'[s] = after
        /\ \A t \in Slots \ {s} : Same(req'[t], req[t])
    BY CommittedType DEF Typed
  <1>2. \A t \in Slots : Sound(req[t])
    BY DEF Typed
  <1>3. \A t \in Slots : Sound(req'[t])
    BY <1>1, <1>2 DEF Same, Sound
  <1>4. review' \in [Reviews -> Row]
    BY DEF Typed, TypeOK
  <1>5. TypeOK'
    BY <1>1, <1>4 DEF Typed, TypeOK
  <1>6. \A x \in Reviews : review'[x] = IF x = r THEN row ELSE review[x]
    BY DEF Typed, TypeOK
  <1>7. Tables'
    BY <1>6 DEF Typed, Tables
  <1> QED
    BY <1>3, <1>5, <1>7 DEF Typed, Sound

\* What the update of a review writes: the row with some of the object's columns,
\* or what is there when the row is gone.
LEMMA Written ==
    ASSUME Typed, NEW s \in Slots, Update(s)
    PROVE  LET r == req[s].review
               row == IF Stored(r) THEN Overlay(req[s].row, req[s].cols, review[r])
                                   ELSE review[r]
           IN
             /\ r \in Reviews /\ row \in Row
             /\ row = NoRow \/ row.reviewer \in Users
             /\ review' = [review EXCEPT ![r] = row]
             /\ Stored(r) => /\ r \in used
                             /\ \A c \in Columns : row[c] = IF c \in req[s].cols
                                    THEN req[s].row[c] ELSE review[r][c]
             /\ ~Stored(r) => row = NoRow
  <1> DEFINE r == req[s].review
             row == IF Stored(r) THEN Overlay(req[s].row, req[s].cols, review[r])
                                 ELSE review[r]
  <1>0. req[s] \in Request /\ Sound(req[s]) /\ req[s].pc = "update"
    BY DEF Update, Typed, TypeOK
  <1>1. /\ r \in Reviews /\ req[s].row.reviewer \in Users
        /\ req[s].row \in Row /\ req[s].cols \in SUBSET Columns
    BY <1>0 DEF Sound, Request
  <1>10. \A x \in Reviews :
            /\ review[x] \in Row
            /\ review[x] = NoRow \/ (review[x].reviewer \in Users /\ x \in used)
    BY DEF Typed, TypeOK, Tables
  <1>2. /\ review[r] \in Row
        /\ review[r] = NoRow \/ (review[r].reviewer \in Users /\ r \in used)
    BY <1>1, <1>10
  <1>3. Stored(r) <=> review[r].reviewer \in Users
    BY <1>2, ReviewsAssumption DEF Stored, NoRow, Row, ReviewsAssumption
  <1>4. /\ Overlay(req[s].row, req[s].cols, review[r]) \in Row
        /\ \A c \in Columns : Overlay(req[s].row, req[s].cols, review[r])[c] =
               IF c \in req[s].cols THEN req[s].row[c] ELSE review[r][c]
    BY <1>1, <1>2, OverlayRow
  <1>5. Overlay(req[s].row, req[s].cols, review[r]).reviewer =
            IF "reviewer" \in req[s].cols THEN req[s].row.reviewer ELSE review[r].reviewer
    BY <1>4 DEF Columns
  <1>6. review' = IF Stored(r) THEN [review EXCEPT ![r] = Overlay(req[s].row, req[s].cols, @)]
                               ELSE review
    BY DEF Update
  <1>7. review \in [Reviews -> Row]
    BY DEF Typed, TypeOK
  <1>8. review' = [review EXCEPT ![r] = row]
    BY <1>1, <1>6, <1>7
  <1>9. row \in Row /\ (row = NoRow \/ row.reviewer \in Users)
    BY <1>1, <1>2, <1>3, <1>4, <1>5
  <1>11. Stored(r) => /\ r \in used
                      /\ \A c \in Columns : row[c] = IF c \in req[s].cols
                             THEN req[s].row[c] ELSE review[r][c]
    <2> SUFFICES ASSUME Stored(r)
                 PROVE  /\ r \in used
                        /\ \A c \in Columns : row[c] = IF c \in req[s].cols
                               THEN req[s].row[c] ELSE review[r][c]
      OBVIOUS
    <2>1. review[r] # NoRow
      BY <1>3, NoRowType
    <2>2. row = Overlay(req[s].row, req[s].cols, review[r])
      OBVIOUS
    <2> QED
      BY <1>2, <1>4, <2>1, <2>2
  <1>12. ~Stored(r) => row = NoRow
    BY <1>2, <1>3
  <1> QED
    BY <1>1, <1>8, <1>9, <1>11, <1>12

LEMMA TypedStep == Typed /\ [Next]_vars => Typed'
  <1> SUFFICES ASSUME Typed, [Next]_vars PROVE Typed'
    OBVIOUS
  <1>0. /\ TypeOK /\ Tables /\ \A s \in Slots : req[s] \in Request /\ Sound(req[s])
    BY DEF Typed, TypeOK
  <1>1. ASSUME NEW s \in Slots, NEW u \in Users, NEW q \in Ratings, CreateReview(s, u, q)
        PROVE  Typed'
    <2> DEFINE row == [NoRow EXCEPT !.reviewer = u, !.rating = q]
    <2>1. row \in Row /\ row.reviewer = u
      BY RowChange, NoRowType DEF NoRow, Row
    <2>2. Begin(s, "insert", "createReview", None, row)
      BY <1>1 DEF CreateReview
    <2>3. "createReview" \in Operations
      BY DEF Operations, Recalculating
    <2> HIDE DEF row
    <2>4. /\ TypeOK' /\ req'[s].pc = "insert" /\ req'[s].op = "createReview"
          /\ req'[s].row = row /\ \A t \in Slots \ {s} : req'[t] = req[t]
      BY <1>0, <2>1, <2>2, <2>3, BeginType
    <2>5. UNCHANGED <<review, used>>
      BY <2>2 DEF Begin
    <2> QED
      BY <1>0, <2>1, <2>4, <2>5 DEF Typed, Tables, Sound
  <1>2. ASSUME NEW s \in Slots, NEW u \in Users, NEW r \in Reviews, Handle(s, u, r)
        PROVE  Typed'
    <2>1. PICK op \in Operations, row \in Row :
              \/ /\ op = "deleteReview" /\ row.reviewer \in Users
                 /\ Begin(s, "remove", op, r, row)
              \/ /\ op \in Changing /\ Honest(op, review[r], row)
                 /\ Begin(s, "diff", op, r, row)
      BY <1>2, HandleBegins
    <2>2. row.reviewer \in Users /\ (op \in Changing => r \in used)
      BY <1>0, <2>1, NoRowType DEF Honest, Tables, Changing
    <2>3. PICK pc \in {"remove", "diff"} :
              /\ pc = "remove" => op = "deleteReview"
              /\ pc = "diff" => op \in Changing
              /\ Begin(s, pc, op, r, row)
      BY <2>1
    <2>4. /\ TypeOK' /\ req'[s].pc = pc /\ req'[s].op = op /\ req'[s].review = r
          /\ req'[s].row = row /\ \A t \in Slots \ {s} : req'[t] = req[t]
      BY <1>0, <2>3, BeginType
    <2>5. UNCHANGED <<review, used>>
      BY <2>3 DEF Begin
    <2> QED
      BY <1>0, <2>2, <2>3, <2>4, <2>5 DEF Typed, Tables, Sound
  <1>3. ASSUME NEW s \in Slots, CompleteJob(s) PROVE Typed'
    <2>1. Begin(s, "findProvider", "completeJob", None, NoRow)
      BY <1>3 DEF CompleteJob
    <2>2. "completeJob" \in Operations
      BY DEF Operations
    <2>3. /\ TypeOK' /\ req'[s].pc = "findProvider"
          /\ \A t \in Slots \ {s} : req'[t] = req[t]
      BY <1>0, <2>1, <2>2, NoRowType, BeginType
    <2>4. UNCHANGED <<review, used>>
      BY <2>1 DEF Begin
    <2> QED
      BY <1>0, <2>3, <2>4 DEF Typed, Tables, Sound
  <1>4. ASSUME NEW s \in Slots, NEW r \in Reviews, Insert(s, r) PROVE Typed'
    <2> DEFINE after == [Follow(req[s]) EXCEPT !.review = r]
    <2>1. /\ req[s].row \in Row /\ req[s].row.reviewer \in Users
          /\ req[s].op = "createReview"
      BY <1>0, <1>4 DEF Insert, Sound, Request
    <2>2. after \in Request /\ after.pc = "findReviews" /\ after.op = "createReview"
      BY <1>0, <2>1, FollowType DEF Recalculating
    <2>3. Sound(after)
      BY <2>2 DEF Sound, Recalculating
    <2>4. /\ Committed(s, r, after) /\ used' = used \union {r}
          /\ review' = [review EXCEPT ![r] = req[s].row]
          /\ UNCHANGED <<provider, begun, raced, astray, counted, crossed>>
      BY <1>4 DEF Insert
    <2> HIDE DEF after
    <2> QED
      BY <1>0, <2>1, <2>2, <2>3, <2>4, WriteStep DEF TypeOK
  <1>5. ASSUME NEW s \in Slots, Diff(s) PROVE Typed'
    <2>1. PICK q \in Request :
              /\ req' = [req EXCEPT ![s] = q]
              /\ \/ q = Follow(req[s])
                 \/ /\ q.pc \in {"update", "reinsert"} /\ q.op = req[s].op
                    /\ q.review = req[s].review /\ q.row = req[s].row
      BY <1>0, <1>5, DiffStep
    <2>2. Sound(q)
      BY <1>0, <1>5, <2>1, FollowSound DEF Sound, Diff
    <2>3. UNCHANGED <<review, provider, history>>
      BY <1>5 DEF Diff
    <2> QED
      BY <1>0, <2>1, <2>2, <2>3, QuietStep DEF history, TypeOK
  <1>6. ASSUME NEW s \in Slots, Update(s) PROVE Typed'
    <2> DEFINE r == req[s].review
               row == IF Stored(r) THEN Overlay(req[s].row, req[s].cols, review[r])
                                   ELSE review[r]
    <2>1. /\ r \in Reviews /\ row \in Row /\ (row = NoRow \/ row.reviewer \in Users)
          /\ review' = [review EXCEPT ![r] = row]
          /\ Stored(r) => r \in used
          /\ ~Stored(r) => row = NoRow
      BY <1>6, Written
    <2>2. /\ Committed(s, r, Follow(req[s]))
          /\ raced' = IF req[s].stale THEN raced \union {r} ELSE raced
          /\ astray' = (astray \/ (req[s].stale /\ req[s].op \notin Recalculating))
          /\ UNCHANGED <<provider, begun, used, counted, crossed>>
      BY <1>6 DEF Update
    <2>3. Follow(req[s]) \in Request /\ Sound(Follow(req[s]))
      BY <1>0, FollowType, FollowSound
    <2>4. req[s].stale \in BOOLEAN /\ astray \in BOOLEAN
      BY <1>0 DEF TypeOK, Request
    <2>5. astray' \in BOOLEAN
      BY <2>2, <2>4
    <2> HIDE DEF r, row
    <2>6. raced' \in SUBSET Reviews
      BY <1>0, <2>1, <2>2 DEF TypeOK
    <2> QED
      BY <1>0, <2>1, <2>2, <2>3, <2>5, <2>6, WriteStep DEF TypeOK
  <1>7. ASSUME NEW s \in Slots, Reinsert(s) PROVE Typed'
    <2> DEFINE r == req[s].review
    <2>1. /\ r \in Reviews /\ r \in used
          /\ req[s].row \in Row /\ req[s].row.reviewer \in Users
      BY <1>0, <1>7 DEF Reinsert, Sound, Request
    <2>2. /\ Committed(s, r, Follow(req[s]))
          /\ review' = [review EXCEPT ![r] = req[s].row]
          /\ raced' = raced \union {r}
          /\ astray' = (astray \/ req[s].op \notin Recalculating)
          /\ UNCHANGED <<provider, begun, used, counted, crossed>>
      BY <1>7 DEF Reinsert
    <2>3. Follow(req[s]) \in Request /\ Sound(Follow(req[s]))
      BY <1>0, FollowType, FollowSound
    <2>4. astray' \in BOOLEAN
      BY <1>0, <2>2 DEF TypeOK
    <2> HIDE DEF r
    <2>5. raced' \in SUBSET Reviews
      BY <1>0, <2>1, <2>2 DEF TypeOK
    <2> QED
      BY <1>0, <2>1, <2>2, <2>3, <2>4, <2>5, WriteStep DEF TypeOK
  <1>8. ASSUME NEW s \in Slots, Remove(s) PROVE Typed'
    <2> DEFINE r == req[s].review
    <2>1. r \in Reviews
      BY <1>0, <1>8 DEF Remove, Sound
    <2>2. /\ Committed(s, r, Follow(req[s]))
          /\ review' = [review EXCEPT ![r] = NoRow]
          /\ UNCHANGED <<provider, begun, used, raced, astray, counted, crossed>>
      BY <1>8 DEF Remove
    <2>3. Follow(req[s]) \in Request /\ Sound(Follow(req[s]))
      BY <1>0, FollowType, FollowSound
    <2> HIDE DEF r
    <2> QED
      BY <1>0, <2>1, <2>2, <2>3, NoRowType, WriteStep DEF TypeOK
  <1>9. ASSUME NEW s \in Slots, FindReviews(s) PROVE Typed'
    <2>1. PICK q \in Request : /\ req' = [req EXCEPT ![s] = q] /\ q.pc = "findProvider"
      BY <1>0, <1>9, FindReviewsStep
    <2>2. UNCHANGED <<review, provider, history>>
      BY <1>9 DEF FindReviews
    <2>3. Sound(q)
      BY <2>1 DEF Sound
    <2> QED
      BY <1>0, <2>1, <2>2, <2>3, QuietStep DEF history, TypeOK
  <1>10. ASSUME NEW s \in Slots, FindProvider(s) PROVE Typed'
    <2>1. PICK q \in Request : /\ req' = [req EXCEPT ![s] = q] /\ q.pc = "diffProvider"
      BY <1>0, <1>10, FindProviderStep
    <2>2. UNCHANGED <<review, provider, history>>
      BY <1>10 DEF FindProvider
    <2>3. Sound(q)
      BY <2>1 DEF Sound
    <2> QED
      BY <1>0, <2>1, <2>2, <2>3, QuietStep DEF history, TypeOK
  <1>11. ASSUME NEW s \in Slots, DiffProvider(s) PROVE Typed'
    <2>1. PICK q \in Request : /\ req' = [req EXCEPT ![s] = q]
                               /\ q = Idle \/ q.pc = "updateProvider"
      BY <1>0, <1>11, DiffProviderStep
    <2>2. UNCHANGED <<review, provider, history>>
      BY <1>11 DEF DiffProvider
    <2>3. Sound(q)
      BY <2>1 DEF Sound, Idle
    <2> QED
      BY <1>0, <2>1, <2>2, <2>3, QuietStep DEF history, TypeOK
  <1>12. ASSUME NEW s \in Slots, UpdateProvider(s) PROVE Typed'
    <2>1. /\ req' \in [Slots -> Request] /\ req'[s] = Idle /\ provider' \in Provider
          /\ \A t \in Slots \ {s} : Same(req'[t], req[t])
      BY <1>0, <1>12, UpdateProviderStep
    <2>2. \A t \in Slots : Sound(req'[t])
      BY <1>0, <2>1 DEF Same, Sound, Idle
    <2>3. req[s].stale \in BOOLEAN
      BY <1>0 DEF Request
    <2>4. /\ astray' = IF req[s].op = "completeJob" THEN astray \/ req[s].stale
                                                    ELSE req[s].stale
          /\ counted' = IF req[s].op = "completeJob" THEN counted + 1 ELSE counted
          /\ crossed' = (crossed \/ req[s].stale)
          /\ UNCHANGED <<review, begun, used, raced>>
      BY <1>12 DEF UpdateProvider
    <2>5. astray' \in BOOLEAN /\ crossed' \in BOOLEAN
      BY <1>0, <2>3, <2>4 DEF TypeOK
    <2>6. counted' \in Nat
      BY <1>0, <2>4 DEF TypeOK
    <2>7. TypeOK'
      BY <1>0, <2>1, <2>4, <2>5, <2>6 DEF TypeOK
    <2> QED
      BY <1>0, <2>2, <2>4, <2>7 DEF Typed, Tables, Sound
  <1>13. ASSUME NEW s \in Slots, Abort(s) PROVE Typed'
    <2>1. /\ req' = [req EXCEPT ![s] = Idle] /\ astray' = (astray \/ Owes(s))
          /\ UNCHANGED <<review, provider, begun, used, raced, counted, crossed>>
      BY <1>13 DEF Abort
    <2>2. astray' \in BOOLEAN
      BY <1>0, <2>1 DEF TypeOK, Owes
    <2>3. Sound(Idle)
      BY DEF Sound, Idle
    <2> QED
      BY <2>1, <2>2, <2>3, IdleType, QuietStep
  <1>14. ASSUME UNCHANGED vars PROVE Typed'
    BY <1>0, <1>14 DEF vars, history, Typed, TypeOK, Tables, Sound
  <1> QED
    BY <1>1, <1>2, <1>3, <1>4, <1>5, <1>6, <1>7, <1>8, <1>9, <1>10, <1>11, <1>12, <1>13,
       <1>14 DEF Next, Continue

\* Whatever requests interleave, fail and die, the reviews, the provider's figures
\* and the requests keep their types.
THEOREM TypeCorrect == Spec => []TypeOK
  <1>1. Spec => []Typed
    BY TypedInit, TypedStep, PTL DEF Spec
  <1>2. Typed => TypeOK
    BY DEF Typed
  <1> QED
    BY <1>1, <1>2, PTL

(* ------------------------ Reviews change as asked ----------------------- *)

\* An object that is not out of date is the row with the operation's own column.
FreshSave == \A s \in Slots : req[s].pc \in {"diff", "update"} /\ ~req[s].stale =>
                 Honest(req[s].op, review[req[s].review], req[s].row)

LEMMA FreshQuiet ==
    ASSUME FreshSave, NEW s \in Slots, review' = review,
           req'[s].pc \notin {"diff", "update"},
           \A t \in Slots \ {s} : Same(req'[t], req[t])
    PROVE  FreshSave'
  BY DEF FreshSave, Same

LEMMA FreshWrite ==
    ASSUME Typed, FreshSave, NEW s \in Slots, NEW r \in Reviews, NEW row \in Row,
           NEW after \in Request, after.pc \notin {"diff", "update"},
           Committed(s, r, after), review' = [review EXCEPT ![r] = row]
    PROVE  FreshSave'
  <1>1. /\ req'[s] = after
        /\ \A t \in Slots \ {s} :
              /\ Same(req'[t], req[t])
              /\ req[t].pc \in Saving /\ req[t].review = r => req'[t].stale
    BY CommittedType DEF Typed
  <1>2. \A x \in Reviews : x # r => review'[x] = review[x]
    BY DEF Typed, TypeOK
  <1>3. ASSUME NEW t \in Slots, req'[t].pc \in {"diff", "update"}, ~req'[t].stale
        PROVE  Honest(req'[t].op, review'[req'[t].review], req'[t].row)
    <2>1. t # s /\ Same(req'[t], req[t]) /\ req[t].pc \in Saving /\ req[t].review # r
      BY <1>1, <1>3 DEF Same, Saving
    <2>2. req[t].review \in Reviews /\ req[t].pc \in {"diff", "update"} /\ ~req[t].stale
      BY <1>3, <2>1 DEF Typed, Sound, Same
    <2>3. Honest(req[t].op, review[req[t].review], req[t].row)
      BY <2>2 DEF FreshSave
    <2> QED
      BY <1>2, <2>1, <2>2, <2>3 DEF Same
  <1> QED
    BY <1>3 DEF FreshSave

\* What follows a save is no save.
LEMMA FollowAway == \A p \in Request : Follow(p).pc \notin {"diff", "update"}
  BY FollowType

LEMMA FreshInit == Init => FreshSave
  BY DEF Init, FreshSave, Idle

LEMMA FreshStep == Typed /\ FreshSave /\ [Next]_vars => FreshSave'
  <1> SUFFICES ASSUME Typed, FreshSave, [Next]_vars PROVE FreshSave'
    OBVIOUS
  <1>0. /\ TypeOK /\ Tables /\ \A s \in Slots : req[s] \in Request /\ Sound(req[s])
    BY DEF Typed, TypeOK
  <1>1. ASSUME NEW s \in Slots, NEW q \in Request, req' = [req EXCEPT ![s] = q],
               q.pc \notin {"diff", "update"}, review' = review
        PROVE  FreshSave'
    <2>1. req'[s] = q /\ \A t \in Slots \ {s} : Same(req'[t], req[t])
      BY <1>0, <1>1, OneRequest, Stale
    <2> QED
      BY <1>1, <2>1, FreshQuiet
  <1>2. ASSUME NEW s \in Slots, NEW u \in Users, NEW q \in Ratings, CreateReview(s, u, q)
        PROVE  FreshSave'
    <2> DEFINE row == [NoRow EXCEPT !.reviewer = u, !.rating = q]
    <2>1. row \in Row
      BY RowChange, NoRowType
    <2>2. Begin(s, "insert", "createReview", None, row)
      BY <1>2 DEF CreateReview
    <2> HIDE DEF row
    <2>3. req'[s].pc = "insert" /\ \A t \in Slots \ {s} : req'[t] = req[t]
      BY <1>0, <2>1, <2>2, BeginType DEF Operations, Recalculating
    <2>4. review' = review
      BY <2>2 DEF Begin
    <2> QED
      BY <1>0, <2>3, <2>4, FreshQuiet, Stale
  <1>3. ASSUME NEW s \in Slots, NEW u \in Users, NEW r \in Reviews, Handle(s, u, r)
        PROVE  FreshSave'
    <2>1. PICK op \in Operations, row \in Row :
              \/ Begin(s, "remove", op, r, row)
              \/ Honest(op, review[r], row) /\ Begin(s, "diff", op, r, row)
      BY <1>3, HandleBegins
    <2>2. PICK pc \in {"remove", "diff"} :
              /\ pc = "diff" => Honest(op, review[r], row)
              /\ Begin(s, pc, op, r, row)
      BY <2>1
    <2>3. /\ req'[s].pc = pc /\ req'[s].op = op /\ req'[s].review = r
          /\ req'[s].row = row /\ \A t \in Slots \ {s} : req'[t] = req[t]
      BY <1>0, <2>2, BeginType
    <2>4. review' = review
      BY <2>2 DEF Begin
    <2> QED
      BY <2>2, <2>3, <2>4 DEF FreshSave
  <1>4. ASSUME NEW s \in Slots, CompleteJob(s) PROVE FreshSave'
    <2>1. Begin(s, "findProvider", "completeJob", None, NoRow)
      BY <1>4 DEF CompleteJob
    <2>2. /\ req'[s].pc = "findProvider" /\ \A t \in Slots \ {s} : req'[t] = req[t]
      BY <1>0, <2>1, NoRowType, BeginType DEF Operations
    <2>3. review' = review
      BY <2>1 DEF Begin
    <2> QED
      BY <1>0, <2>2, <2>3, FreshQuiet, Stale
  <1>5. ASSUME NEW s \in Slots, NEW r \in Reviews, Insert(s, r) PROVE FreshSave'
    <2> DEFINE after == [Follow(req[s]) EXCEPT !.review = r]
    <2>1. req[s].row \in Row /\ after \in Request /\ after.pc \notin {"diff", "update"}
      BY <1>0, FollowType, FollowAway DEF Request
    <2>2. /\ Committed(s, r, after) /\ review' = [review EXCEPT ![r] = req[s].row]
      BY <1>5 DEF Insert
    <2> HIDE DEF after
    <2> QED
      BY <2>1, <2>2, FreshWrite
  <1>6. ASSUME NEW s \in Slots, Diff(s) PROVE FreshSave'
    <2>1. PICK q \in Request :
              /\ req' = [req EXCEPT ![s] = q]
              /\ \/ q = Follow(req[s])
                 \/ /\ q.pc \in {"update", "reinsert"} /\ q.op = req[s].op
                    /\ q.review = req[s].review /\ q.row = req[s].row
                    /\ q.stale = req[s].stale
      BY <1>0, <1>6, DiffStep
    <2>2. /\ req'[s] = q /\ \A t \in Slots \ {s} : req'[t] = req[t]
      BY <1>0, <2>1, OneRequest
    <2>3. review' = review /\ req[s].pc = "diff"
      BY <1>6 DEF Diff
    <2>4. q = Follow(req[s]) => q.pc \notin {"diff", "update"}
      BY <1>0, FollowAway
    <2> QED
      BY <2>1, <2>2, <2>3, <2>4 DEF FreshSave
  <1>7. ASSUME NEW s \in Slots, Update(s) PROVE FreshSave'
    <2> DEFINE r == req[s].review
               row == IF Stored(r) THEN Overlay(req[s].row, req[s].cols, review[r])
                                   ELSE review[r]
    <2>1. r \in Reviews /\ row \in Row /\ review' = [review EXCEPT ![r] = row]
      BY <1>7, Written
    <2>2. Committed(s, r, Follow(req[s]))
      BY <1>7 DEF Update
    <2> HIDE DEF r, row
    <2> QED
      BY <1>0, <2>1, <2>2, FollowType, FollowAway, FreshWrite
  <1>8. ASSUME NEW s \in Slots, Reinsert(s) PROVE FreshSave'
    <2>1. req[s].review \in Reviews /\ req[s].row \in Row
      BY <1>0, <1>8 DEF Reinsert, Sound, Request
    <2>2. /\ Committed(s, req[s].review, Follow(req[s]))
          /\ review' = [review EXCEPT ![req[s].review] = req[s].row]
      BY <1>8 DEF Reinsert
    <2> QED
      BY <1>0, <2>1, <2>2, FollowType, FollowAway, FreshWrite
  <1>9. ASSUME NEW s \in Slots, Remove(s) PROVE FreshSave'
    <2>1. req[s].review \in Reviews
      BY <1>0, <1>9 DEF Remove, Sound
    <2>2. /\ Committed(s, req[s].review, Follow(req[s]))
          /\ review' = [review EXCEPT ![req[s].review] = NoRow]
      BY <1>9 DEF Remove
    <2> QED
      BY <1>0, <2>1, <2>2, NoRowType, FollowType, FollowAway, FreshWrite
  <1>10. ASSUME NEW s \in Slots, FindReviews(s) PROVE FreshSave'
    <2>1. PICK q \in Request : /\ req' = [req EXCEPT ![s] = q] /\ q.pc = "findProvider"
      BY <1>0, <1>10, FindReviewsStep
    <2> QED
      BY <1>1, <1>10, <2>1 DEF FindReviews
  <1>11. ASSUME NEW s \in Slots, FindProvider(s) PROVE FreshSave'
    <2>1. PICK q \in Request : /\ req' = [req EXCEPT ![s] = q] /\ q.pc = "diffProvider"
      BY <1>0, <1>11, FindProviderStep
    <2>2. review' = review
      BY <1>11 DEF FindProvider
    <2> QED
      BY <1>1, <2>1, <2>2
  <1>12. ASSUME NEW s \in Slots, DiffProvider(s) PROVE FreshSave'
    <2>1. PICK q \in Request : /\ req' = [req EXCEPT ![s] = q]
                               /\ q = Idle \/ q.pc = "updateProvider"
      BY <1>0, <1>12, DiffProviderStep
    <2>2. review' = review
      BY <1>12 DEF DiffProvider
    <2> QED
      BY <1>1, <2>1, <2>2 DEF Idle
  <1>13. ASSUME NEW s \in Slots, UpdateProvider(s) PROVE FreshSave'
    <2>1. req'[s] = Idle /\ \A t \in Slots \ {s} : Same(req'[t], req[t])
      BY <1>0, <1>13, UpdateProviderStep
    <2>2. review' = review
      BY <1>13 DEF UpdateProvider
    <2> QED
      BY <2>1, <2>2, FreshQuiet DEF Idle
  <1>14. ASSUME NEW s \in Slots, Abort(s) PROVE FreshSave'
    BY <1>1, <1>14, IdleType DEF Abort, Idle
  <1>15. ASSUME UNCHANGED vars PROVE FreshSave'
    BY <1>15 DEF vars, FreshSave
  <1> QED
    BY <1>2, <1>3, <1>4, <1>5, <1>6, <1>7, <1>8, <1>9, <1>10, <1>11, <1>12, <1>13, <1>14,
       <1>15 DEF Next, Continue

\* A review that a step leaves alone is as asked, and so is one that is removed.
LEMMA AskedSame ==
    ASSUME Typed, NEW r \in Reviews, review'[r] = review[r] \/ review'[r] = NoRow
    PROVE  Asked(r)
  <1>1. ~Stored(r) => review[r] = NoRow
    BY ReviewsAssumption DEF Typed, Tables, Stored, ReviewsAssumption
  <1> QED
    BY <1>1 DEF Asked

LEMMA AskedUpdate ==
    ASSUME Typed, FreshSave, NEW s \in Slots, Update(s), req[s].review \notin raced'
    PROVE  Asked(req[s].review)
  <1> DEFINE r == req[s].review
             row == IF Stored(r) THEN Overlay(req[s].row, req[s].cols, review[r])
                                 ELSE review[r]
  <1>1. /\ r \in Reviews /\ review' = [review EXCEPT ![r] = row]
        /\ Stored(r) => \A c \in Columns : row[c] = IF c \in req[s].cols
                                              THEN req[s].row[c] ELSE review[r][c]
        /\ ~Stored(r) => row = NoRow
    BY Written
  <1>2. req[s].pc = "update" /\ ~req[s].stale
    BY DEF Update
  <1>3. Honest(req[s].op, review[r], req[s].row)
    BY <1>2 DEF FreshSave
  <1>4. req[s].op \in Changing
    BY <1>2 DEF Typed, Sound
  <1> HIDE DEF r, row
  <1>5. review'[r] = row
    BY <1>1 DEF Typed, TypeOK
  <1>6. r = req[s].review
    BY DEF r
  <1>7. CASE ~Stored(r)
    BY <1>1, <1>5, <1>6, <1>7 DEF Asked
  <1>8. CASE Stored(r)
    <2>1. /\ row.hidden = req[s].row.hidden \/ row.hidden = review[r].hidden
          /\ row.rating = req[s].row.rating \/ row.rating = review[r].rating
          /\ row.response = req[s].row.response \/ row.response = review[r].response
      BY <1>1, <1>8 DEF Columns
    <2>2. /\ review[r].hidden \in BOOLEAN /\ req[s].row.hidden \in BOOLEAN
      BY <1>1 DEF Typed, TypeOK, Request, Row
    <2>3. /\ ~review[r].hidden /\ row.hidden => req[s].op = "hideReview"
          /\ review[r].hidden /\ ~row.hidden => req[s].op = "unhideReview"
          /\ review[r].rating # row.rating => req[s].op = "updateReview"
          /\ review[r].response \notin {None, row.response} =>
                 req[s].op = "updateProviderResponse"
      BY <1>3, <2>1, <2>2 DEF Honest, Responses
    <2>4. \A op : req[s].op = op => Writing(r, {op})
      BY <1>2, <1>6 DEF Writing
    <2> QED
      BY <1>5, <1>6, <1>8, <2>3, <2>4 DEF Asked
  <1> QED
    BY <1>7, <1>8

LEMMA AskedStep ==
    ASSUME Typed, FreshSave, [Next]_vars, NEW r \in used \ raced'
    PROVE  Asked(r)
  <1>1. r \in Reviews
    BY DEF Typed, TypeOK
  <1>2. ASSUME review' = review PROVE Asked(r)
    BY <1>1, <1>2, AskedSame
  <1>3. ASSUME NEW s \in Slots, Insert(s, r) PROVE FALSE
    BY <1>3 DEF Insert
  <1>4. ASSUME NEW s \in Slots, NEW x \in Reviews, Insert(s, x) PROVE Asked(r)
    <2>1. review'[r] = review[r]
      BY <1>1, <1>3, <1>4 DEF Insert, Typed, TypeOK
    <2> QED
      BY <1>1, <2>1, AskedSame
  <1>5. ASSUME NEW s \in Slots, Update(s) PROVE Asked(r)
    <2>1. CASE r = req[s].review
      BY <1>5, <2>1, AskedUpdate
    <2>2. CASE r # req[s].review
      <3>1. review'[r] = review[r]
        BY <1>1, <1>5, <2>2 DEF Update, Typed, TypeOK
      <3> QED
        BY <1>1, <3>1, AskedSame
    <2> QED
      BY <2>1, <2>2
  <1>6. ASSUME NEW s \in Slots, Reinsert(s) PROVE Asked(r)
    <2>1. review'[r] = review[r]
      BY <1>1, <1>6 DEF Reinsert, Typed, TypeOK
    <2> QED
      BY <1>1, <2>1, AskedSame
  <1>7. ASSUME NEW s \in Slots, Remove(s) PROVE Asked(r)
    <2>1. review'[r] = review[r] \/ review'[r] = NoRow
      BY <1>1, <1>7 DEF Remove, Typed, TypeOK
    <2> QED
      BY <1>1, <2>1, AskedSame
  <1>8. CASE UNCHANGED vars
    BY <1>2, <1>8 DEF vars
  <1>9. CASE \E s \in Slots, u \in Users, q \in Ratings : CreateReview(s, u, q)
    BY <1>2, <1>9 DEF CreateReview, Begin
  <1>10. ASSUME NEW s \in Slots, NEW u \in Users, NEW x \in Reviews, Handle(s, u, x)
         PROVE  Asked(r)
    <2>1. \E pc, op, row : Begin(s, pc, op, x, row)
      BY <1>10, HandleBegins
    <2> QED
      BY <1>2, <2>1 DEF Begin
  <1>11. CASE \E s \in Slots : CompleteJob(s)
    BY <1>2, <1>11 DEF CompleteJob, Begin
  <1>12. ASSUME NEW s \in Slots,
                \/ Diff(s) \/ FindReviews(s) \/ FindProvider(s) \/ DiffProvider(s)
                \/ UpdateProvider(s) \/ Abort(s)
         PROVE  Asked(r)
    <2>1. review' = review
      BY <1>12 DEF Diff, FindReviews, FindProvider, DiffProvider, UpdateProvider, Abort
    <2> QED
      BY <1>2, <2>1
  <1> QED
    BY <1>4, <1>5, <1>6, <1>7, <1>8, <1>9, <1>10, <1>11, <1>12 DEF Next, Continue

\* Out-of-date saves apart, a review changes only as its author, the provider or a
\* moderator asked, and a deleted one does not return.
THEOREM ChangedAsAsked == Spec => OnlyAsAsked
  <1>1. Spec => [](Typed /\ FreshSave)
    BY TypedInit, TypedStep, FreshInit, FreshStep, PTL DEF Spec
  <1>2. Typed /\ FreshSave /\ [Next]_vars => [\A r \in used \ raced' : Asked(r)]_vars
    BY AskedStep
  <1> QED
    BY <1>1, <1>2, PTL DEF Spec, OnlyAsAsked

(* ------------------------- The provider's figures ----------------------- *)

\* The requests that hold a provider they are about to save.
Holding == {"diffProvider", "updateProvider"}

\* What a request knows of the reviews and the provider while nobody disturbs it:
\* a recalculation has found what can be seen, everybody's provider is the row but
\* for the figures it sets, and these are among those it is about to update.
Tidy(q) ==
    /\ q.pc \in Recalculation /\ q.op # "completeJob" /\ ~q.stale => q.found = Visible
    /\ q.pc \in Holding /\ q.op # "completeJob" =>
           /\ q.provider.rating = Mean(q.found)
           /\ q.provider.reviewCount = Count(q.found)
    /\ q.pc \in Holding /\ q.op = "completeJob" /\ ~q.stale =>
           /\ q.provider.rating = provider.rating
           /\ q.provider.reviewCount = provider.reviewCount
           /\ q.provider.completedJobs = provider.completedJobs + 1
    /\ q.pc \in Holding /\ q.op # "completeJob" /\ ~q.stale =>
           q.provider.completedJobs = provider.completedJobs
    /\ q.pc = "updateProvider" /\ q.op = "completeJob" /\ ~q.stale =>
           "completedJobs" \in q.figures
    /\ q.pc = "updateProvider" /\ q.op # "completeJob" /\ ~q.stale =>
           /\ "rating" \in q.figures
           /\ \/ "reviewCount" \in q.figures
              \/ provider.reviewCount = q.provider.reviewCount

Accurate == \A s \in Slots : Tidy(req[s])

\* Another request's step disturbs what a request knows only if it makes it stale.
LEMMA TidyKept ==
    ASSUME NEW t \in Slots, Tidy(req[t]), Same(req'[t], req[t]),
           \/ Visible' = Visible
           \/ req[t].pc \in Recalculation /\ req[t].op # "completeJob" => req'[t].stale,
           provider' = provider \/ (req[t].pc \in Holding => req'[t].stale)
    PROVE  Tidy(req[t])'
  <1>1. /\ req'[t].pc \in Recalculation /\ req'[t].op # "completeJob" /\ ~req'[t].stale
                => req'[t].found = Visible'
    BY DEF Tidy, Same
  <1>2. /\ req'[t].pc \in Holding /\ req'[t].op # "completeJob" =>
           /\ req'[t].provider.rating = Mean(req'[t].found)
           /\ req'[t].provider.reviewCount = Count(req'[t].found)
    BY DEF Tidy, Same
  <1>3. ASSUME req'[t].pc \in Holding, ~req'[t].stale
        PROVE  provider' = provider /\ ~req[t].stale
    BY <1>3 DEF Same
  <1> QED
    BY <1>1, <1>2, <1>3 DEF Tidy, Same, Holding

\* A step of s that writes no table: the others know what they knew.
LEMMA TidyQuiet ==
    ASSUME Accurate, NEW s \in Slots, review' = review, provider' = provider,
           \A t \in Slots \ {s} : Same(req'[t], req[t]), Tidy(req[s])'
    PROVE  Accurate'
  <1>1. Visible' = Visible
    BY DEF Visible
  <1>2. \A t \in Slots \ {s} : Tidy(req[t])'
    BY <1>1, TidyKept DEF Accurate
  <1> QED
    BY <1>2 DEF Accurate

\* A request that has nothing to do with the provider has nothing to know.
LEMMA TidyAway ==
    ASSUME NEW s \in Slots, req'[s].pc \notin Recalculation
    PROVE  Tidy(req[s])'
  BY DEF Tidy, Recalculation, Holding

\* A write of a review makes those stale that have added the reviews up.
LEMMA TidyWrite ==
    ASSUME Typed, Accurate, NEW s \in Slots, NEW r \in Reviews, NEW after \in Request,
           after.pc \notin Recalculation, Committed(s, r, after), provider' = provider
    PROVE  Accurate'
  <1>1. /\ req'[s] = after
        /\ \A t \in Slots \ {s} :
              /\ Same(req'[t], req[t])
              /\ req[t].pc \in Recalculation /\ req[t].op # "completeJob"
                     => req'[t].stale
    BY CommittedType DEF Typed
  <1>2. \A t \in Slots \ {s} : Tidy(req[t])'
    BY <1>1, TidyKept DEF Accurate
  <1>3. Tidy(req[s])'
    BY <1>1, TidyAway
  <1> QED
    BY <1>2, <1>3 DEF Accurate

LEMMA FollowOut == \A p \in Request : Follow(p).pc \notin Recalculation
  BY FollowType DEF Recalculation

LEMMA AccurateInit == Init => Accurate
  BY DEF Init, Accurate, Tidy, Idle, Recalculation, Holding

LEMMA AccurateStep == Typed /\ Accurate /\ [Next]_vars => Accurate'
  <1> SUFFICES ASSUME Typed, Accurate, [Next]_vars PROVE Accurate'
    OBVIOUS
  <1>0. /\ TypeOK /\ \A s \in Slots : req[s] \in Request /\ Sound(req[s]) /\ Tidy(req[s])
    BY DEF Typed, TypeOK, Accurate
  <1>1. ASSUME NEW s \in Slots, NEW q \in Request, req' = [req EXCEPT ![s] = q],
               q.pc \notin Recalculation, review' = review, provider' = provider
        PROVE  Accurate'
    <2>1. req'[s] = q /\ \A t \in Slots \ {s} : Same(req'[t], req[t])
      BY <1>0, <1>1, OneRequest, Stale
    <2> QED
      BY <1>1, <2>1, TidyQuiet, TidyAway
  <1>2. ASSUME NEW s \in Slots, NEW pc \in {"insert", "diff", "remove", "findProvider"},
               NEW op \in Operations, NEW r \in Reviews \union {None}, NEW row \in Row,
               pc = "findProvider" => op = "completeJob", Begin(s, pc, op, r, row)
        PROVE  Accurate'
    <2>1. /\ req'[s].pc = pc /\ req'[s].op = op
          /\ \A t \in Slots \ {s} : req'[t] = req[t]
      BY <1>0, <1>2, BeginType
    <2>2. review' = review /\ provider' = provider
      BY <1>2 DEF Begin
    <2>3. Tidy(req[s])'
      BY <1>2, <2>1 DEF Tidy, Recalculation, Holding
    <2> QED
      BY <1>0, <2>1, <2>2, <2>3, TidyQuiet, Stale
  <1>3. ASSUME NEW s \in Slots, NEW u \in Users, NEW q \in Ratings, CreateReview(s, u, q)
        PROVE  Accurate'
    <2> DEFINE row == [NoRow EXCEPT !.reviewer = u, !.rating = q]
    <2>1. row \in Row
      BY RowChange, NoRowType
    <2>2. Begin(s, "insert", "createReview", None, row)
      BY <1>3 DEF CreateReview
    <2> HIDE DEF row
    <2> QED
      BY <1>2, <2>1, <2>2 DEF Operations, Recalculating
  <1>4. ASSUME NEW s \in Slots, NEW u \in Users, NEW r \in Reviews, Handle(s, u, r)
        PROVE  Accurate'
    <2>1. PICK op \in Operations, row \in Row :
              Begin(s, "remove", op, r, row) \/ Begin(s, "diff", op, r, row)
      BY <1>4, HandleBegins
    <2> QED
      BY <1>2, <2>1
  <1>5. ASSUME NEW s \in Slots, CompleteJob(s) PROVE Accurate'
    BY <1>2, <1>5, NoRowType DEF CompleteJob, Operations
  <1>6. ASSUME NEW s \in Slots, NEW r \in Reviews, Insert(s, r) PROVE Accurate'
    <2> DEFINE after == [Follow(req[s]) EXCEPT !.review = r]
    <2>1. after \in Request /\ after.pc \notin Recalculation
      BY <1>0, FollowType, FollowOut
    <2>2. Committed(s, r, after) /\ provider' = provider
      BY <1>6 DEF Insert
    <2> HIDE DEF after
    <2> QED
      BY <2>1, <2>2, TidyWrite
  <1>7. ASSUME NEW s \in Slots, Diff(s) PROVE Accurate'
    <2>1. PICK q \in Request : /\ req' = [req EXCEPT ![s] = q]
                               /\ q = Follow(req[s]) \/ q.pc \in {"update", "reinsert"}
      BY <1>0, <1>7, DiffStep
    <2>2. q.pc \notin Recalculation
      BY <1>0, <2>1, FollowOut DEF Recalculation
    <2>3. review' = review /\ provider' = provider
      BY <1>7 DEF Diff
    <2> QED
      BY <1>1, <2>1, <2>2, <2>3
  <1>8. ASSUME NEW s \in Slots, Update(s) \/ Reinsert(s) \/ Remove(s) PROVE Accurate'
    <2>1. req[s].review \in Reviews
      BY <1>0, <1>8 DEF Update, Reinsert, Remove, Sound
    <2>2. Committed(s, req[s].review, Follow(req[s])) /\ provider' = provider
      BY <1>8 DEF Update, Reinsert, Remove
    <2> QED
      BY <1>0, <2>1, <2>2, FollowType, FollowOut, TidyWrite
  <1>9. ASSUME NEW s \in Slots, FindReviews(s) PROVE Accurate'
    <2>1. PICK q \in Request :
              /\ req' = [req EXCEPT ![s] = q]
              /\ q.pc = "findProvider" /\ q.op = req[s].op /\ q.found = Visible
      BY <1>0, <1>9, FindReviewsStep
    <2>2. req'[s] = q /\ \A t \in Slots \ {s} : Same(req'[t], req[t])
      BY <1>0, <2>1, OneRequest, Stale
    <2>3. review' = review /\ provider' = provider
      BY <1>9 DEF FindReviews
    <2>4. Tidy(req[s])'
      BY <2>1, <2>2, <2>3 DEF Tidy, Holding, Visible
    <2> QED
      BY <2>2, <2>3, <2>4, TidyQuiet
  <1>10. ASSUME NEW s \in Slots, FindProvider(s) PROVE Accurate'
    <2>1. PICK q \in Request :
              /\ req' = [req EXCEPT ![s] = q]
              /\ q.pc = "diffProvider" /\ q.op = req[s].op /\ q.found = req[s].found
              /\ q.stale = req[s].stale
              /\ q.op = "completeJob" =>
                    /\ q.provider.rating = provider.rating
                    /\ q.provider.reviewCount = provider.reviewCount
                    /\ q.provider.completedJobs = provider.completedJobs + 1
              /\ q.op # "completeJob" =>
                    /\ q.provider.rating = Mean(q.found)
                    /\ q.provider.reviewCount = Count(q.found)
                    /\ q.provider.completedJobs = provider.completedJobs
      BY <1>0, <1>10, FindProviderStep
    <2>2. req'[s] = q /\ \A t \in Slots \ {s} : Same(req'[t], req[t])
      BY <1>0, <2>1, OneRequest, Stale
    <2>3. review' = review /\ provider' = provider /\ req[s].pc = "findProvider"
      BY <1>10 DEF FindProvider
    <2>4. q.op # "completeJob" /\ ~q.stale => q.found = Visible
      BY <1>0, <2>1, <2>3 DEF Tidy, Recalculation
    <2>5. Tidy(req[s])'
      BY <2>1, <2>2, <2>3, <2>4 DEF Tidy, Holding, Visible
    <2> QED
      BY <2>2, <2>3, <2>5, TidyQuiet
  <1>11. ASSUME NEW s \in Slots, DiffProvider(s) PROVE Accurate'
    <2>1. PICK q \in Request :
              /\ req' = [req EXCEPT ![s] = q]
              /\ \/ q = Idle
                 \/ /\ q.pc = "updateProvider" /\ q.op = req[s].op
                    /\ q.found = req[s].found /\ q.provider = req[s].provider
                    /\ q.stale = req[s].stale /\ q.figures = Differ(s)
      BY <1>0, <1>11, DiffProviderStep
    <2>2. req'[s] = q /\ \A t \in Slots \ {s} : Same(req'[t], req[t])
      BY <1>0, <2>1, OneRequest, Stale
    <2>3. review' = review /\ provider' = provider /\ req[s].pc = "diffProvider"
      BY <1>11 DEF DiffProvider
    <2>4. CASE q = Idle
      BY <2>2, <2>3, <2>4, TidyQuiet, TidyAway DEF Idle, Recalculation
    <2>5. CASE q # Idle
      <3>1. "rating" \in Differ(s) \/ req[s].op = "completeJob"
        BY DEF Differ, Figures
      <3>2. "reviewCount" \in Differ(s) \/ req[s].provider.reviewCount = provider.reviewCount
        BY DEF Differ, Figures
      <3>3. \/ "completedJobs" \in Differ(s)
            \/ req[s].provider.completedJobs = provider.completedJobs
        BY DEF Differ, Figures
      <3>4. provider.completedJobs \in Nat
        BY <1>0 DEF TypeOK, Provider
      <3>5. Visible' = Visible
        BY <2>3 DEF Visible
      <3>6. Tidy(q) <=> Tidy(req[s])'
        BY <2>2, <2>3, <3>5 DEF Tidy
      <3>7. Tidy(q)
        BY <1>0, <2>1, <2>3, <2>5, <3>1, <3>2, <3>3, <3>4 DEF Tidy, Holding, Recalculation
      <3> QED
        BY <2>2, <2>3, <3>6, <3>7, TidyQuiet
    <2> QED
      BY <2>4, <2>5
  <1>12. ASSUME NEW s \in Slots, UpdateProvider(s) PROVE Accurate'
    <2>1. /\ req'[s] = Idle
          /\ \A t \in Slots \ {s} :
                /\ Same(req'[t], req[t])
                /\ req[t].pc \in {"diffProvider", "updateProvider"} => req'[t].stale
      BY <1>0, <1>12, UpdateProviderStep
    <2>2. Visible' = Visible
      BY <1>12 DEF UpdateProvider, Visible
    <2>3. \A t \in Slots \ {s} : Tidy(req[t])'
      BY <1>0, <2>1, <2>2, TidyKept DEF Holding
    <2>4. Tidy(req[s])'
      BY <2>1, TidyAway DEF Idle, Recalculation
    <2> QED
      BY <2>3, <2>4 DEF Accurate
  <1>13. ASSUME NEW s \in Slots, Abort(s) PROVE Accurate'
    BY <1>1, <1>13, IdleType DEF Abort, Idle, Recalculation
  <1>14. ASSUME UNCHANGED vars PROVE Accurate'
    BY <1>14 DEF vars, Accurate, Tidy, Visible
  <1> QED
    BY <1>3, <1>4, <1>5, <1>6, <1>7, <1>8, <1>9, <1>10, <1>11, <1>12, <1>13,
       <1>14 DEF Next, Continue

\* The figures stay right while nothing they depend on changes and nobody who has
\* still to recalculate gives up.
LEMMA FiguresQuiet ==
    ASSUME FiguresRight, NEW s \in Slots, Visible' = Visible,
           provider'.rating = provider.rating,
           provider'.reviewCount = provider.reviewCount,
           ~astray' => ~astray, ~astray' => (Owes(s) => Owes(s)'),
           \A t \in Slots \ {s} : Same(req'[t], req[t])
    PROVE  FiguresRight'
  <1>1. \A t \in Slots \ {s} : Owes(t)' <=> Owes(t)
    BY DEF Owes, Same
  <1>2. ASSUME ~astray', \A t \in Slots : ~Owes(t)'
        PROVE  ~astray /\ \A t \in Slots : ~Owes(t)
    BY <1>1, <1>2
  <1> QED
    BY <1>2 DEF FiguresRight

LEMMA FiguresOwed ==
    ASSUME NEW s \in Slots, astray' \/ Owes(s)'
    PROVE  FiguresRight'
  BY DEF FiguresRight

LEMMA FollowOwes ==
    ASSUME NEW s \in Slots, NEW p \in Request, p.op \in Recalculating,
           req'[s].pc = Follow(p).pc
    PROVE  Owes(s)'
  BY FollowType DEF Owes

\* A save that is up to date and followed by no recalculation changes neither what
\* can be seen nor how it is rated.
LEMMA UpdateUnseen ==
    ASSUME Typed, FreshSave, NEW s \in Slots, Update(s), ~req[s].stale,
           req[s].op \notin Recalculating
    PROVE  Visible' = Visible
  <1> DEFINE r == req[s].review
             row == IF Stored(r) THEN Overlay(req[s].row, req[s].cols, review[r])
                                 ELSE review[r]
  <1>1. /\ r \in Reviews /\ review' = [review EXCEPT ![r] = row]
        /\ Stored(r) => \A c \in Columns : row[c] = IF c \in req[s].cols
                                              THEN req[s].row[c] ELSE review[r][c]
        /\ ~Stored(r) => row = NoRow
    BY Written
  <1>2. /\ req[s].row.rating = review[r].rating
        /\ req[s].row.hidden = review[r].hidden
    <2>1. Honest(req[s].op, review[r], req[s].row)
      BY DEF Update, FreshSave
    <2> QED
      BY <2>1 DEF Honest, Recalculating
  <1>3. ~Stored(r) => row = review[r]
    OBVIOUS
  <1> HIDE DEF r, row
  <1>4. row.rating = review[r].rating /\ row.hidden = review[r].hidden
    BY <1>1, <1>2, <1>3 DEF Columns
  <1>5. \A x \in Reviews : /\ review'[x].rating = review[x].rating
                           /\ review'[x].hidden = review[x].hidden
    BY <1>1, <1>4 DEF Typed, TypeOK
  <1> QED
    BY <1>5 DEF Visible

LEMMA FiguresInit == Init => FiguresRight
  <1> SUFFICES ASSUME Init
               PROVE  /\ provider.rating = Mean(Visible)
                      /\ provider.reviewCount = Count(Visible)
    BY DEF FiguresRight
  <1>1. Visible = NoReviews
    BY DEF Init, Visible, NoRow, NoReviews
  <1>2. {r \in Reviews : NoReviews[r] # 0} = {}
    BY DEF NoReviews
  <1>3. Count(NoReviews) = 0
    BY <1>2, FS_EmptySet DEF Count
  <1> QED
    BY <1>1, <1>3 DEF Init, NoFigures

LEMMA FiguresStep ==
    Typed /\ FreshSave /\ Accurate /\ FiguresRight /\ [Next]_vars => FiguresRight'
  <1> SUFFICES ASSUME Typed, FreshSave, Accurate, FiguresRight, [Next]_vars
               PROVE  FiguresRight'
    OBVIOUS
  <1>0. /\ TypeOK /\ \A s \in Slots : req[s] \in Request /\ Sound(req[s]) /\ Tidy(req[s])
    BY DEF Typed, TypeOK, Accurate
  <1>1. ASSUME NEW s \in Slots, NEW q \in Request, req' = [req EXCEPT ![s] = q],
               Owes(s) => Owes(s)', review' = review, provider' = provider,
               astray' = astray
        PROVE  FiguresRight'
    <2>1. req'[s] = q /\ \A t \in Slots \ {s} : Same(req'[t], req[t])
      BY <1>0, <1>1, OneRequest, Stale
    <2>2. Visible' = Visible
      BY <1>1 DEF Visible
    <2> QED
      BY <1>1, <2>1, <2>2, FiguresQuiet
  <1>2. ASSUME NEW s \in Slots, NEW pc \in {"insert", "diff", "remove", "findProvider"},
               NEW op \in Operations, NEW r \in Reviews \union {None}, NEW row \in Row,
               Begin(s, pc, op, r, row)
        PROVE  FiguresRight'
    <2>1. \A t \in Slots \ {s} : Same(req'[t], req[t])
      BY <1>0, <1>2, BeginType, Stale
    <2>2. /\ Visible' = Visible /\ provider' = provider /\ astray' = astray
          /\ req[s].pc = "idle"
      BY <1>2 DEF Begin, Visible
    <2>3. ~Owes(s)
      BY <2>2 DEF Owes, Recalculation
    <2> QED
      BY <2>1, <2>2, <2>3, FiguresQuiet
  <1>3. ASSUME NEW s \in Slots, NEW u \in Users, NEW q \in Ratings, CreateReview(s, u, q)
        PROVE  FiguresRight'
    <2> DEFINE row == [NoRow EXCEPT !.reviewer = u, !.rating = q]
    <2>1. row \in Row
      BY RowChange, NoRowType
    <2>2. Begin(s, "insert", "createReview", None, row)
      BY <1>3 DEF CreateReview
    <2> HIDE DEF row
    <2> QED
      BY <1>2, <2>1, <2>2 DEF Operations, Recalculating
  <1>4. ASSUME NEW s \in Slots, NEW u \in Users, NEW r \in Reviews, Handle(s, u, r)
        PROVE  FiguresRight'
    <2>1. PICK op \in Operations, row \in Row :
              Begin(s, "remove", op, r, row) \/ Begin(s, "diff", op, r, row)
      BY <1>4, HandleBegins
    <2> QED
      BY <1>2, <2>1
  <1>5. ASSUME NEW s \in Slots, CompleteJob(s) PROVE FiguresRight'
    BY <1>2, <1>5, NoRowType DEF CompleteJob, Operations
  <1>6. ASSUME NEW s \in Slots, NEW r \in Reviews, Insert(s, r) PROVE FiguresRight'
    <2> DEFINE after == [Follow(req[s]) EXCEPT !.review = r]
    <2>1. after \in Request /\ after.pc = Follow(req[s]).pc
      BY <1>0, FollowType
    <2>2. Committed(s, r, after) /\ req[s].op = "createReview"
      BY <1>0, <1>6 DEF Insert, Sound
    <2> HIDE DEF after
    <2>3. req'[s].pc = Follow(req[s]).pc
      BY <1>0, <2>1, <2>2, CommittedType
    <2> QED
      BY <1>0, <2>2, <2>3, FollowOwes, FiguresOwed DEF Recalculating
  <1>7. ASSUME NEW s \in Slots, Diff(s) PROVE FiguresRight'
    <2>1. PICK q \in Request : req' = [req EXCEPT ![s] = q]
      BY <1>0, <1>7, DiffStep
    <2>2. /\ review' = review /\ provider' = provider /\ astray' = astray
          /\ req[s].pc = "diff"
      BY <1>7 DEF Diff, history
    <2>3. ~Owes(s)
      BY <2>2 DEF Owes, Recalculation
    <2> QED
      BY <1>1, <2>1, <2>2, <2>3
  <1>8. ASSUME NEW s \in Slots, Update(s) \/ Reinsert(s) \/ Remove(s)
        PROVE  FiguresRight'
    <2>1. req[s].review \in Reviews
      BY <1>0, <1>8 DEF Update, Reinsert, Remove, Sound
    <2>2. Committed(s, req[s].review, Follow(req[s])) /\ provider' = provider
      BY <1>8 DEF Update, Reinsert, Remove
    <2>3. /\ req'[s] = Follow(req[s])
          /\ \A t \in Slots \ {s} : Same(req'[t], req[t])
      BY <1>0, <2>1, <2>2, FollowType, CommittedType
    <2>4. CASE req[s].op \in Recalculating
      BY <1>0, <2>3, <2>4, FollowOwes, FiguresOwed
    <2>5. CASE req[s].op \notin Recalculating /\ Update(s) /\ ~req[s].stale
      <3>1. Visible' = Visible
        BY <2>5, UpdateUnseen
      <3>2. ~Owes(s)
        BY <2>5 DEF Update, Owes, Recalculation
      <3>3. ~astray' => ~astray
        BY <2>5 DEF Update
      <3> QED
        BY <2>2, <2>3, <3>1, <3>2, <3>3, FiguresQuiet
    <2>6. CASE req[s].op \notin Recalculating /\ (Reinsert(s) \/ (Update(s) /\ req[s].stale))
      <3>1. astray'
        BY <2>6 DEF Update, Reinsert
      <3> QED
        BY <3>1, FiguresOwed
    <2>7. CASE Remove(s)
      <3>1. req[s].op \in Recalculating
        BY <1>0, <2>7 DEF Remove, Sound, Recalculating
      <3> QED
        BY <2>4, <3>1
    <2> QED
      BY <1>8, <2>4, <2>5, <2>6, <2>7
  <1>9. ASSUME NEW s \in Slots, FindReviews(s) PROVE FiguresRight'
    <2>1. PICK q \in Request :
              /\ req' = [req EXCEPT ![s] = q] /\ q.pc = "findProvider" /\ q.op = req[s].op
      BY <1>0, <1>9, FindReviewsStep
    <2>2. /\ review' = review /\ provider' = provider /\ astray' = astray
          /\ req[s].op \in Recalculating
      BY <1>0, <1>9 DEF FindReviews, history, Sound
    <2>3. req'[s] = q
      BY <1>0, <2>1, OneRequest
    <2>4. Owes(s)'
      BY <2>1, <2>2, <2>3 DEF Owes, Recalculation, Recalculating
    <2> QED
      BY <1>1, <2>1, <2>2, <2>4
  <1>10. ASSUME NEW s \in Slots, FindProvider(s) PROVE FiguresRight'
    <2>1. PICK q \in Request :
              /\ req' = [req EXCEPT ![s] = q] /\ q.pc = "diffProvider" /\ q.op = req[s].op
      BY <1>0, <1>10, FindProviderStep
    <2>2. /\ review' = review /\ provider' = provider /\ astray' = astray
          /\ req[s].pc = "findProvider"
      BY <1>10 DEF FindProvider, history
    <2>3. req'[s] = q
      BY <1>0, <2>1, OneRequest
    <2>4. Owes(s) => Owes(s)'
      BY <2>1, <2>2, <2>3 DEF Owes, Recalculation
    <2> QED
      BY <1>1, <2>1, <2>2, <2>4
  <1>11. ASSUME NEW s \in Slots, DiffProvider(s) PROVE FiguresRight'
    <2>1. PICK q \in Request :
              /\ req' = [req EXCEPT ![s] = q]
              /\ \/ q = Idle /\ Differ(s) = {}
                 \/ q.pc = "updateProvider" /\ q.op = req[s].op
      BY <1>0, <1>11, DiffProviderStep
    <2>2. /\ review' = review /\ provider' = provider /\ astray' = astray
          /\ req[s].pc = "diffProvider"
      BY <1>11 DEF DiffProvider, history
    <2>3. req'[s] = q
      BY <1>0, <2>1, OneRequest
    <2>4. Differ(s) = {} => req[s].op = "completeJob"
      BY DEF Differ, Figures
    <2>5. Owes(s) => Owes(s)'
      BY <2>1, <2>2, <2>3, <2>4 DEF Owes, Recalculation
    <2> QED
      BY <1>1, <2>1, <2>2, <2>5
  <1>12. ASSUME NEW s \in Slots, UpdateProvider(s) PROVE FiguresRight'
    <2>1. /\ req'[s] = Idle
          /\ \A t \in Slots \ {s} : Same(req'[t], req[t])
          /\ \A c \in Figures : provider'[c] = IF c \in req[s].figures
                                                THEN req[s].provider[c] ELSE provider[c]
      BY <1>0, <1>12, UpdateProviderStep
    <2>2. /\ provider'.rating = IF "rating" \in req[s].figures
                                 THEN req[s].provider.rating ELSE provider.rating
          /\ provider'.reviewCount = IF "reviewCount" \in req[s].figures
                                      THEN req[s].provider.reviewCount
                                      ELSE provider.reviewCount
      BY <2>1 DEF Figures
    <2>3. Visible' = Visible /\ req[s].pc = "updateProvider"
      BY <1>12 DEF UpdateProvider, Visible
    <2>4. CASE req[s].op = "completeJob" /\ ~req[s].stale
      <3>1. ~astray' => ~astray
        BY <1>12, <2>4 DEF UpdateProvider
      <3>2. /\ provider'.rating = provider.rating
            /\ provider'.reviewCount = provider.reviewCount
        BY <1>0, <2>2, <2>3, <2>4 DEF Tidy, Holding
      <3>3. ~Owes(s)
        BY <2>3, <2>4 DEF Owes
      <3> QED
        BY <2>1, <2>3, <3>1, <3>2, <3>3, FiguresQuiet
    <2>5. CASE req[s].op # "completeJob" /\ ~req[s].stale
      <3>1. /\ provider'.rating = Mean(Visible)
            /\ provider'.reviewCount = Count(Visible)
        BY <1>0, <2>2, <2>3, <2>5 DEF Tidy, Holding, Recalculation
      <3> QED
        BY <2>3, <3>1 DEF FiguresRight
    <2>6. CASE req[s].stale
      BY <1>12, <2>6, FiguresOwed DEF UpdateProvider
    <2> QED
      BY <2>4, <2>5, <2>6
  <1>13. ASSUME NEW s \in Slots, Abort(s) PROVE FiguresRight'
    <2>1. /\ req' = [req EXCEPT ![s] = Idle] /\ astray' = (astray \/ Owes(s))
          /\ Visible' = Visible /\ provider' = provider
      BY <1>13 DEF Abort, Visible
    <2>2. \A t \in Slots \ {s} : Same(req'[t], req[t])
      BY <1>0, <2>1, IdleType, OneRequest, Stale
    <2> QED
      BY <2>1, <2>2, FiguresQuiet
  <1>14. ASSUME UNCHANGED vars PROVE FiguresRight'
    <2>1. Visible' = Visible /\ UNCHANGED <<provider, astray, req>>
      BY <1>14 DEF vars, history, Visible
    <2> QED
      BY <2>1 DEF FiguresRight, Owes
  <1> QED
    BY <1>3, <1>4, <1>5, <1>6, <1>7, <1>8, <1>9, <1>10, <1>11, <1>12, <1>13,
       <1>14 DEF Next, Continue

\* The provider's rating and reviewCount are those of the visible reviews when
\* nobody has still to recalculate, disturbed and lost recalculations apart.
THEOREM FiguresCorrect == Spec => []FiguresRight
  <1>1. Init => Typed /\ FreshSave /\ Accurate /\ FiguresRight
    BY TypedInit, FreshInit, AccurateInit, FiguresInit
  <1>2. Typed /\ FreshSave /\ Accurate /\ FiguresRight /\ [Next]_vars
           => (Typed /\ FreshSave /\ Accurate /\ FiguresRight)'
    BY TypedStep, FreshStep, AccurateStep, FiguresStep
  <1> QED
    BY <1>1, <1>2, PTL DEF Spec

LEMMA CompletionsStep ==
    Typed /\ Accurate /\ CompletionsKept /\ [Next]_vars => CompletionsKept'
  <1> SUFFICES ASSUME Typed, Accurate, CompletionsKept, [Next]_vars
               PROVE  CompletionsKept'
    OBVIOUS
  <1>0. /\ TypeOK /\ \A s \in Slots : req[s] \in Request /\ Tidy(req[s])
    BY DEF Typed, TypeOK, Accurate
  <1>1. ASSUME NEW s \in Slots, UpdateProvider(s) PROVE CompletionsKept'
    <2>1. \A c \in Figures : provider'[c] = IF c \in req[s].figures
                                             THEN req[s].provider[c] ELSE provider[c]
      BY <1>0, <1>1, UpdateProviderStep
    <2>2. provider'.completedJobs = IF "completedJobs" \in req[s].figures
                                     THEN req[s].provider.completedJobs
                                     ELSE provider.completedJobs
      BY <2>1 DEF Figures
    <2>3. CASE req[s].stale
      BY <1>1, <2>3 DEF UpdateProvider, CompletionsKept
    <2>4. CASE ~req[s].stale /\ req[s].op = "completeJob"
      BY <1>0, <1>1, <2>2, <2>4 DEF UpdateProvider, CompletionsKept, Tidy, Holding
    <2>5. CASE ~req[s].stale /\ req[s].op # "completeJob"
      BY <1>0, <1>1, <2>2, <2>5 DEF UpdateProvider, CompletionsKept, Tidy, Holding
    <2> QED
      BY <2>3, <2>4, <2>5
  <1>2. ASSUME UNCHANGED <<provider, counted, crossed>> PROVE CompletionsKept'
    BY <1>2 DEF CompletionsKept
  <1>3. CASE \E s \in Slots, r \in Reviews : Insert(s, r)
    BY <1>2, <1>3 DEF Insert
  <1>4. ASSUME NEW s \in Slots, NEW u \in Users, NEW r \in Reviews, Handle(s, u, r)
        PROVE  CompletionsKept'
    <2>1. \E pc, op, row : Begin(s, pc, op, r, row)
      BY <1>4, HandleBegins
    <2> QED
      BY <1>2, <2>1 DEF Begin
  <1>5. CASE \E s \in Slots, u \in Users, q \in Ratings : CreateReview(s, u, q)
    BY <1>2, <1>5 DEF CreateReview, Begin
  <1>6. CASE \E s \in Slots : CompleteJob(s)
    BY <1>2, <1>6 DEF CompleteJob, Begin
  <1>7. CASE UNCHANGED vars
    BY <1>2, <1>7 DEF vars, history
  <1>8. ASSUME NEW s \in Slots,
               \/ Diff(s) \/ Update(s) \/ Reinsert(s) \/ Remove(s)
               \/ FindReviews(s) \/ FindProvider(s) \/ DiffProvider(s) \/ Abort(s)
        PROVE  CompletionsKept'
    BY <1>2, <1>8 DEF Diff, Update, Reinsert, Remove, FindReviews, FindProvider,
       DiffProvider, Abort, history
  <1> QED
    BY <1>1, <1>3, <1>4, <1>5, <1>6, <1>7, <1>8 DEF Next, Continue

\* Recalculations and completions saving the same row lose none of the completions
\* as long as none of them saves an object out of date.
THEOREM CompletionsCorrect == Spec => []CompletionsKept
  <1>1. Init => CompletionsKept
    BY DEF Init, CompletionsKept, NoFigures
  <1>2. Init => Typed /\ Accurate /\ CompletionsKept
    BY <1>1, TypedInit, AccurateInit
  <1>3. Typed /\ Accurate /\ CompletionsKept /\ [Next]_vars
           => (Typed /\ Accurate /\ CompletionsKept)'
    BY TypedStep, AccurateStep, CompletionsStep
  <1> QED
    BY <1>2, <1>3, PTL DEF Spec

(* ----------------------- What the ratings add up to -------------------- *)

\* Induction over the numbers, stated with a set: it holds of 0 and goes from n to n + 1.
LEMMA InductionOnNat ==
    ASSUME NEW S \in SUBSET Nat, 0 \in S, \A n \in S : n + 1 \in S
    PROVE  S = Nat
  <1> DEFINE R == {p \in Nat \X Nat : p[1] < p[2]}
  <1>1. IsWellFoundedOn(R, Nat)
    BY NatLessThanWellFounded DEF OpToRel
  <1>2. SUFFICES ASSUME Nat \ S # {} PROVE FALSE
    OBVIOUS
  <1>3. PICK n \in Nat \ S : \A k \in Nat \ S : ~(<<k, n>> \in R)
    BY <1>1, <1>2, WFMin
  <1>4. n # 0 /\ n - 1 \in Nat /\ <<n - 1, n>> \in R
    OBVIOUS
  <1>5. n - 1 \in S
    BY <1>3, <1>4
  <1>6. (n - 1) + 1 = n
    BY <1>4
  <1> QED
    BY <1>3, <1>5, <1>6

\* One step of the recursion of FoldFunction, and the sums of the sets of at most n.
AddStep(found, f, s) ==
    IF s = {} THEN 0 ELSE LET x == CHOOSE x \in s : TRUE IN found[x] + f[s \ {x}]

Small(n) == {s \in SUBSET Reviews : Cardinality(s) <= n}

AddsUpTo(found, f, n) == f = [s \in Small(n) |-> AddStep(found, f, s)]

LEMMA SmallSets ==
    /\ Small(0) = {{}}
    /\ \A s \in SUBSET Reviews : /\ IsFiniteSet(s) /\ Cardinality(s) \in Nat
                                 /\ Cardinality(s) <= Cardinality(Reviews)
                                 /\ Cardinality(s) = 0 <=> s = {}
                                 /\ \A x \in s : /\ s \ {x} \in SUBSET Reviews
                                                 /\ Cardinality(s \ {x}) = Cardinality(s) - 1
    /\ Cardinality(Reviews) \in Nat /\ Small(Cardinality(Reviews)) = SUBSET Reviews
  <1>1. IsFiniteSet(Reviews)
    BY ReviewsAssumption DEF ReviewsAssumption
  <1>2. ASSUME NEW s \in SUBSET Reviews
        PROVE  /\ IsFiniteSet(s) /\ Cardinality(s) \in Nat
               /\ Cardinality(s) <= Cardinality(Reviews)
               /\ Cardinality(s) = 0 <=> s = {}
               /\ \A x \in s : /\ s \ {x} \in SUBSET Reviews
                               /\ Cardinality(s \ {x}) = Cardinality(s) - 1
    <2>1. IsFiniteSet(s) /\ Cardinality(s) <= Cardinality(Reviews)
      BY <1>1, FS_Subset
    <2>2. Cardinality(s) \in Nat /\ (Cardinality(s) = 0 <=> s = {})
      BY <2>1, FS_CardinalityType, FS_EmptySet
    <2>3. ASSUME NEW x \in s PROVE Cardinality(s \ {x}) = Cardinality(s) - 1
      BY <2>1, FS_RemoveElement
    <2> QED
      BY <2>1, <2>2, <2>3
  <1>3. Small(0) = {{}}
    BY <1>2, FS_EmptySet DEF Small
  <1>4. Cardinality(Reviews) \in Nat
    BY <1>1, FS_CardinalityType
  <1>5. Small(Cardinality(Reviews)) = SUBSET Reviews
    BY <1>2 DEF Small
  <1> QED
    BY <1>2, <1>3, <1>4, <1>5

LEMMA ChosenFrom ==
    ASSUME NEW s, s # {}
    PROVE  (CHOOSE x \in s : TRUE) \in s
  OBVIOUS

LEMMA SumExists ==
    ASSUME NEW found, NEW m \in Nat
    PROVE  \E f : AddsUpTo(found, f, m)
  <1> DEFINE T == {n \in Nat : \E f : AddsUpTo(found, f, n)}
  <1>1. 0 \in T
    <2>1. AddsUpTo(found, [s \in Small(0) |-> 0], 0)
      BY SmallSets DEF AddsUpTo, AddStep
    <2> QED
      BY <2>1
  <1>2. ASSUME NEW n \in T PROVE n + 1 \in T
    <2>1. PICK f : AddsUpTo(found, f, n)
      BY <1>2
    <2>2. n \in Nat
      BY <1>2
    <2> DEFINE g == [s \in Small(n + 1) |-> AddStep(found, f, s)]
    <2>3. ASSUME NEW s \in Small(n + 1) PROVE g[s] = AddStep(found, g, s)
      <3>1. CASE s = {}
        BY <3>1 DEF AddStep
      <3>2. CASE s # {}
        <4> DEFINE x == CHOOSE x \in s : TRUE
        <4>1. x \in s
          BY <3>2, ChosenFrom
        <4>2. s \ {x} \in Small(n) /\ s \ {x} \in Small(n + 1)
          BY <2>2, <4>1, SmallSets DEF Small
        <4>3. f[s \ {x}] = AddStep(found, f, s \ {x})
          BY <2>1, <4>2 DEF AddsUpTo
        <4>4. g[s \ {x}] = f[s \ {x}]
          BY <4>2, <4>3
        <4> QED
          BY <3>2, <4>4 DEF AddStep
      <3> QED
        BY <3>1, <3>2
    <2> HIDE DEF g
    <2>4. AddsUpTo(found, g, n + 1)
      BY <2>3 DEF AddsUpTo, g
    <2> QED
      BY <2>2, <2>4
  <1>3. T = Nat
    BY <1>1, <1>2, InductionOnNat
  <1> QED
    BY <1>3

LEMMA FoldIsSum ==
    ASSUME NEW found \in Ratings0
    PROVE  \E f : /\ \A s \in SUBSET Reviews : f[s] = AddStep(found, f, s)
                 /\ FoldFunction(+, 0, found) = f[Reviews]
  <1> DEFINE P(f) == f = [s \in SUBSET Reviews |-> AddStep(found, f, s)]
             f == CHOOSE f : P(f)
  <1>1. \E h : P(h)
    <2>1. PICK h : AddsUpTo(found, h, Cardinality(Reviews))
      BY SmallSets, SumExists
    <2>2. P(h)
      BY <2>1, SmallSets DEF AddsUpTo
    <2> QED
      BY <2>2
  <1>2. P(f)
    BY <1>1
  <1>3. DOMAIN found = Reviews
    BY DEF Ratings0
  <1>4. FoldFunction(+, 0, found) = f[Reviews]
    BY <1>3 DEF FoldFunction, FoldFunctionOnSet, MapThenFoldSet, AddStep
  <1> HIDE DEF f
  <1> QED
    BY <1>2, <1>4

\* What a recalculation adds up lies between one star and five for each review found.
LEMMA SumBounds ==
    ASSUME NEW found \in Ratings0
    PROVE  /\ FoldFunction(+, 0, found) \in Nat
           /\ 100 * Count(found) <= FoldFunction(+, 0, found)
           /\ FoldFunction(+, 0, found) <= 500 * Count(found)
  <1> DEFINE Found(s) == Cardinality({r \in s : found[r] # 0})
  <1>1. PICK f : /\ \A s \in SUBSET Reviews : f[s] = AddStep(found, f, s)
                 /\ FoldFunction(+, 0, found) = f[Reviews]
    BY FoldIsSum
  <1>2. \A r \in Reviews : found[r] \in {0} \union (100 .. 500)
    <2>1. Ratings \subseteq 100 .. 500
      BY ReviewsAssumption DEF ReviewsAssumption
    <2>2. \A r \in Reviews : found[r] \in Ratings \union {0}
      BY DEF Ratings0
    <2>3. \A q \in Ratings \union {0} : q \in {0} \union (100 .. 500)
      BY <2>1
    <2> QED
      BY <2>2, <2>3
  <1>3. ASSUME NEW s \in SUBSET Reviews
        PROVE  /\ Found(s) \in Nat
               /\ \A x \in s : Found(s \ {x}) = IF found[x] = 0 THEN Found(s) ELSE Found(s) - 1
    <2> DEFINE R == {r \in s : found[r] # 0}
    <2>1. IsFiniteSet(R) /\ Cardinality(R) \in Nat
      <3>1. R \in SUBSET Reviews
        OBVIOUS
      <3> QED
        BY <3>1, SmallSets
    <2>2. ASSUME NEW x \in s
          PROVE  Found(s \ {x}) = IF found[x] = 0 THEN Found(s) ELSE Found(s) - 1
      <3>1. {r \in s \ {x} : found[r] # 0} = R \ {x}
        OBVIOUS
      <3>2. Cardinality(R \ {x}) = IF x \in R THEN Cardinality(R) - 1 ELSE Cardinality(R)
        BY <2>1, FS_RemoveElement
      <3> QED
        BY <3>1, <3>2
    <2> QED
      BY <2>1, <2>2
  <1> DEFINE Fits(s) == f[s] \in Nat /\ 100 * Found(s) <= f[s] /\ f[s] <= 500 * Found(s)
             T == {n \in Nat : \A s \in Small(n) : Fits(s)}
  <1>4. 0 \in T
    <2>1. {} \in SUBSET Reviews /\ {r \in {} : found[r] # 0} = {}
      OBVIOUS
    <2>2. f[{}] = 0 /\ Found({}) = 0
      BY <1>1, <2>1, FS_EmptySet DEF AddStep
    <2>3. Fits({})
      BY <2>2
    <2> HIDE DEF Fits
    <2> QED
      BY <2>3, SmallSets
  <1>5. ASSUME NEW n \in T PROVE n + 1 \in T
    <2>1. n \in Nat /\ \A s \in Small(n) : Fits(s)
      BY <1>5
    <2>2. ASSUME NEW s \in Small(n + 1) PROVE Fits(s)
      <3>1. s \in SUBSET Reviews
        BY DEF Small
      <3>2. CASE s = {}
        BY <1>4, <3>2, SmallSets
      <3>3. CASE s # {}
        <4> DEFINE x == CHOOSE x \in s : TRUE
        <4>1. x \in s
          BY <3>3, ChosenFrom
        <4>2. s \ {x} \in Small(n)
          BY <2>1, <4>1, SmallSets DEF Small
        <4>3. f[s] = found[x] + f[s \ {x}]
          BY <1>1, <3>1, <3>3 DEF AddStep
        <4>4. Fits(s \ {x}) /\ found[x] \in {0} \union (100 .. 500) /\ Found(s) \in Nat
          BY <1>2, <1>3, <2>1, <3>1, <4>1, <4>2
        <4>5. Found(s \ {x}) = IF found[x] = 0 THEN Found(s) ELSE Found(s) - 1
          BY <1>3, <3>1, <4>1
        <4> HIDE DEF x, Found
        <4> QED
          BY <4>3, <4>4, <4>5
      <3> QED
        BY <3>2, <3>3
    <2> QED
      BY <2>1, <2>2
  <1> HIDE DEF T
  <1>6. T = Nat
    BY <1>4, <1>5, InductionOnNat DEF T
  <1>7. Fits(Reviews)
    <2>1. Reviews \in Small(Cardinality(Reviews)) /\ Cardinality(Reviews) \in Nat
      BY SmallSets
    <2>2. \A s \in Small(Cardinality(Reviews)) : Fits(s)
      BY <1>6, <2>1 DEF T
    <2> HIDE DEF Fits
    <2> QED
      BY <2>1, <2>2
  <1> QED
    BY <1>1, <1>7 DEF Count

\* The mean of ratings from one star to five, rounded, is from one star to five.
LEMMA RoundedMean ==
    ASSUME NEW n \in Nat \ {0}, NEW sum \in Nat, 100 * n <= sum, sum <= 500 * n
    PROVE  (2 * sum + n) \div (2 * n) \in 100 .. 500
  <1> DEFINE x == 2 * sum + n
             q == x \div (2 * n)
  <1>1. q \in Int /\ (2 * n) * q <= x /\ x < (2 * n) * (q + 1)
    OBVIOUS
  <1>2. 201 * n <= x /\ x <= 1001 * n /\ x \in Int /\ n \in Int /\ n > 0
    OBVIOUS
  <1> HIDE DEF x, q
  <1>3. ASSUME q >= 501 PROVE FALSE
    <2>1. (2 * n) * q >= (2 * n) * 501
      BY <1>1, <1>3
    <2> QED
      BY <1>1, <1>2, <2>1
  <1>4. ASSUME q <= 99 PROVE FALSE
    <2>1. (2 * n) * (q + 1) <= (2 * n) * 100
      BY <1>1, <1>4
    <2> QED
      BY <1>1, <1>2, <2>1
  <1> QED
    BY <1>1, <1>3, <1>4 DEF q, x

LEMMA MeanInRange ==
    ASSUME NEW found \in Ratings0
    PROVE  /\ Count(found) \in Nat
           /\ IF Count(found) = 0 THEN Mean(found) = 0 ELSE Mean(found) \in 100 .. 500
  <1>1. Count(found) \in Nat
    <2>1. {r \in Reviews : found[r] # 0} \in SUBSET Reviews
      OBVIOUS
    <2> QED
      BY <2>1, SmallSets DEF Count
  <1>2. ASSUME Count(found) # 0 PROVE Mean(found) \in 100 .. 500
    BY <1>1, <1>2, SumBounds, RoundedMean DEF Mean
  <1> QED
    BY <1>1, <1>2 DEF Mean

\* The rating in the provider's row is none or from one to five stars; and it is none
\* exactly when the row counts no review, as long as the figures are to be trusted.
RatingInRange ==
    /\ provider.rating = 0 \/ provider.rating \in 100 .. 500
    /\ (~astray /\ \A s \in Slots : ~Owes(s)) =>
           (provider.rating = 0 <=> provider.reviewCount = 0)

\* Whatever reviews are written, hidden and deleted, and however their recalculations
\* interleave, the rating the service saves fits its column and the stars it is shown as.
THEOREM RatingStaysInRange == Spec => []RatingInRange
  <1>1. TypeOK /\ FiguresRight => RatingInRange
    <2> SUFFICES ASSUME TypeOK, FiguresRight PROVE RatingInRange
      OBVIOUS
    <2>1. PICK found \in Ratings0 : provider.rating = Mean(found)
      BY DEF TypeOK, Provider, Means
    <2>2. provider.rating = 0 \/ provider.rating \in 100 .. 500
      BY <2>1, MeanInRange
    <2>3. Visible \in Ratings0
      BY VisibleType
    <2>4. Mean(Visible) = 0 <=> Count(Visible) = 0
      BY <2>3, MeanInRange
    <2> QED
      BY <2>2, <2>4 DEF FiguresRight, RatingInRange
  <1> QED
    BY <1>1, TypeCorrect, FiguresCorrect, PTL
=============================================================================
