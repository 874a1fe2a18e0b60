------------------------------- MODULE Reviews -------------------------------
(***************************************************************************)
(* The reviews of one provider, and the figures in the provider's row: the *)
(* handlers of ReviewsService cut at their awaits, with the save of the    *)
(* same row by JobsService.completeJob beside them.                        *)
(*                                                                         *)
(* Both rows are saved the way Jobs tells: read, changed in memory, read   *)
(* again by save, updated where the object differs.  After most changes    *)
(* the service adds up the visible reviews anew (recalculateProviderRating)*)
(* in further steps of the same request.                                   *)
(***************************************************************************)
EXTENDS Naturals, FiniteSets, Functions

CONSTANTS
    Users,          \* users that review, respond or moderate
    Owner,          \* the user of the provider's profile
    Admins,         \* users whose role is admin
    Reviews,        \* primary keys the reviews table may give out
    Ratings,        \* ratings the reviewers give, in hundredths of a star
    Texts,          \* responses of the provider
    Slots,          \* requests the server handles at the same time
    None,           \* SQL NULL
    MaxRequests     \* bound: requests begun

ASSUME ReviewsAssumption ==
    /\ Owner \in Users
    /\ Admins \subseteq Users
    /\ Ratings \subseteq 100..500
    /\ None \notin Users
    /\ None \notin Texts
    /\ None \notin Reviews
    /\ IsFiniteSet(Reviews)

VARIABLES
    review,     \* review[r]: the row, NoRow when there is none
    provider,   \* the figures in the provider's row
    req,        \* req[s]: the request in slot s
    (* history, never read by the code *)
    begun,      \* requests begun so far, at most MaxRequests
    used,       \* primary keys given out
    raced,      \* reviews saved from an object that was out of date
    astray,     \* the figures come from an outdated or a lost recalculation, or
                \* an outdated save was followed by none
    counted,    \* completions saved in the provider's row
    crossed     \* the provider's row was saved from an object out of date

history == <<begun, used, raced, astray, counted, crossed>>
vars == <<review, provider, req, history>>

Columns == {"reviewer", "rating", "hidden", "response"}
Row == [reviewer : Users \union {None}, rating : Ratings \union {0},
        hidden : BOOLEAN, response : Texts \union {None}]
NoRow == [reviewer |-> None, rating |-> 0, hidden |-> FALSE, response |-> None]

Stored(r) == review[r].reviewer # None
Reviewed(u) == \E r \in Reviews : review[r].reviewer = u

\* What recalculateProviderRating's query finds: the ratings of the reviews that
\* are not hidden, 0 standing for a review it does not find.
Ratings0 == [Reviews -> Ratings \union {0}]
Visible == [r \in Reviews |-> IF review[r].hidden THEN 0 ELSE review[r].rating]

Count(found) == Cardinality({r \in Reviews : found[r] # 0})

\* The mean, rounded to a hundredth as toFixed(2) does; 0 without reviews.  toFixed sees
\* the binary fraction, so a mean just between two hundredths may also go down in the
\* code: here it goes up.
Mean(found) ==
    LET n == Count(found) IN
    IF n = 0 THEN 0
             ELSE (2 * FoldFunction(+, 0, found) + n) \div (2 * n)
Means == {Mean(found) : found \in Ratings0}

Figures == {"rating", "reviewCount", "completedJobs"}
Provider == [rating : Means, reviewCount : Nat, completedJobs : Nat]

Responses == {"addProviderResponse", "updateProviderResponse"}
Recalculating == {"createReview", "updateReview", "updateComment", "deleteReview",
                  "hideReview", "unhideReview"}
Operations == Recalculating \union Responses \union {"verifyReview", "completeJob"}

\* A request holds the review it is about and the object it saves, then (cols) the
\* columns save is about to update; and the same of the provider.  found is what
\* the recalculation added up.  stale is history: since the request read what
\* it works on, somebody else has changed it.
Request == [pc : {"idle", "insert", "diff", "update", "reinsert", "remove",
                  "findReviews", "findProvider", "diffProvider", "updateProvider"},
            op : Operations \union {"none"}, review : Reviews \union {None},
            row : Row, cols : SUBSET Columns, found : Ratings0,
            provider : Provider, figures : SUBSET Figures, stale : BOOLEAN]
NoReviews == [r \in Reviews |-> 0]
NoFigures == [rating |-> Mean(NoReviews), reviewCount |-> 0, completedJobs |-> 0]
Idle == [pc |-> "idle", op |-> "none", review |-> None, row |-> NoRow, cols |-> {},
         found |-> NoReviews, provider |-> NoFigures, figures |-> {},
         stale |-> FALSE]

Init ==
    /\ review = [r \in Reviews |-> NoRow]
    /\ provider = NoFigures
    /\ req = [s \in Slots |-> Idle]
    /\ begun = 0
    /\ used = {}
    /\ raced = {}
    /\ astray = FALSE
    /\ counted = 0
    /\ crossed = FALSE

-----------------------------------------------------------------------------
(* The first part of each handler: the rows it reads and the checks on     *)
(* them.  A request whose checks fail changes nothing and is no step.      *)

Begin(s, pc, op, r, row) ==
    /\ req[s].pc = "idle"
    /\ begun < MaxRequests
    /\ begun' = begun + 1
    /\ req' = [req EXCEPT ![s] = [Idle EXCEPT !.pc = pc, !.op = op, !.review = r,
                                              !.row = row]]
    /\ UNCHANGED <<review, provider, used, raced, astray, counted, crossed>>

\* With a jobId the job is checked too: it is the reviewer's, completed and given
\* to this provider, so the job's second review would be the reviewer's second.
CreateReview(s, u, rating) ==
    /\ ~Reviewed(u)
    /\ u # Owner
    /\ Begin(s, "insert", "createReview", None,
             [NoRow EXCEPT !.reviewer = u, !.rating = rating])

UpdateReview(s, u, r, rating) ==
    /\ review[r].reviewer = u
    /\ Begin(s, "diff", "updateReview", r, [review[r] EXCEPT !.rating = rating])

\* updateReview without a rating: the comment is not modelled, the save is.
UpdateComment(s, u, r) ==
    /\ review[r].reviewer = u
    /\ Begin(s, "diff", "updateComment", r, review[r])

DeleteReview(s, u, r) ==
    /\ Stored(r)
    /\ review[r].reviewer = u \/ u \in Admins
    /\ Begin(s, "remove", "deleteReview", r, review[r])

\* The flag is not modelled, the save is; it ends without a recalculation.
VerifyReview(s, u, r) ==
    /\ Stored(r)
    /\ u \in Admins
    /\ Begin(s, "diff", "verifyReview", r, review[r])

HideReview(s, u, r) ==
    /\ Stored(r)
    /\ u \in Admins
    /\ Begin(s, "diff", "hideReview", r, [review[r] EXCEPT !.hidden = TRUE])

UnhideReview(s, u, r) ==
    /\ Stored(r)
    /\ u \in Admins
    /\ Begin(s, "diff", "unhideReview", r, [review[r] EXCEPT !.hidden = FALSE])

\* (mutant) a second response replaces the first
AddAnotherResponse(s, u, r, text) ==
    /\ Stored(r)
    /\ u = Owner
    /\ Begin(s, "diff", "addProviderResponse", r, [review[r] EXCEPT !.response = text])

AddProviderResponse(s, u, r, text) ==
    /\ Stored(r)
    /\ u = Owner
    /\ review[r].response = None
    /\ Begin(s, "diff", "addProviderResponse", r, [review[r] EXCEPT !.response = text])

UpdateProviderResponse(s, u, r, text) ==
    /\ Stored(r)
    /\ u = Owner
    /\ Begin(s, "diff", "updateProviderResponse", r, [review[r] EXCEPT !.response = text])

\* JobsService.completeJob, from its read of the provider on.
CompleteJob(s) == Begin(s, "findProvider", "completeJob", None, NoRow)

-----------------------------------------------------------------------------
(* The review is inserted, saved or removed.                               *)

\* What is left of a request when the review is stored.
Follow(r) == IF r.op \in Recalculating
            THEN [Idle EXCEPT !.pc = "findReviews", !.op = r.op, !.review = r.review]
            ELSE Idle

Saving == {"diff", "update", "reinsert", "remove"}
Recalculation == {"findProvider", "diffProvider", "updateProvider"}

\* Review r is written: the requests that have read it, or added it up, are late.
Committed(s, r, after) ==
    req' = [t \in Slots |->
              IF t = s THEN after
              ELSE IF \/ req[t].pc \in Saving /\ req[t].review = r
                      \/ req[t].pc \in Recalculation /\ req[t].op # "completeJob"
                   THEN [req[t] EXCEPT !.stale = TRUE]
                   ELSE req[t]]

\* A unique index keeps one review for a reviewer: a second insert fails.
Insert(s, r) ==
    /\ req[s].pc = "insert"
    /\ r \notin used
    /\ ~Reviewed(req[s].row.reviewer)
    /\ review' = [review EXCEPT ![r] = req[s].row]
    /\ used' = used \union {r}
    /\ Committed(s, r, [Follow(req[s]) EXCEPT !.review = r])
    /\ UNCHANGED <<provider, begun, raced, astray, counted, crossed>>

\* save reads the row again.  The rating an updateReview sets is a number and the
\* column a string, so it is always among the columns that differ.
Changed(s) ==
    {c \in Columns : \/ req[s].row[c] # review[req[s].review][c]
                     \/ c = "rating" /\ req[s].op = "updateReview"}

Overlay(above, cols, below) ==
    [c \in DOMAIN below |-> IF c \in cols THEN above[c] ELSE below[c]]

Diff(s) ==
    /\ req[s].pc = "diff"
    /\ req' = [req EXCEPT ![s] =
                 IF ~Stored(@.review) THEN [@ EXCEPT !.pc = "reinsert"]
                 ELSE IF Changed(s) = {} THEN Follow(@)
                 ELSE [@ EXCEPT !.pc = "update", !.cols = Changed(s)]]
    /\ UNCHANGED <<review, provider, history>>

\* A row removed meanwhile is not there to update, which is no error.
Update(s) ==
    LET r == req[s].review IN
    /\ req[s].pc = "update"
    /\ review' = IF Stored(r)
                 THEN [review EXCEPT ![r] = Overlay(req[s].row, req[s].cols, @)]
                 ELSE review
    /\ raced' = IF req[s].stale THEN raced \union {r} ELSE raced
    /\ astray' = (astray \/ (req[s].stale /\ req[s].op \notin Recalculating))
    /\ Committed(s, r, Follow(req[s]))
    /\ UNCHANGED <<provider, begun, used, counted, crossed>>

\* save does not find the row it was given and inserts it, under the same key.
Reinsert(s) ==
    LET r == req[s].review IN
    /\ req[s].pc = "reinsert"
    /\ ~Stored(r) /\ ~Reviewed(req[s].row.reviewer)
    /\ review' = [review EXCEPT ![r] = req[s].row]
    /\ raced' = raced \union {r}
    /\ astray' = (astray \/ req[s].op \notin Recalculating)
    /\ Committed(s, r, Follow(req[s]))
    /\ UNCHANGED <<provider, begun, used, counted, crossed>>

Remove(s) ==
    LET r == req[s].review IN
    /\ req[s].pc = "remove"
    /\ review' = [review EXCEPT ![r] = NoRow]
    /\ Committed(s, r, Follow(req[s]))
    /\ UNCHANGED <<provider, begun, used, raced, astray, counted, crossed>>

-----------------------------------------------------------------------------
(* recalculateProviderRating, and the same save in completeJob.            *)

\* (mutant) the hidden reviews are added up too
FindAllReviews(s) ==
    /\ req[s].pc = "findReviews"
    /\ req' = [req EXCEPT ![s] = [@ EXCEPT !.pc = "findProvider",
                                    !.found = [r \in Reviews |-> review[r].rating]]]
    /\ UNCHANGED <<review, provider, history>>

FindReviews(s) ==
    /\ req[s].pc = "findReviews"
    /\ req' = [req EXCEPT ![s] = [@ EXCEPT !.pc = "findProvider", !.found = Visible]]
    /\ UNCHANGED <<review, provider, history>>

\* (mutant) the ratings are added up and not divided
FindProviderUndivided(s) ==
    /\ req[s].pc = "findProvider"
    /\ req' = [req EXCEPT ![s] =
                 [@ EXCEPT !.pc = "diffProvider",
                           !.provider = [provider EXCEPT
                               !.rating = FoldFunction(+, 0, req[s].found),
                               !.reviewCount = Count(req[s].found)]]]
    /\ UNCHANGED <<review, provider, history>>

\* (mutant) the figures are those of a new row
FindProviderAnew(s) ==
    /\ req[s].pc = "findProvider"
    /\ req' = [req EXCEPT ![s] =
                 [@ EXCEPT !.pc = "diffProvider",
                           !.provider = IF req[s].op = "completeJob"
                                        THEN [provider EXCEPT !.completedJobs = @ + 1]
                                        ELSE [rating |-> Mean(req[s].found),
                                              reviewCount |-> Count(req[s].found),
                                              completedJobs |-> 0]]]
    /\ UNCHANGED <<review, provider, history>>

FindProvider(s) ==
    /\ req[s].pc = "findProvider"
    /\ req' = [req EXCEPT ![s] =
                 [@ EXCEPT !.pc = "diffProvider",
                           !.provider = IF req[s].op = "completeJob"
                                        THEN [provider EXCEPT !.completedJobs = @ + 1]
                                        ELSE [provider EXCEPT
                                                !.rating = Mean(req[s].found),
                                                !.reviewCount = Count(req[s].found)]]]
    /\ UNCHANGED <<review, provider, history>>

\* The rating just computed is a number and always differs from the column.
DiffProvider(s) ==
    LET figures == {c \in Figures :
                      \/ req[s].provider[c] # provider[c]
                      \/ c = "rating" /\ req[s].op # "completeJob"}
    IN
    /\ req[s].pc = "diffProvider"
    /\ req' = [req EXCEPT ![s] =
                 IF figures = {} THEN Idle
                 ELSE [@ EXCEPT !.pc = "updateProvider", !.figures = figures]]
    /\ UNCHANGED <<review, provider, history>>

UpdateProvider(s) ==
    /\ req[s].pc = "updateProvider"
    /\ provider' = Overlay(req[s].provider, req[s].figures, provider)
    /\ astray' = IF req[s].op = "completeJob" THEN astray \/ req[s].stale
                                              ELSE req[s].stale
    /\ counted' = IF req[s].op = "completeJob" THEN counted + 1 ELSE counted
    /\ crossed' = (crossed \/ req[s].stale)
    /\ req' = [t \in Slots |->
                 IF t = s THEN Idle
                 ELSE IF req[t].pc \in {"diffProvider", "updateProvider"}
                      THEN [req[t] EXCEPT !.stale = TRUE]
                      ELSE req[t]]
    /\ UNCHANGED <<review, begun, used, raced>>

-----------------------------------------------------------------------------

\* The request still has to recalculate.
Owes(s) == \/ req[s].pc = "findReviews"
           \/ req[s].pc \in Recalculation /\ req[s].op # "completeJob"

\* A database call fails (or an index refuses it), or the process dies.
Abort(s) ==
    /\ req[s].pc # "idle"
    /\ req' = [req EXCEPT ![s] = Idle]
    /\ astray' = (astray \/ Owes(s))
    /\ UNCHANGED <<review, provider, begun, used, raced, counted, crossed>>

Handle(s, u, r) ==
    \/ \E rating \in Ratings : UpdateReview(s, u, r, rating)
    \/ UpdateComment(s, u, r)
    \/ DeleteReview(s, u, r)
    \/ VerifyReview(s, u, r)
    \/ HideReview(s, u, r)
    \/ UnhideReview(s, u, r)
    \/ \E text \in Texts : \/ AddProviderResponse(s, u, r, text)
                           \/ UpdateProviderResponse(s, u, r, text)

Continue(s) ==
    \/ \E r \in Reviews : Insert(s, r)
    \/ Diff(s) \/ Update(s) \/ Reinsert(s) \/ Remove(s)
    \/ FindReviews(s) \/ FindProvider(s) \/ DiffProvider(s) \/ UpdateProvider(s)
    \/ Abort(s)

Next ==
    \/ \E s \in Slots, u \in Users, rating \in Ratings : CreateReview(s, u, rating)
    \/ \E s \in Slots, u \in Users, r \in Reviews : Handle(s, u, r)
    \/ \E s \in Slots : CompleteJob(s)
    \/ \E s \in Slots : Continue(s)

Spec == Init /\ [][Next]_vars

-----------------------------------------------------------------------------
(* Properties                                                              *)

TypeOK ==
    /\ review \in [Reviews -> Row]
    /\ provider \in Provider
    /\ req \in [Slots -> Request]
    /\ begun \in Nat
    /\ used \in SUBSET Reviews
    /\ raced \in SUBSET Reviews
    /\ astray \in BOOLEAN
    /\ counted \in Nat
    /\ crossed \in BOOLEAN

\* When nobody has still to recalculate, a provider's rating and reviewCount are
\* those of the reviews that can be seen, unless the last recalculation to save
\* was overtaken, one was lost, or a save without a recalculation (verifyReview,
\* the responses) brought an older review back.  Whatever went wrong before, the
\* next undisturbed recalculation puts it right.
FiguresRight ==
    (~astray /\ \A s \in Slots : ~Owes(s)) =>
        /\ provider.rating = Mean(Visible)
        /\ provider.reviewCount = Count(Visible)

\* Two services save the provider's row.  As long as none of them saves an object
\* out of date, no recalculation takes a completion back.
CompletionsKept == ~crossed => provider.completedJobs = counted

\* A request of one of the operations is about to update review r.
Writing(r, ops) ==
    \E s \in Slots : req[s].pc = "update" /\ req[s].review = r /\ req[s].op \in ops

\* Review r is changed by nobody but those whose business it is.
Asked(r) ==
    /\ ~Stored(r) => review'[r] = NoRow
    /\ Stored(r) /\ review'[r] # NoRow =>
         /\ ~review[r].hidden /\ review'[r].hidden => Writing(r, {"hideReview"})
         /\ review[r].hidden /\ ~review'[r].hidden => Writing(r, {"unhideReview"})
         /\ review[r].rating # review'[r].rating => Writing(r, {"updateReview"})
         /\ review[r].response \notin {None, review'[r].response} =>
              Writing(r, {"updateProviderResponse"})

\* Out-of-date saves apart, a review is hidden and shown by a moderator, rated by
\* its author, its response replaced only by updateProviderResponse; and a deleted
\* review does not return.
OnlyAsAsked == [][\A r \in used \ raced' : Asked(r)]_vars

\* "Admin can hide inappropriate reviews": what an administrator hid stays hidden
\* until one shows it again.
HiddenStays ==
    [][\A r \in Reviews :
         review[r].hidden /\ review'[r] # NoRow /\ ~review'[r].hidden =>
             Writing(r, {"unhideReview"})]_vars
=============================================================================
