---------------------------- MODULE LessonWorkflow ----------------------------
(***************************************************************************)
(* One design session from its recorded result to the publication of its   *)
(* lessons: the confirmation of the model, the evaluation into a review    *)
(* card, its revision, and the decision that publishes or declines it.     *)
(*                                                                         *)
(* design.json is only touched under .design.lock, so each service call    *)
(* that takes the lock is one action.  A tool call (design_confirm,        *)
(* design_lesson_decide) is several of them, between which other processes *)
(* run and the model may be edited, and it ends early whenever one raises  *)
(* or the process dies.  Cards are immutable files; published lessons are  *)
(* rows of a PostgreSQL database.                                          *)
(*                                                                         *)
(* Definitions marked "Wrong" are not part of the model: each is what a    *)
(* slip in the code would make of the definition after it.                 *)
(***************************************************************************)
EXTENDS FiniteSets

CONSTANTS
  Models,      \* contents of model.FCStd
  Lists,       \* what an evaluation makes of candidates, screening and evidence
  Long,        \* those of ten or more lessons
  Selections,  \* lists of lesson numbers a user may pick (fewer than ten)
  Texts,       \* wordings that approve a publication
  Clients,     \* processes that hold a DesignLessonWorkflow
  None         \* JSON null

ASSUME LessonAssumption ==
  /\ Long \subseteq Lists
  /\ None \notin Models \cup Lists \cup Selections \cup Texts

VARIABLES
  file,     \* model.FCStd
  session,  \* design.json
  cards,    \* the files of lesson-review/
  stored,   \* the design_lessons rows that come from a card
  client    \* the call each process is in

vars == <<file, session, cards, stored, client>>

-----------------------------------------------------------------------------
(* Vocabulary *)

\* A card is what its content makes it.  revises: lessons and selection of the
\* card it replaces (bound: a revised card is not revised once more).
Card == [model : Models, lessons : Lists, picks : Selections \cup {None},
         revises : (Lists \X (Selections \cup {None})) \cup {None}]
BaseCard(m, l) == [model |-> m, lessons |-> l, picks |-> None, revises |-> None]
Revision(x, l) == [BaseCard(x.model, l) EXCEPT !.revises = <<x.lessons, x.picks>>]

Decided == {"declined", "published", "publish_retry_required"}
Bound == {"review_pending"} \cup Decided
ReviewStatus ==
  {"not_evaluated", "evaluation_pending", "candidate_errors",
   "no_material_lessons", "invalidated"} \cup Bound
Session == [status : {"approved", "completed", "needs_attention"},
            sha : Models \cup {None}, confirmed : Models \cup {None},
            review : ReviewStatus, card : Card \cup {None}]
Rows == [text : Texts \cup {None}, changed : BOOLEAN]
Call == [pc : {"idle", "context", "evaluate", "check", "publish", "record"},
         wants : Lists \cup {"errors", "none", None},  \* outcome of the evaluation
         revises : BOOLEAN,                            \* review_revision_text is given
         text : Texts \cup {None}, picks : Selections \cup {None},
         model : Models \cup {None}, card : Card \cup {None},
         status : ReviewStatus \cup {None}]             \* to be recorded

Idle == [pc |-> "idle", wants |-> None, revises |-> FALSE, text |-> None,
         picks |-> None, model |-> None, card |-> None, status |-> None]
Goes(c, call) == client' = [client EXCEPT ![c] = call]
Returns(c) == Goes(c, Idle)
\* The call of c comes to record the review status st of card x.
Records(c, st, x) ==
  Goes(c, [Idle EXCEPT !.pc = "record", !.model = client[c].model, !.picks = client[c].picks,
                       !.status = st, !.card = x])

\* _require_confirmable
Confirmable == session.status = "completed" /\ file = session.sha
Confirmed == Confirmable /\ session.confirmed = session.sha

\* get: what was recorded of a model that changed is invalidated when read.
Current ==
  IF session.status = "completed" /\ file # session.sha
  THEN [session EXCEPT !.status = "needs_attention", !.confirmed = None,
                       !.review = "invalidated", !.card = None]
  ELSE session

-----------------------------------------------------------------------------
(* The model and the record of its validation *)

Edit(m) ==
  /\ file # m /\ file' = m
  /\ UNCHANGED <<session, cards, stored, client>>

RecordResult(passed) ==
  /\ session' = [status |-> IF passed THEN "completed" ELSE "needs_attention",
                 sha |-> file, confirmed |-> None,
                 review |-> "not_evaluated", card |-> None]
  /\ UNCHANGED <<file, cards, stored, client>>

\* design_session_get, and a decide that finds nothing to do.
Get ==
  /\ session' = Current
  /\ UNCHANGED <<file, cards, stored, client>>

-----------------------------------------------------------------------------
(* DesignLessonWorkflow.confirm *)

Confirm(c, wants, revises) ==
  /\ client[c].pc = "idle"
  /\ Confirmable
  /\ session' = IF Confirmed THEN session
                ELSE [session EXCEPT !.confirmed = session.sha,
                                     !.review = "evaluation_pending", !.card = None]
  /\ Goes(c, [Idle EXCEPT !.pc = "context", !.wants = wants, !.revises = revises])
  /\ UNCHANGED <<file, cards, stored>>

Context(c) ==
  /\ client[c].pc = "context"
  /\ Confirmed
  /\ Goes(c, [client[c] EXCEPT !.pc = "evaluate", !.model = session.sha])
  /\ UNCHANGED <<file, session, cards, stored>>

\* The one base card a model may have, or the revision of card x.
Drafted(m, wants) ==
  {x \in {BaseCard(m, wants)} : \A y \in cards : y = BaseCard(m, y.lessons) => y = x}
Revised(x, wants) ==
  IF x.revises = None THEN {Revision(x, wants)}
  ELSE {x} \cap [model : {x.model}, lessons : {wants}, picks : {None}, revises : {x.revises}]

\* The card is published as a file before anything is recorded.
Evaluate(c) ==
  LET call == client[c]
      pending == Current.review = "review_pending" /\ Current.card.model = call.model
  IN /\ call.pc = "evaluate"
     /\ session' = Current
     /\ call.revises => pending /\ call.wants \in Lists
     /\ IF call.wants \in Lists
        THEN \E x \in IF call.revises THEN Revised(Current.card, call.wants)
                      ELSE Drafted(call.model, call.wants) :
               /\ cards' = cards \cup {x}
               /\ Records(c, "review_pending", x)
        ELSE /\ Records(c, IF call.wants = "errors" THEN "candidate_errors"
                           ELSE "no_material_lessons", None)
             /\ UNCHANGED cards
     /\ UNCHANGED <<file, stored>>

\* The evaluation is refused, or errors of a revision leave the card as it is.
EvaluateRaises(c) ==
  /\ client[c].pc = "evaluate"
  /\ session' = Current
  /\ Returns(c)
  /\ UNCHANGED <<file, cards, stored>>

-----------------------------------------------------------------------------
(* record_lesson_review *)

\* (Wrong: does not compare the model the review was made for.)
RecordableAny(c) == Confirmed
Recordable(c) == Confirmed /\ session.sha = client[c].model

\* It overwrites whatever review is on record, and the call returns, or goes on
\* to publish the selection it has bound.
Record(c) ==
  LET call == client[c]
  IN /\ call.pc = "record"
     /\ Recordable(c)
     /\ session' = [session EXCEPT !.review = call.status, !.card = call.card]
     /\ IF call.status = "review_pending" /\ call.text # None
        THEN Goes(c, [call EXCEPT !.pc = "publish", !.status = None])
        ELSE Returns(c)
     /\ UNCHANGED <<file, cards, stored>>

-----------------------------------------------------------------------------
(* DesignLessonWorkflow.decide *)

\* (Wrong: a failed publication is not retried.)
UndecidedOnce(s) == s.review = "review_pending"
Undecided(s) == s.review \in {"review_pending", "publish_retry_required"}

\* A rejection has no approving text and selects nothing.
Decide(c, text, picks) ==
  /\ client[c].pc = "idle"
  /\ text = None => picks = None
  /\ Undecided(Current)
  /\ session' = Current
  /\ Goes(c, [Idle EXCEPT !.pc = "check", !.text = text, !.picks = picks,
                          !.card = Current.card])
  /\ UNCHANGED <<file, cards, stored>>

\* (Wrong: takes the card for one of the current model.)
MatchesAny(c) == Confirmed
Matches(c) == Confirmed /\ client[c].card.model = session.sha

\* (Wrong: takes any selection for the one the card is bound to.)
AgreesAlways(call) == TRUE
\* The whole card is approved, or the selection it is bound to already.
Agrees(call) == call.picks \in {None, call.card.picks}

\* The name of a selected card's file has the numbers only.
SelectionFree(selected) == \A y \in cards : y.picks = selected.picks => y = selected

Check(c) ==
  LET call == client[c]
      bound == [call EXCEPT !.model = session.sha]
      selected == [call.card EXCEPT !.picks = call.picks]
  IN /\ call.pc = "check"
     /\ Matches(c)
     /\ \/ /\ call.text = None
           /\ Goes(c, [bound EXCEPT !.pc = "record", !.status = "declined"])
           /\ UNCHANGED cards
        \/ /\ call.text # None /\ Agrees(call)
           /\ Goes(c, [bound EXCEPT !.pc = "publish"])
           /\ UNCHANGED cards
        \/ /\ call.picks # None /\ call.card.picks = None
           /\ SelectionFree(selected)
           /\ cards' = cards \cup {selected}
           /\ Goes(c, [bound EXCEPT !.pc = "record", !.status = "review_pending",
                                    !.card = selected])
     /\ UNCHANGED <<file, session, stored>>

\* (Wrong: publishes what design.json shows by now, which another call may have bound.)
CardShown(c) == IF session.review \in Bound THEN session.card ELSE client[c].card
\* The card that decide hands to the publisher and records: what it read or bound itself.
CardDecided(c) == client[c].card

\* publish_design_lesson_review compares whole rows, sorted by the text of ids.
Known(x) == stored[x].text # None
Resumable(x, text) ==
  stored[x] = [text |-> text, changed |-> FALSE] /\ (x.lessons \in Long => x.picks # None)

Answered(c, rows, status) ==
  /\ stored' = rows
  /\ Records(c, status, CardDecided(c))
  /\ UNCHANGED <<file, session, cards>>

\* (Wrong: takes any answer for a publication.)
FailureStatusPublished == "published"
\* (Wrong: not a status of the schema.)
FailureStatusUnknown == "publish_failed"
\* The status that is recorded when the publisher raises.
FailureStatus == "publish_retry_required"

\* The transaction commits; the answer may be lost.
Publish(c) ==
  LET call == client[c]
  IN /\ call.pc = "publish"
     /\ ~Known(CardDecided(c))
     /\ \E status \in {"published", FailureStatus} :
          Answered(c, [stored EXCEPT ![CardDecided(c)].text = call.text], status)

\* The database knows the very rows.
Resume(c) ==
  /\ client[c].pc = "publish"
  /\ Resumable(CardDecided(c), client[c].text)
  /\ Answered(c, stored, "published")

\* The database is unreachable, or refuses rows it knows otherwise.
PublishFails(c) ==
  client[c].pc = "publish" /\ Answered(c, stored, FailureStatus)

\* set_design_lesson_status, which only an administrator calls.
Retire(x) ==
  /\ Known(x) /\ ~stored[x].changed
  /\ stored' = [stored EXCEPT ![x].changed = TRUE]
  /\ UNCHANGED <<file, session, cards, client>>

\* A call raises or its process dies.
Abandon(c) ==
  /\ client[c].pc # "idle"
  /\ Returns(c)
  /\ UNCHANGED <<file, session, cards, stored>>

-----------------------------------------------------------------------------
Init ==
  /\ file \in Models
  /\ session = [status |-> "approved", sha |-> None, confirmed |-> None,
                review |-> "not_evaluated", card |-> None]
  /\ cards = {}
  /\ stored = [x \in Card |-> [text |-> None, changed |-> FALSE]]
  /\ client = [c \in Clients |-> Idle]

Confirming(c) ==
  \/ \E w \in Lists \cup {"errors", "none"}, r \in BOOLEAN : Confirm(c, w, r)
  \/ Context(c) \/ Evaluate(c) \/ EvaluateRaises(c)
Finishing(c) == Check(c) \/ Publish(c) \/ Resume(c) \/ PublishFails(c) \/ Record(c)

Next ==
  \/ \E m \in Models : Edit(m)
  \/ \E passed \in BOOLEAN : RecordResult(passed)
  \/ Get
  \/ \E x \in Card : Retire(x)
  \/ \E c \in Clients :
       \/ Confirming(c) \/ Finishing(c) \/ Abandon(c)
       \/ \E t \in Texts \cup {None}, p \in Selections \cup {None} : Decide(c, t, p)

Spec == Init /\ [][Next]_vars

-----------------------------------------------------------------------------
(* Safety *)

\* design.json, the cards, the rows and every call have their shape.
TypeOK ==
  /\ file \in Models /\ session \in Session /\ cards \subseteq Card
  /\ stored \in [Card -> Rows] /\ client \in [Clients -> Call]

\* A review that awaits or had a decision is about an existing card of the very
\* model that was validated and confirmed last: a call that was overtaken by the
\* result or the confirmation of another model records nothing of its own.  (One
\* overtaken by those of the same model does, over whatever review they left.)
ReviewBound ==
  session.review \in Bound =>
    /\ session.status = "completed" /\ session.confirmed = session.sha
    /\ session.card \in cards /\ session.card.model = session.sha

\* What the session calls published is in the database, though the two are
\* written one after the other and calls overtake each other (decide).
PublishedIsStored ==
  session.review = "published" => Known(session.card)

\* What a call carries from one section to the next: a card that exists, of the
\* model it goes on with and bound to the lessons that were named; an approval if it
\* goes to the database; an outcome that the database has.  It makes the invariants
\* above inductive, and keeps rows that come from no card out of the database.
Carries(call) ==
  /\ call.pc \in {"idle", "context", "evaluate"} => call.picks = None
  /\ call.pc = "evaluate" => call.model \in Models
  /\ call.pc = "check" =>
       call.card \in cards /\ (call.text = None => call.picks = None)
  /\ call.pc = "publish" =>
       call.card \in cards /\ call.card.model = call.model /\ call.text # None
  /\ call.pc \in {"publish", "record"} /\ call.picks # None => call.card.picks = call.picks
  /\ call.pc = "record" =>
       /\ call.status \in ReviewStatus
       /\ call.status \in Bound => call.card \in cards /\ call.card.model = call.model
       /\ call.status = "published" => Known(call.card)
CallsBound ==
  /\ \A x \in Card : Known(x) => x \in cards
  /\ \A c \in Clients : Carries(client[c])

\* Several clients decide one card, bind different selections of it, or revise it
\* while another decides: a decision that names lessons adds no rows but those of
\* the lessons it named, and leaves no other selection in design.json (decide).
DecidesAsNamed ==
  [][\A c \in Clients :
       client[c].picks # None /\ client'[c] # client[c] =>
         /\ \A x \in Card : ~Known(x) /\ Known(x)' => x.picks = client[c].picks
         /\ session' # session => session'.card.picks = client[c].picks]_vars

-----------------------------------------------------------------------------
(* Liveness *)

\* Sessions are read, calls end, the user approves again and again, the database
\* is not always down when asked, and not every call breaks off after its answer.
Fairness ==
  /\ WF_vars(Get)
  /\ \A c \in Clients :
       /\ WF_vars(Abandon(c)) /\ SF_vars(\E t \in Texts : Decide(c, t, None))
       /\ SF_vars(Check(c)) /\ SF_vars(Publish(c) \/ Resume(c))
       /\ SF_vars(Record(c) /\ client[c].status = "published")

FairSpec == Spec /\ Fairness

\* From some time on only c works on the session, and approves in the words t.
Alone(c, t) == <>[][Get \/ Decide(c, t, None) \/ Finishing(c) \/ Abandon(c)]_vars

\* A publication that has to be retried does not stay so, unless the database has
\* the card in other words or another state: then it stays so for good.
RetryEnds ==
  \A c \in Clients, t \in Texts :
    Alone(c, t) =>
      <>[]( session.review = "publish_retry_required" =>
              Known(session.card) /\ ~Resumable(session.card, t) )

=============================================================================
