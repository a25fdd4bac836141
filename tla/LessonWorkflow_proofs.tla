------------------------- MODULE LessonWorkflow_proofs -------------------------
(***************************************************************************)
(* Type correctness of the lesson workflow, and the properties that bind a *)
(* review to its model, to the lessons a decision named and to the         *)
(* database, for every number of models, cards, selections, wordings and   *)
(* processes.                                                              *)
(***************************************************************************)
EXTENDS LessonWorkflow, TLAPS

ReviewInv == TypeOK /\ ReviewBound /\ PublishedIsStored /\ CallsBound

\* A card may be drafted, revised and selected without leaving the type.
LEMMA CardTypes ==
  /\ \A m \in Models, l \in Lists : BaseCard(m, l) \in Card /\ BaseCard(m, l).model = m
  /\ \A x \in Card, l \in Lists : Revision(x, l) \in Card /\ Revision(x, l).model = x.model
  /\ \A x \in Card, s \in Selections \cup {None} :
       LET y == [x EXCEPT !.picks = s]
       IN y \in Card /\ y.model = x.model /\ y.picks = s
<1>1. \A m \in Models, l \in Lists : BaseCard(m, l) \in Card /\ BaseCard(m, l).model = m
  BY DEF BaseCard, Card
<1>2. \A x \in Card, l \in Lists : Revision(x, l) \in Card /\ Revision(x, l).model = x.model
  <2> SUFFICES ASSUME NEW x \in Card, NEW l \in Lists
               PROVE  Revision(x, l) \in Card /\ Revision(x, l).model = x.model
    OBVIOUS
  <2>1. x.model \in Models /\ <<x.lessons, x.picks>> \in Lists \X (Selections \cup {None})
    BY DEF Card
  <2>2. Revision(x, l) = [model |-> x.model, lessons |-> l, picks |-> None,
                          revises |-> <<x.lessons, x.picks>>]
    BY DEF Revision, BaseCard
  <2> QED BY <2>1, <2>2 DEF Card
<1>3. \A x \in Card, s \in Selections \cup {None} :
        LET y == [x EXCEPT !.picks = s]
        IN y \in Card /\ y.model = x.model /\ y.picks = s
  BY DEF Card
<1> QED BY <1>1, <1>2, <1>3

\* What get returns keeps the invariant of the session.
LEMMA CurrentBound ==
  ASSUME TypeOK, ReviewBound, PublishedIsStored
  PROVE  /\ Current \in Session
         /\ Current.review \in Bound =>
              /\ Current.status = "completed" /\ Current.confirmed = Current.sha
              /\ Current.card \in cards /\ Current.card.model = Current.sha
         /\ Current.review = "published" => Known(Current.card)
<1>1. CASE session.status = "completed" /\ file # session.sha
  BY <1>1 DEF Current, TypeOK, Session, ReviewStatus, Bound, Decided
<1>2. CASE ~(session.status = "completed" /\ file # session.sha)
  BY <1>2 DEF Current, TypeOK, ReviewBound, PublishedIsStored
<1> QED BY <1>1, <1>2

LEMMA InitReviewInv == Init => ReviewInv
<1> SUFFICES ASSUME Init PROVE ReviewInv
  OBVIOUS
<1>1. TypeOK
  BY DEF Init, TypeOK, Session, ReviewStatus, Bound, Decided, Rows, Call, Idle
<1>2. ReviewBound /\ PublishedIsStored
  BY DEF Init, ReviewBound, PublishedIsStored, Bound, Decided
<1>3. CallsBound
  BY DEF Init, CallsBound, Carries, Known, Idle
<1> QED BY <1>1, <1>2, <1>3 DEF ReviewInv

\* ReviewBound and PublishedIsStored are about the session, CallsBound about the
\* rows and each call: regrouped, a step disturbs one of each.
SessionBound ==
  /\ session.review \in Bound =>
       /\ session.status = "completed" /\ session.confirmed = session.sha
       /\ session.card \in cards /\ session.card.model = session.sha
  /\ session.review = "published" => Known(session.card)
\* A step of one call, or of none: files that only grow keep what other calls carry.
LEMMA CallStep ==
  ASSUME ReviewInv,
         file' \in Models, session' \in Session, SessionBound',
         cards \subseteq cards', cards' \subseteq Card, stored' \in [Card -> Rows],
         \A x \in Card : (Known(x) => Known(x)') /\ (Known(x)' => x \in cards'),
         \/ client' = client
         \/ \E c \in Clients, call \in Call :
              client' = [client EXCEPT ![c] = call] /\ Carries(call)'
  PROVE  ReviewInv'
<1>1. TypeOK'
  BY DEF ReviewInv, TypeOK
<1>2. ReviewBound' /\ PublishedIsStored'
  BY DEF SessionBound, ReviewBound, PublishedIsStored
<1>3. \A d \in Clients : Carries(client[d])'
  <2> SUFFICES ASSUME NEW d \in Clients PROVE Carries(client[d])'
    OBVIOUS
  <2>1. CASE client'[d] = client[d]
    <3>1. client[d] \in Call /\ Carries(client[d])
      BY DEF ReviewInv, TypeOK, CallsBound
    <3>2. client[d].pc = "record" /\ client[d].status = "published" => Known(client[d].card)'
      <4> SUFFICES ASSUME client[d].pc = "record", client[d].status = "published"
                   PROVE  Known(client[d].card)'
        OBVIOUS
      <4>1. client[d].card \in cards /\ Known(client[d].card)
        BY <3>1 DEF Carries, Bound, Decided
      <4>2. client[d].card \in Card
        BY <4>1 DEF ReviewInv, TypeOK
      <4>3. stored'[client[d].card].text # None
        BY <4>1, <4>2 DEF Known
      <4> QED BY <4>3, <2>1 DEF Known
    <3> QED BY <2>1, <3>1, <3>2 DEF Carries, Known
  <2>2. CASE client'[d] # client[d]
    <3>1. PICK c \in Clients, call \in Call :
            client' = [client EXCEPT ![c] = call] /\ Carries(call)'
      BY <2>2
    <3>2. c = d /\ client'[d] = call
      BY <2>2, <3>1 DEF ReviewInv, TypeOK
    <3> QED BY <3>1, <3>2 DEF Carries, Known
  <2> QED BY <2>1, <2>2
<1>4. CallsBound'
  BY <1>3 DEF CallsBound
<1> QED BY <1>1, <1>2, <1>4 DEF ReviewInv

LEMMA SameSession ==
  ASSUME ReviewInv, UNCHANGED session, cards \subseteq cards',
         \A x \in Card : Known(x) => Known(x)'
  PROVE  session' \in Session /\ SessionBound'
<1>1. session.review = "published" => session.card \in Card
  BY DEF ReviewInv, TypeOK, ReviewBound, Bound, Decided
<1> QED BY <1>1 DEF ReviewInv, TypeOK, ReviewBound, PublishedIsStored, SessionBound, Known

LEMMA ReadSession ==
  ASSUME ReviewInv, session' = Current, UNCHANGED stored, cards \subseteq cards'
  PROVE  session' \in Session /\ SessionBound'
<1>1. /\ Current \in Session
      /\ Current.review \in Bound =>
           /\ Current.status = "completed" /\ Current.confirmed = Current.sha
           /\ Current.card \in cards /\ Current.card.model = Current.sha
      /\ Current.review = "published" => Known(Current.card)
  BY CurrentBound DEF ReviewInv
<1> QED BY <1>1 DEF SessionBound, Known

\* The rows and files of a step that leaves the database alone.
LEMMA SameRows ==
  ASSUME ReviewInv, UNCHANGED <<file, stored>>, cards \subseteq cards'
  PROVE  /\ file' \in Models /\ stored' \in [Card -> Rows]
         /\ \A x \in Card : (Known(x) => Known(x)') /\ (Known(x)' => x \in cards')
BY DEF ReviewInv, TypeOK, CallsBound, Known

LEMMA IdleCarries == Idle \in Call /\ Carries(Idle) /\ Carries(Idle)'
BY DEF Idle, Call, Carries

LEMMA EditStep ==
  ASSUME ReviewInv, NEW m \in Models, Edit(m) PROVE ReviewInv'
<1>1. file' \in Models /\ UNCHANGED <<session, cards, stored, client>>
  BY DEF Edit
<1>2. /\ stored' \in [Card -> Rows] /\ cards' \subseteq Card
      /\ \A x \in Card : (Known(x) => Known(x)') /\ (Known(x)' => x \in cards')
  BY <1>1 DEF ReviewInv, TypeOK, CallsBound, Known
<1>3. session' \in Session /\ SessionBound'
  BY <1>1, <1>2, SameSession
<1> QED BY <1>1, <1>2, <1>3, CallStep

LEMMA RecordResultStep ==
  ASSUME ReviewInv, NEW passed \in BOOLEAN, RecordResult(passed) PROVE ReviewInv'
<1>1. UNCHANGED <<file, cards, stored, client>>
  BY DEF RecordResult
<1>2. session' \in Session /\ SessionBound'
  BY DEF RecordResult, ReviewInv, TypeOK, Session, ReviewStatus, SessionBound, Bound, Decided
<1>3. cards' \subseteq Card
  BY <1>1 DEF ReviewInv, TypeOK
<1> QED BY <1>1, <1>2, <1>3, SameRows, CallStep

LEMMA GetStep == ASSUME ReviewInv, Get PROVE ReviewInv'
<1>1. session' = Current /\ UNCHANGED <<file, cards, stored, client>>
  BY DEF Get
<1>2. cards' \subseteq Card
  BY <1>1 DEF ReviewInv, TypeOK
<1> QED BY <1>1, <1>2, ReadSession, SameRows, CallStep

LEMMA RetireStep == ASSUME ReviewInv, NEW x \in Card, Retire(x) PROVE ReviewInv'
<1>1. UNCHANGED <<file, session, cards, client>>
  BY DEF Retire
<1>2. stored' = [stored EXCEPT ![x].changed = TRUE]
  BY DEF Retire
<1>3. stored' \in [Card -> Rows] /\ \A y \in Card : Known(y)' <=> Known(y)
  BY <1>2 DEF ReviewInv, TypeOK, Rows, Known
<1>4. /\ file' \in Models /\ cards' \subseteq Card
      /\ \A y \in Card : Known(y)' => y \in cards'
  BY <1>1, <1>3 DEF ReviewInv, TypeOK, CallsBound
<1>5. session' \in Session /\ SessionBound'
  BY <1>1, <1>3, SameSession
<1> QED BY <1>1, <1>3, <1>4, <1>5, CallStep

\* A call that goes on as `call', with the database and the model untouched.
LEMMA GoesStep ==
  ASSUME ReviewInv, UNCHANGED <<file, stored>>, cards \subseteq cards', cards' \subseteq Card,
         session' \in Session, SessionBound',
         NEW c \in Clients, NEW call \in Call, Goes(c, call), Carries(call)'
  PROVE  ReviewInv'
<1>1. client' = [client EXCEPT ![c] = call]
  BY DEF Goes
<1> QED BY <1>1, SameRows, CallStep

LEMMA AbandonStep ==
  ASSUME ReviewInv, NEW c \in Clients, Abandon(c) PROVE ReviewInv'
<1>1. UNCHANGED <<file, session, cards, stored>> /\ Goes(c, Idle)
  BY DEF Abandon, Returns
<1>2. cards' \subseteq Card
  BY <1>1 DEF ReviewInv, TypeOK
<1>3. session' \in Session /\ SessionBound'
  BY <1>1, SameSession DEF Known
<1> QED BY <1>1, <1>2, <1>3, IdleCarries, GoesStep

LEMMA EvaluateRaisesStep ==
  ASSUME ReviewInv, NEW c \in Clients, EvaluateRaises(c) PROVE ReviewInv'
<1>1. UNCHANGED <<file, cards, stored>> /\ session' = Current /\ Goes(c, Idle)
  BY DEF EvaluateRaises, Returns
<1>2. cards' \subseteq Card
  BY <1>1 DEF ReviewInv, TypeOK
<1> QED BY <1>1, <1>2, ReadSession, IdleCarries, GoesStep

LEMMA ConfirmStep ==
  ASSUME ReviewInv, NEW c \in Clients, NEW w \in Lists \cup {"errors", "none"},
         NEW r \in BOOLEAN, Confirm(c, w, r)
  PROVE  ReviewInv'
<1> DEFINE call == [Idle EXCEPT !.pc = "context", !.wants = w, !.revises = r]
<1>1. UNCHANGED <<file, cards, stored>> /\ Goes(c, call)
  BY DEF Confirm
<1>2. cards' \subseteq Card
  BY <1>1 DEF ReviewInv, TypeOK
<1>3. call \in Call /\ Carries(call)'
  BY DEF Idle, Call, Carries
<1>4. session' \in Session /\ SessionBound'
  <2>1. CASE Confirmed
    BY <1>1, <2>1, SameSession DEF Confirm, Known
  <2>2. CASE ~Confirmed
    <3>1. session' = [session EXCEPT !.confirmed = session.sha,
                                     !.review = "evaluation_pending", !.card = None]
      BY <2>2 DEF Confirm
    <3> QED BY <3>1 DEF ReviewInv, TypeOK, Session, ReviewStatus, SessionBound, Bound, Decided
  <2> QED BY <2>1, <2>2
<1> HIDE DEF call
<1> QED BY <1>1, <1>2, <1>3, <1>4, GoesStep

LEMMA ContextStep ==
  ASSUME ReviewInv, NEW c \in Clients, Context(c) PROVE ReviewInv'
<1>1. /\ UNCHANGED <<file, session, cards, stored>> /\ Confirmed
      /\ Goes(c, [client[c] EXCEPT !.pc = "evaluate", !.model = session.sha])
  BY DEF Context
<1>2. cards' \subseteq Card
  BY <1>1 DEF ReviewInv, TypeOK
<1>3. session.sha \in Models /\ client[c] \in Call /\ client[c].picks = None
  BY <1>1 DEF Context, ReviewInv, TypeOK, Confirmed, Confirmable, CallsBound, Carries
<1>4. PICK call \in Call : call = [client[c] EXCEPT !.pc = "evaluate", !.model = session.sha]
  BY <1>3 DEF Call
<1>5. call.pc = "evaluate" /\ call.model \in Models /\ call.picks = None
  BY <1>3, <1>4 DEF Call
<1>6. Carries(call)'
  BY <1>5 DEF Carries
<1>7. session' \in Session /\ SessionBound'
  BY <1>1, SameSession DEF Known
<1>8. Goes(c, call)
  BY <1>1, <1>4
<1> QED BY <1>1, <1>2, <1>6, <1>7, <1>8, GoesStep

LEMMA DecideStep ==
  ASSUME ReviewInv, NEW c \in Clients, NEW t \in Texts \cup {None},
         NEW s \in Selections \cup {None}, Decide(c, t, s)
  PROVE  ReviewInv'
<1>1. /\ UNCHANGED <<file, cards, stored>> /\ session' = Current
      /\ Goes(c, [Idle EXCEPT !.pc = "check", !.text = t, !.picks = s, !.card = Current.card])
      /\ Undecided(Current) /\ (t = None => s = None)
  BY DEF Decide
<1>2. cards' \subseteq Card
  BY <1>1 DEF ReviewInv, TypeOK
<1>3. Current.card \in cards /\ Current.card \in Card
  BY <1>1, CurrentBound DEF Undecided, Bound, Decided, ReviewInv, TypeOK
<1>4. PICK call \in Call :
        call = [Idle EXCEPT !.pc = "check", !.text = t, !.picks = s, !.card = Current.card]
  BY <1>3 DEF Idle, Call
<1>5. call.pc = "check" /\ call.card \in cards /\ call.text = t /\ call.picks = s
  BY <1>3, <1>4 DEF Idle
<1>6. Carries(call)'
  BY <1>1, <1>5 DEF Carries
<1>7. session' \in Session /\ SessionBound'
  BY <1>1, ReadSession
<1>8. Goes(c, call)
  BY <1>1, <1>4
<1> QED BY <1>1, <1>2, <1>6, <1>7, <1>8, GoesStep

\* A call that comes to record a review.
LEMMA RecordsCarries ==
  ASSUME ReviewInv, NEW c \in Clients, NEW st \in ReviewStatus, NEW x \in Card \cup {None},
         Records(c, st, x),
         st \in Bound => x \in cards' /\ x.model = client[c].model,
         client[c].picks # None => x.picks = client[c].picks,
         st = "published" => Known(x)'
  PROVE  \E call \in Call : Goes(c, call) /\ Carries(call)'
<1>1. client[c] \in Call
  BY DEF ReviewInv, TypeOK
<1>2. client[c].model \in Models \cup {None} /\ client[c].picks \in Selections \cup {None}
  BY <1>1 DEF Call
<1>3. PICK call \in Call : call = [Idle EXCEPT !.pc = "record", !.model = client[c].model,
                                              !.picks = client[c].picks,
                                              !.status = st, !.card = x]
  BY <1>2 DEF Idle, Call
<1>4. /\ call.pc = "record" /\ call.status = st /\ call.card = x
      /\ call.model = client[c].model /\ call.picks = client[c].picks
  BY <1>3 DEF Idle
<1>5. Carries(call)'
  BY <1>4 DEF Carries
<1>6. Goes(c, call)
  BY <1>3 DEF Records
<1> QED BY <1>5, <1>6

LEMMA RevisedTypes ==
  ASSUME NEW x \in Card, NEW l \in Lists, NEW y \in Revised(x, l)
  PROVE  y \in Card /\ y.model = x.model
BY CardTypes DEF Revised

LEMMA EvaluateStep ==
  ASSUME ReviewInv, NEW c \in Clients, Evaluate(c) PROVE ReviewInv'
<1>1. /\ client[c] \in Call /\ client[c].pc = "evaluate" /\ client[c].model \in Models
      /\ client[c].picks = None /\ session' = Current /\ UNCHANGED <<file, stored>>
  BY DEF ReviewInv, TypeOK, CallsBound, Carries, Evaluate
<1>2. CASE client[c].wants \in Lists
  <2>1. PICK x \in IF client[c].revises THEN Revised(Current.card, client[c].wants)
                  ELSE Drafted(client[c].model, client[c].wants) :
          cards' = cards \cup {x} /\ Records(c, "review_pending", x)
    BY <1>2 DEF Evaluate
  <2>2. x \in Card /\ x.model = client[c].model
    <3>1. CASE client[c].revises
      <4>1. Current.review = "review_pending" /\ Current.card.model = client[c].model
        BY <3>1 DEF Evaluate
      <4>2. Current.card \in Card
        BY <4>1, CurrentBound DEF Bound, Decided, ReviewInv, TypeOK
      <4>3. x \in Revised(Current.card, client[c].wants)
        BY <2>1, <3>1
      <4> QED BY <1>2, <4>1, <4>2, <4>3, RevisedTypes
    <3>2. CASE ~client[c].revises
      <4>1. x \in Drafted(client[c].model, client[c].wants)
        BY <2>1, <3>2
      <4>2. x = BaseCard(client[c].model, client[c].wants)
        BY <4>1 DEF Drafted
      <4> QED BY <1>1, <1>2, <4>2, CardTypes
    <3> QED BY <3>1, <3>2
  <2>3. cards \subseteq cards' /\ cards' \subseteq Card /\ x \in cards'
    BY <2>1, <2>2 DEF ReviewInv, TypeOK
  <2>4. "review_pending" \in ReviewStatus
    BY DEF ReviewStatus, Bound
  <2>5. PICK call \in Call : Goes(c, call) /\ Carries(call)'
    BY <1>1, <2>1, <2>2, <2>3, <2>4, RecordsCarries
  <2> QED BY <1>1, <2>3, <2>5, ReadSession, GoesStep
<1>3. CASE client[c].wants \notin Lists
  <2>1. PICK st \in {"candidate_errors", "no_material_lessons"} : Records(c, st, None)
    BY <1>3 DEF Evaluate
  <2>2. cards' = cards /\ cards' \subseteq Card
    BY <1>3 DEF Evaluate, ReviewInv, TypeOK
  <2>3. st \in ReviewStatus /\ st \notin Bound /\ st # "published"
    BY DEF ReviewStatus, Bound, Decided
  <2>4. PICK call \in Call : Goes(c, call) /\ Carries(call)'
    BY <1>1, <2>1, <2>3, RecordsCarries
  <2> QED BY <1>1, <2>2, <2>4, ReadSession, GoesStep
<1> QED BY <1>2, <1>3

LEMMA RecordStep ==
  ASSUME ReviewInv, NEW c \in Clients, Record(c) PROVE ReviewInv'
<1> DEFINE call == client[c]
<1>1. /\ call \in Call /\ call.pc = "record" /\ Carries(call) /\ Recordable(c)
      /\ session' = [session EXCEPT !.review = call.status, !.card = call.card]
      /\ UNCHANGED <<file, cards, stored>>
  BY DEF Record, ReviewInv, TypeOK, CallsBound
<1>2. cards' \subseteq Card
  BY <1>1 DEF ReviewInv, TypeOK
<1>3. session' \in Session
  <2>1. call.status \in ReviewStatus /\ call.card \in Card \cup {None}
    BY <1>1 DEF Call, Carries
  <2> QED BY <1>1, <2>1 DEF ReviewInv, TypeOK, Session
<1>4. SessionBound'
  <2>1. /\ session'.review = call.status /\ session'.card = call.card
        /\ session'.status = "completed" /\ session'.confirmed = session'.sha
        /\ session'.sha = call.model
    BY <1>1 DEF ReviewInv, TypeOK, Session, Recordable, Confirmed, Confirmable
  <2> QED BY <1>1, <2>1 DEF SessionBound, Carries, Known
<1>5. CASE call.status = "review_pending" /\ call.text # None
  <2>1. PICK next \in Call : next = [call EXCEPT !.pc = "publish", !.status = None]
    BY <1>1 DEF Call
  <2>2. /\ next.pc = "publish" /\ next.card = call.card /\ next.model = call.model
        /\ next.text = call.text /\ next.picks = call.picks
    BY <1>1, <2>1 DEF Call
  <2>3. Carries(next)'
    BY <1>1, <1>5, <2>2 DEF Carries, Bound
  <2>4. Goes(c, next)
    BY <1>5, <2>1 DEF Record
  <2> QED BY <1>1, <1>2, <1>3, <1>4, <2>3, <2>4, GoesStep
<1>6. CASE ~(call.status = "review_pending" /\ call.text # None)
  <2>1. Goes(c, Idle)
    BY <1>6 DEF Record, Returns
  <2> QED BY <1>1, <1>2, <1>3, <1>4, <2>1, IdleCarries, GoesStep
<1> QED BY <1>5, <1>6

LEMMA CheckStep ==
  ASSUME ReviewInv, NEW c \in Clients, Check(c) PROVE ReviewInv'
<1> DEFINE call == client[c]
           bound == [call EXCEPT !.model = session.sha]
           selected == [call.card EXCEPT !.picks = call.picks]
<1>1. /\ call \in Call /\ call.pc = "check" /\ Carries(call) /\ Matches(c)
      /\ UNCHANGED <<file, session, stored>>
  BY DEF Check, ReviewInv, TypeOK, CallsBound
<1>2. /\ call.card \in cards /\ call.card \in Card /\ cards \subseteq Card
      /\ call.card.model = session.sha /\ session.sha \in Models
  BY <1>1 DEF Carries, Matches, Confirmed, Confirmable, ReviewInv, TypeOK
<1>3. /\ bound \in Call /\ bound.model = session.sha /\ bound.card = call.card
      /\ bound.text = call.text /\ bound.picks = call.picks /\ bound.status = call.status
  BY <1>1, <1>2 DEF Call
<1>4. cards \subseteq cards' => session' \in Session /\ SessionBound'
  BY <1>1, SameSession DEF Known
<1>5. \/ /\ call.text = None /\ UNCHANGED cards
         /\ Goes(c, [bound EXCEPT !.pc = "record", !.status = "declined"])
      \/ /\ call.text # None /\ Agrees(call) /\ UNCHANGED cards
         /\ Goes(c, [bound EXCEPT !.pc = "publish"])
      \/ /\ call.picks # None /\ call.card.picks = None
         /\ cards' = cards \cup {selected}
         /\ Goes(c, [bound EXCEPT !.pc = "record", !.status = "review_pending",
                                  !.card = selected])
  BY DEF Check
<1> HIDE DEF bound
<1>6. CASE /\ call.text = None /\ UNCHANGED cards
           /\ Goes(c, [bound EXCEPT !.pc = "record", !.status = "declined"])
  <2>1. PICK next \in Call : next = [bound EXCEPT !.pc = "record", !.status = "declined"]
    BY <1>3 DEF Call, ReviewStatus, Bound, Decided
  <2>2. /\ next.pc = "record" /\ next.status = "declined" /\ next.card = call.card
        /\ next.model = session.sha /\ next.picks = None
    BY <1>1, <1>3, <1>6, <2>1 DEF Call, Carries
  <2>3. Carries(next)'
    BY <1>2, <1>6, <2>2 DEF Carries, ReviewStatus, Bound, Decided
  <2> QED BY <1>1, <1>2, <1>4, <1>6, <2>1, <2>3, GoesStep
<1>7. CASE /\ call.text # None /\ Agrees(call) /\ UNCHANGED cards
           /\ Goes(c, [bound EXCEPT !.pc = "publish"])
  <2>1. PICK next \in Call : next = [bound EXCEPT !.pc = "publish"]
    BY <1>3 DEF Call
  <2>2. /\ next.pc = "publish" /\ next.card = call.card /\ next.model = session.sha
        /\ next.text = call.text /\ next.picks = call.picks
    BY <1>3, <2>1 DEF Call
  <2>3. Carries(next)'
    BY <1>2, <1>7, <2>2 DEF Carries, Agrees
  <2> QED BY <1>1, <1>2, <1>4, <1>7, <2>1, <2>3, GoesStep
<1>8. CASE /\ call.picks # None /\ call.card.picks = None
           /\ cards' = cards \cup {selected}
           /\ Goes(c, [bound EXCEPT !.pc = "record", !.status = "review_pending",
                                    !.card = selected])
  <2>1. call.picks \in Selections \cup {None}
    BY <1>1 DEF Call
  <2>2. selected \in Card /\ selected.model = session.sha /\ selected.picks = call.picks
    BY <1>2, <2>1, CardTypes
  <2>3. cards \subseteq cards' /\ cards' \subseteq Card /\ selected \in cards'
    BY <1>2, <1>8, <2>2
  <2> HIDE DEF selected
  <2>4. PICK next \in Call : next = [bound EXCEPT !.pc = "record", !.status = "review_pending",
                                                  !.card = selected]
    BY <1>3, <2>2 DEF Call, ReviewStatus, Bound
  <2>5. /\ next.pc = "record" /\ next.status = "review_pending" /\ next.card = selected
        /\ next.model = session.sha /\ next.picks = call.picks
    BY <1>3, <2>4 DEF Call
  <2>6. Carries(next)'
    BY <2>2, <2>3, <2>5 DEF Carries, ReviewStatus, Bound
  <2>7. Goes(c, next)
    BY <1>8, <2>4
  <2> QED BY <1>1, <1>4, <2>3, <2>6, <2>7, GoesStep
<1> QED BY <1>6, <1>7, <1>8, <1>5

\* An answer of the database, or the lack of one: rows of the call's card only appear.
LEMMA AnsweredStep ==
  ASSUME ReviewInv, NEW c \in Clients, client[c].pc = "publish",
         NEW rows \in [Card -> Rows], NEW st \in {"published", FailureStatus},
         \A x \in Card : Known(x) => rows[x].text # None,
         \A x \in Card : rows[x].text # None => Known(x) \/ x = client[c].card,
         st = "published" => rows[client[c].card].text # None,
         Answered(c, rows, st)
  PROVE  ReviewInv'
<1>1. PICK x \in Card : /\ x = client[c].card /\ x \in cards /\ x.model = client[c].model
                        /\ client[c].picks # None => x.picks = client[c].picks
  BY DEF ReviewInv, TypeOK, CallsBound, Carries
<1>2. /\ stored' = rows /\ Records(c, st, x) /\ UNCHANGED <<file, session, cards>>
  BY <1>1 DEF Answered, CardDecided
<1>3. \A y \in Card : (Known(y) => Known(y)') /\ (Known(y)' => y \in cards')
  BY <1>1, <1>2 DEF Known, ReviewInv, CallsBound
<1>4. file' \in Models /\ cards' \subseteq Card
  BY <1>2 DEF ReviewInv, TypeOK
<1>5. session' \in Session /\ SessionBound'
  BY <1>2, <1>3, SameSession
<1>6. st \in ReviewStatus
  BY DEF ReviewStatus, Bound, Decided, FailureStatus
<1>7. st = "published" => Known(x)'
  BY <1>1, <1>2 DEF Known
<1>8. PICK next \in Call : Goes(c, next) /\ Carries(next)'
  BY <1>1, <1>2, <1>6, <1>7, RecordsCarries
<1> QED BY <1>2, <1>3, <1>4, <1>5, <1>8, CallStep DEF Goes

LEMMA PublishStep ==
  ASSUME ReviewInv, NEW c \in Clients, Publish(c) PROVE ReviewInv'
<1> DEFINE rows == [stored EXCEPT ![client[c].card].text = client[c].text]
<1>1. client[c].pc = "publish" /\ ~Known(client[c].card)
  BY DEF Publish, CardDecided
<1>2. PICK st \in {"published", FailureStatus} : Answered(c, rows, st)
  BY DEF Publish, CardDecided
<1>3. client[c] \in Call /\ client[c].card \in Card /\ client[c].text # None
  BY <1>1 DEF ReviewInv, TypeOK, CallsBound, Carries
<1>4. client[c].text \in Texts \cup {None}
  BY <1>3 DEF Call
<1>5. rows \in [Card -> Rows]
  BY <1>3, <1>4 DEF ReviewInv, TypeOK, Rows
<1>6. /\ rows[client[c].card].text # None
      /\ \A x \in Card : Known(x) => rows[x].text # None
      /\ \A x \in Card : rows[x].text # None => Known(x) \/ x = client[c].card
  BY <1>3, <1>4 DEF ReviewInv, TypeOK, Rows, Known
<1> HIDE DEF rows
<1> QED BY <1>1, <1>2, <1>5, <1>6, AnsweredStep

LEMMA ResumeStep ==
  ASSUME ReviewInv, NEW c \in Clients, Resume(c) PROVE ReviewInv'
<1>1. /\ client[c].pc = "publish" /\ Resumable(client[c].card, client[c].text)
      /\ Answered(c, stored, "published")
  BY DEF Resume, CardDecided
<1>2. stored[client[c].card].text # None
  BY <1>1 DEF Resumable, ReviewInv, CallsBound, Carries
<1>3. stored \in [Card -> Rows]
  BY DEF ReviewInv, TypeOK
<1> QED BY <1>1, <1>2, <1>3, AnsweredStep DEF Known

LEMMA PublishFailsStep ==
  ASSUME ReviewInv, NEW c \in Clients, PublishFails(c) PROVE ReviewInv'
<1>1. client[c].pc = "publish" /\ Answered(c, stored, FailureStatus)
  BY DEF PublishFails
<1>2. stored \in [Card -> Rows] /\ FailureStatus # "published"
  BY DEF ReviewInv, TypeOK, FailureStatus
<1> QED BY <1>1, <1>2, AnsweredStep DEF Known

LEMMA StutterStep == ASSUME ReviewInv, UNCHANGED vars PROVE ReviewInv'
BY DEF vars, ReviewInv, TypeOK, ReviewBound, PublishedIsStored, CallsBound,
       Carries, Known

LEMMA NextStep == ReviewInv /\ [Next]_vars => ReviewInv'
<1> SUFFICES ASSUME ReviewInv, [Next]_vars PROVE ReviewInv'
  OBVIOUS
<1>1. CASE \E m \in Models : Edit(m)
  BY <1>1, EditStep
<1>2. CASE \E passed \in BOOLEAN : RecordResult(passed)
  BY <1>2, RecordResultStep
<1>3. CASE Get
  BY <1>3, GetStep
<1>4. CASE \E x \in Card : Retire(x)
  BY <1>4, RetireStep
<1>5. ASSUME NEW c \in Clients, Confirming(c) PROVE ReviewInv'
  BY <1>5, ConfirmStep, ContextStep, EvaluateStep, EvaluateRaisesStep DEF Confirming
<1>6. ASSUME NEW c \in Clients, Finishing(c) PROVE ReviewInv'
  BY <1>6, CheckStep, PublishStep, ResumeStep, PublishFailsStep, RecordStep DEF Finishing
<1>7. ASSUME NEW c \in Clients, Abandon(c) PROVE ReviewInv'
  BY <1>7, AbandonStep
<1>8. ASSUME NEW c \in Clients, NEW t \in Texts \cup {None}, NEW p \in Selections \cup {None},
             Decide(c, t, p)
      PROVE  ReviewInv'
  BY <1>8, DecideStep
<1>9. CASE UNCHANGED vars
  BY <1>9, StutterStep
<1> QED BY <1>1, <1>2, <1>3, <1>4, <1>5, <1>6, <1>7, <1>8, <1>9 DEF Next

-----------------------------------------------------------------------------
\* The conjunction of the invariants below is inductive: none but the type is so
\* alone, because what is recorded was carried through the sections of a call.
THEOREM ReviewCorrect == Spec => []ReviewInv
<1>1. Init => ReviewInv
  BY InitReviewInv
<1>2. ReviewInv /\ [Next]_vars => ReviewInv'
  BY NextStep
<1> QED BY <1>1, <1>2, PTL DEF Spec

\* design.json, the cards, the rows and every call keep their shape, whatever
\* calls of confirm and decide interleave or break off.
THEOREM LessonTypeCorrect == Spec => []TypeOK
<1>1. ReviewInv => TypeOK
  BY DEF ReviewInv
<1> QED BY <1>1, ReviewCorrect, PTL

\* design.json never holds a pending, declined or published review of a model
\* other than the one validated and confirmed last (record_lesson_review).
THEOREM ReviewsAreBound == Spec => []ReviewBound
<1>1. ReviewInv => ReviewBound
  BY DEF ReviewInv
<1> QED BY <1>1, ReviewCorrect, PTL

\* A review recorded as published has its rows in the database, although decide
\* writes the database and design.json one after the other.
THEOREM PublishedReviewsAreStored == Spec => []PublishedIsStored
<1>1. ReviewInv => PublishedIsStored
  BY DEF ReviewInv
<1> QED BY <1>1, ReviewCorrect, PTL

\* Between its sections confirm or decide carries a card that exists, of the
\* model it records for; and no row comes from a card without a file.
THEOREM CallsCarryCards == Spec => []CallsBound
<1>1. ReviewInv => CallsBound
  BY DEF ReviewInv
<1> QED BY <1>1, ReviewCorrect, PTL
-----------------------------------------------------------------------------
\* What c does next is the work of c, and one of the three sections of a decision if
\* its call has named lessons.
LEMMA DecidingStep ==
  ASSUME ReviewInv, Next, NEW c \in Clients, client[c].picks # None, client'[c] # client[c]
  PROVE  Finishing(c) \/ Abandon(c)
<1>1. /\ client \in [Clients -> Call]
      /\ client[c].pc \notin {"idle", "context", "evaluate"}
  BY DEF ReviewInv, TypeOK, CallsBound, Carries
<1>2. \A d \in Clients : \A call : Goes(d, call) => d = c
  BY <1>1 DEF Goes
<1>3. ASSUME NEW d \in Clients, Confirming(d) PROVE FALSE
  <2>1. CASE \E w \in Lists \cup {"errors", "none"}, r \in BOOLEAN : Confirm(d, w, r)
    BY <1>1, <1>2, <2>1 DEF Confirm
  <2>2. CASE Context(d)
    BY <1>1, <1>2, <2>2 DEF Context
  <2>3. CASE Evaluate(d)
    BY <1>1, <1>2, <2>3 DEF Evaluate, Records
  <2>4. CASE EvaluateRaises(d)
    BY <1>1, <1>2, <2>4 DEF EvaluateRaises, Returns
  <2> QED BY <1>3, <2>1, <2>2, <2>3, <2>4 DEF Confirming
<1>4. ASSUME NEW d \in Clients, Finishing(d) PROVE d = c
  BY <1>2, <1>4 DEF Finishing, Check, Publish, Resume, PublishFails, Answered, Record, Records,
                    Returns
<1>5. ASSUME NEW d \in Clients, Abandon(d) PROVE d = c
  BY <1>2, <1>5 DEF Abandon, Returns
<1>6. ASSUME NEW d \in Clients, NEW t \in Texts \cup {None}, NEW p \in Selections \cup {None},
             Decide(d, t, p)
      PROVE  FALSE
  BY <1>1, <1>2, <1>6 DEF Decide
<1>7. ~(\E m \in Models : Edit(m)) /\ ~(\E passed \in BOOLEAN : RecordResult(passed))
  BY DEF Edit, RecordResult
<1>8. ~Get /\ ~(\E x \in Card : Retire(x))
  BY DEF Get, Retire
<1> QED BY <1>3, <1>4, <1>5, <1>6, <1>7, <1>8 DEF Next

\* The sections of a decision that named lessons write those lessons or nothing.
LEMMA NamedStep ==
  ASSUME ReviewInv, Next, NEW c \in Clients, client[c].picks # None, client'[c] # client[c]
  PROVE  /\ \A x \in Card : ~Known(x) /\ Known(x)' => x.picks = client[c].picks
         /\ session' # session => session'.card.picks = client[c].picks
<1>1. Finishing(c) \/ Abandon(c)
  BY DecidingStep
<1>2. client[c].pc \in {"publish", "record"} => client[c].card.picks = client[c].picks
  BY DEF ReviewInv, CallsBound, Carries
<1>3. CASE Check(c) \/ Abandon(c)
  BY <1>3 DEF Check, Abandon, Known
<1>4. CASE Record(c)
  <2>1. session \in Session /\ client[c].pc = "record" /\ UNCHANGED stored
    BY <1>4 DEF Record, ReviewInv, TypeOK
  <2>2. session'.card = client[c].card
    BY <1>4, <2>1 DEF Record, Session
  <2> QED BY <1>2, <2>1, <2>2 DEF Known
<1>5. CASE Publish(c)
  <2>1. PICK text : stored' = [stored EXCEPT ![client[c].card].text = text]
    BY <1>5 DEF Publish, Answered, CardDecided
  <2>2. client[c].pc = "publish" /\ stored \in [Card -> Rows] /\ UNCHANGED session
    BY <1>5 DEF Publish, Answered, ReviewInv, TypeOK
  <2>3. \A x \in Card : x # client[c].card => stored'[x] = stored[x]
    BY <2>1, <2>2
  <2> QED BY <1>2, <2>2, <2>3 DEF Known
<1>6. CASE Resume(c) \/ PublishFails(c)
  BY <1>6 DEF Resume, PublishFails, Answered, Known
<1> QED BY <1>1, <1>3, <1>4, <1>5, <1>6 DEF Finishing

\* Whatever other clients bind, revise or decide in between, a decision that names
\* lessons adds no other rows and leaves no other selection on record (decide).
THEOREM DecisionsAsNamed == Spec => DecidesAsNamed
<1>1. ReviewInv /\ [Next]_vars =>
        [\A c \in Clients :
           client[c].picks # None /\ client'[c] # client[c] =>
             /\ \A x \in Card : ~Known(x) /\ Known(x)' => x.picks = client[c].picks
             /\ session' # session => session'.card.picks = client[c].picks]_vars
  BY NamedStep
<1> QED BY <1>1, ReviewCorrect, PTL DEF Spec, DecidesAsNamed

==============================================================================
