------------------------------ MODULE MCRetries ------------------------------
(***************************************************************************)
(* Two retries that somebody goes on making: the publication of a review   *)
(* card, and that of a finished run.  They share no state.  A behaviour is *)
(* a behaviour of one of them, the initial state says of which; the other  *)
(* stays in an initial state of its own, where no fair action is enabled.  *)
(***************************************************************************)
EXTENDS Naturals

CONSTANTS None, m1, m2, l1, t1, c1, r1

VARIABLES part,
  lFile, lSession, lCards, lStored, lClient,
  aOrigin, aModel, aAnalysis, aRevisions, aRun, aFigures, aVersions, aIndexed, aHead,
  aReceipts, aClient, aDeaths

lvars == <<lFile, lSession, lCards, lStored, lClient>>
avars == <<aOrigin, aModel, aAnalysis, aRevisions, aRun, aFigures, aVersions, aIndexed, aHead,
           aReceipts, aClient, aDeaths>>
vars == <<part, lvars, avars>>

L == INSTANCE LessonWorkflow WITH
  Models <- {m1}, Lists <- {l1}, Long <- {}, Selections <- {}, Texts <- {t1},
  Clients <- {c1},
  file <- lFile, session <- lSession, cards <- lCards, stored <- lStored, client <- lClient
A == INSTANCE AnalysisReview WITH
  Clients <- {c1}, Runs <- {r1}, Contents <- {m1, m2},
  MaxRevisions <- 2, MaxVersions <- 2, MaxDeaths <- 1,
  origin <- aOrigin, model <- aModel, analysis <- aAnalysis, revisions <- aRevisions,
  run <- aRun, figures <- aFigures, versions <- aVersions, indexed <- aIndexed,
  head <- aHead, receipts <- aReceipts, client <- aClient, deaths <- aDeaths

Init == part \in {"lesson", "analysis"} /\ L!Init /\ A!Init
          /\ (part = "lesson" => aOrigin = m1 /\ aModel = m1) /\ (part = "analysis" => lFile = m1)
Next ==
  \/ part = "lesson" /\ L!Next /\ UNCHANGED <<part, avars>>
  \/ part = "analysis" /\ A!Next /\ UNCHANGED <<part, lvars>>
FairSpec == Init /\ [][Next]_vars /\ L!Fairness /\ A!Fairness

-----------------------------------------------------------------------------
\* A publication of lessons that has to be retried does not stay so.
RetryEnds == L!RetryEnds
\* A finished run does not hold its analysis for ever.
PublicationEnds == A!PublicationEnds
=============================================================================
