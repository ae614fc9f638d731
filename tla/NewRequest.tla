----------------------------- MODULE NewRequest -----------------------------
(***************************************************************************)
(* A service request being written: routes/_protected/service-requests/    *)
(* new.tsx with the five steps of ServiceRequestStepper.tsx, in one tab.   *)
(* The vessel and the nomination are chosen in the first step and follow   *)
(* each other; a step is left for the next one only when it is valid. The  *)
(* request is created by the button of the last step, which waits for a    *)
(* creation, or by Enter in the only text input of the Documents step,     *)
(* which has no submit button and waits for nothing. The validation of a   *)
(* step ends before the next click.                                        *)
(*                                                                         *)
(* The details of a service are complete or not. A request that is created *)
(* goes on as RequestPage. A creation the user has walked away from is not *)
(* followed.                                                               *)
(***************************************************************************)
EXTENDS Naturals

CONSTANTS Vessels, Nominations, VesselOf

ASSUME VesselOfNomination == VesselOf \in [Nominations -> Vessels]

VARIABLES
  stage,    \* "away" or "form"
  wish,     \* the values of the form
  step,     \* the step shown, of 0..4
  filing,   \* the creation the page waits for: "none", "asked" or "applied"
  behind,   \* creations under way that it does not wait for any more
  made,     \* history: the requests created of this form
  unheard,  \* history: the answer of a creation was lost
  again     \* history: the form was submitted while a creation was under way

creation == <<filing, behind, made, unheard, again>>
wishVars == <<stage, wish, step, creation>>

Documents == 2
Review == 4
MostMade == 2    \* bounds the requests made of one form,
MostBehind == 1  \* and the creations that are not waited for
Wish == [vessel : Vessels \cup {"none"}, nomination : Nominations \cup {"none"},
         whole : BOOLEAN]
NoWish == [vessel |-> "none", nomination |-> "none", whole |-> FALSE]

\* The form, its steps and the creation have the source's shape.
WishTypeOK ==
  /\ stage \in {"away", "form"}
  /\ wish \in Wish /\ step \in 0..Review
  /\ filing \in {"none", "asked", "applied"}
  /\ behind \in 0..MostBehind /\ made \in 0..MostMade
  /\ {unheard, again} \subseteq BOOLEAN

WishInit ==
  /\ stage = "away" /\ wish = NoWish /\ step = 0
  /\ filing = "none" /\ behind = 0
  /\ made = 0 /\ unheard = FALSE /\ again = FALSE

-----------------------------------------------------------------------------
\* From the list, or from the page of a vessel, which is then chosen.
OpenStepper ==
  /\ stage = "away"
  /\ stage' = "form"
  /\ \E v \in Vessels \cup {"none"} : wish' = [NoWish EXCEPT !.vessel = v]
  /\ UNCHANGED <<step, creation>>

Unmounted ==
  /\ stage' = "away" /\ wish' = NoWish /\ step' = 0
  /\ filing' = "none" /\ behind' = 0
  /\ made' = 0 /\ unheard' = FALSE /\ again' = FALSE

\* By Cancel, which waits for the creation, or by any link, which does not.
LeaveStepper ==
  /\ stage = "form"
  /\ Unmounted

OnStep(s) == stage = "form" /\ step = s

\* Slip for a mutant: the nomination stays.
KeepsNomination(v) == [wish EXCEPT !.vessel = v]

WithVessel(v) == [wish EXCEPT !.vessel = v, !.nomination = "none"]

ChooseVessel ==
  /\ OnStep(0)
  /\ \E v \in Vessels \cup {"none"} : wish' = WithVessel(v)
  /\ UNCHANGED <<stage, step, creation>>

\* Those of the vessel are offered, or all while there is none, and choosing one
\* chooses its vessel. Clearing it leaves the vessel.
ChooseNomination ==
  /\ OnStep(0)
  /\ \/ \E n \in Nominations :
          /\ wish.vessel \in {"none", VesselOf[n]}
          /\ wish' = [wish EXCEPT !.nomination = n, !.vessel = VesselOf[n]]
     \/ wish' = [wish EXCEPT !.nomination = "none"]
  /\ UNCHANGED <<stage, step, creation>>

EditDetails ==
  /\ OnStep(1)
  /\ \E b \in BOOLEAN : wish' = [wish EXCEPT !.whole = b]
  /\ UNCHANGED <<stage, step, creation>>

StepValid(s) ==
  CASE s = 0 -> wish.vessel # "none"
    [] s = 1 -> wish.whole
    [] OTHER -> TRUE

NextStep ==
  /\ stage = "form" /\ step < Review
  /\ StepValid(step)
  /\ step' = step + 1
  /\ UNCHANGED <<stage, wish, creation>>

\* Slip for a mutant: any step can be clicked.
AnyStep == 0..Review

\* Back, and the headers: allowNextStepsSelect is false.
Reachable == {s \in 0..Review : s < step}

PriorStep ==
  /\ stage = "form"
  /\ \E s \in Reachable : step' = s
  /\ UNCHANGED <<stage, wish, creation>>

-----------------------------------------------------------------------------
\* Slip for a mutant: the button does not wait.
AlwaysFree == TRUE

\* isSaving
Free == filing = "none"

\* handleSubmit: the whole form is validated, and create.mutate called. The page
\* waits for the last creation only.
SubmitWish ==
  /\ StepValid(0) /\ StepValid(1)
  /\ filing' = "asked"
  /\ IF filing = "asked"
     THEN behind < MostBehind /\ behind' = behind + 1
     ELSE UNCHANGED behind
  /\ UNCHANGED <<stage, wish, step, made, unheard>>

ClickCreate ==
  /\ OnStep(Review) /\ Free
  /\ SubmitWish
  /\ UNCHANGED again

EnterVoucher ==
  /\ OnStep(Documents)
  /\ SubmitWish
  /\ again' = (again \/ filing # "none")

\* create, which tests again what the form has made sure of.
InsertRequest ==
  /\ made < MostMade
  /\ \/ filing = "asked" /\ filing' = "applied" /\ UNCHANGED behind
     \/ behind > 0 /\ behind' = behind - 1 /\ UNCHANGED filing
  /\ made' = made + 1
  /\ UNCHANGED <<stage, wish, step, unheard, again>>

\* The page of the request takes over: Papers.
RequestCreated ==
  /\ filing = "applied"
  /\ Unmounted

\* The form stays as it is. A creation is refused, or its answer is lost: one
\* that is on its way may still arrive.
RequestRefused ==
  /\ \/ filing = "asked" /\ filing' = "none" /\ UNCHANGED behind
     \/ behind > 0 /\ behind' = behind - 1 /\ UNCHANGED filing
  /\ UNCHANGED <<stage, wish, step, made, unheard, again>>

AnswerLost ==
  /\ \/ filing = "asked" /\ behind < MostBehind /\ behind' = behind + 1
     \/ filing = "applied" /\ UNCHANGED behind
  /\ filing' = "none"
  /\ unheard' = TRUE
  /\ UNCHANGED <<stage, wish, step, made, again>>

-----------------------------------------------------------------------------
WishNext ==
  \/ OpenStepper \/ LeaveStepper
  \/ ChooseVessel \/ ChooseNomination \/ EditDetails \/ NextStep \/ PriorStep
  \/ ClickCreate \/ EnterVoucher
  \/ InsertRequest \/ RequestRefused \/ AnswerLost

-----------------------------------------------------------------------------
\* The nomination the form has is one of the vessel it has, and the last step
\* shows only a form whose steps are all valid.
WishFits ==
  /\ wish.nomination # "none" => VesselOf[wish.nomination] = wish.vessel
  /\ step = Review => StepValid(0) /\ StepValid(1)

\* One form makes one request, unless the answer of a creation was lost and the
\* user has tried again, or Enter has submitted the form during a creation.
RequestedOnce == made > 1 => unheard \/ again
=============================================================================
