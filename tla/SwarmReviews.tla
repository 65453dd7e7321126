---------------------------- MODULE SwarmReviews ----------------------------
(***************************************************************************)
(* Two ways in which agents answer together through swarm.db.              *)
(*                                                                         *)
(* A challenge: an agent whose profile requires dissent leaves its draft   *)
(* for a reviewer and waits, polling the row until it is answered or the   *)
(* deadline passes; the reviewer's intake may be late, fail or die.        *)
(*                                                                         *)
(* A council: each participant submits a position of its own when its      *)
(* intake finds the session gathering, and the initiator's intake writes   *)
(* one answer once all positions are in.                                   *)
(***************************************************************************)
EXTENDS Naturals, FiniteSets

CONSTANTS Participants, \* the agents invited to the council
          Synthesizers, \* the polls of the initiator's intake, which may overlap
          MaxFails      \* bound on runs that fail or die

ASSUME ReviewsAssumption == IsFiniteSet(Participants) /\ MaxFails \in Nat

VARIABLES
    challenge,  \* the row of the challenge, and whether a verdict was written
    author,     \* the step of the author in review_before_send
    used,       \* what the author sent: nothing yet, the review, or the bare draft
    reviewer,   \* the step of the reviewer's intake
    council,    \* the state of the session
    positions,  \* the participants whose position is stored
    member,     \* the step of each participant's intake
    synthesis,  \* per poll of the initiator: its step and the positions it read
    answers,    \* answers of the council shown in the chat
    fails       \* failures so far

challengeVars == <<challenge, author, used, reviewer>>
councilVars == <<council, positions, member, synthesis, answers>>
reviewVars == <<challengeVars, councilVars, fails>>

ReviewsTypeOK ==
    /\ challenge \in {"none", "pending", "reviewing", "answered", "timeout"}
    /\ author \in {"drafting", "waiting", "late", "beaten", "done"}
    /\ used \in {"nothing", "review", "unreviewed", "draft"}
    /\ reviewer \in {"idle", "reviewing"}
    /\ council \in {"gathering", "synthesizing", "done", "failed"}
    /\ positions \subseteq Participants
    /\ member \in [Participants -> {"idle", "thinking"}]
    /\ synthesis \in [Synthesizers -> [step: {"idle", "listed", "claimed", "shown", "unshown"},
                                       read: SUBSET Participants]]
    /\ answers \in Nat /\ fails \in 0..MaxFails

InitReviews ==
    /\ challenge = "none" /\ author = "drafting" /\ used = "nothing"
    /\ reviewer = "idle"
    /\ council = "gathering" /\ positions = {}
    /\ member = [p \in Participants |-> "idle"]
    /\ synthesis = [s \in Synthesizers |-> [step |-> "idle", read |-> {}]]
    /\ answers = 0 /\ fails = 0

-----------------------------------------------------------------------------
\* The challenge.

RequestChallenge ==
    /\ author = "drafting"
    /\ challenge' = "pending" /\ author' = "waiting"
    /\ UNCHANGED <<used, reviewer, councilVars, fails>>

\* One turn of the author's loop finds the row answered.
SeeVerdict ==
    /\ author = "waiting" /\ challenge = "answered"
    /\ author' = "done" /\ used' = "review"
    /\ UNCHANGED <<challenge, reviewer, councilVars, fails>>

\* The last turn read the row before it was answered, and the deadline passed.
GiveUp ==
    /\ author = "waiting"
    /\ author' = "late"
    /\ UNCHANGED <<challenge, used, reviewer, councilVars, fails>>

\* Mutation: a verdict that came in time is overwritten.
ClosableAlways == TRUE

\* timeout_challenge closes a row that is still open and says whether it did;
\* a row that was answered meanwhile is read once more.
Closable == challenge \in {"pending", "reviewing"}

Timeout ==
    /\ author = "late"
    /\ IF Closable
       THEN challenge' = "timeout" /\ author' = "done" /\ used' = "unreviewed"
       ELSE author' = "beaten" /\ UNCHANGED <<challenge, used>>
    /\ UNCHANGED <<reviewer, councilVars, fails>>

Reread ==
    /\ author = "beaten"
    /\ author' = "done"
    /\ used' = IF challenge = "answered" THEN "review" ELSE "draft"
    /\ UNCHANGED <<challenge, reviewer, councilVars, fails>>

AcceptChallenge ==
    /\ reviewer = "idle" /\ challenge = "pending"
    /\ challenge' = "reviewing" /\ reviewer' = "reviewing"
    /\ UNCHANGED <<author, used, councilVars, fails>>

\* answer_challenge leaves a row that timed out as it is.
AnswerChallenge ==
    /\ reviewer = "reviewing"
    /\ challenge' = IF Closable THEN "answered" ELSE challenge
    /\ reviewer' = "idle"
    /\ UNCHANGED <<author, used, councilVars, fails>>

\* A review that raises, says nothing or dies leaves the row reviewing; nobody
\* accepts it again.
ReviewFails ==
    /\ reviewer = "reviewing" /\ fails < MaxFails
    /\ reviewer' = "idle" /\ fails' = fails + 1
    /\ UNCHANGED <<challenge, author, used, councilVars>>

ChallengeStep ==
    \/ RequestChallenge \/ SeeVerdict \/ GiveUp \/ Timeout \/ Reread
    \/ AcceptChallenge \/ AnswerChallenge \/ ReviewFails

-----------------------------------------------------------------------------
\* The council.

\* pending_council_tasks: gathering sessions without a position of this agent.
Think(p) ==
    /\ member[p] = "idle"
    /\ council = "gathering" /\ p \notin positions
    /\ member' = [member EXCEPT ![p] = "thinking"]
    /\ UNCHANGED <<challengeVars, council, positions, synthesis, answers, fails>>

\* submit_position: INSERT OR IGNORE.
SubmitPosition(p) ==
    /\ member[p] = "thinking"
    /\ positions' = positions \cup {p}
    /\ member' = [member EXCEPT ![p] = "idle"]
    /\ UNCHANGED <<challengeVars, council, synthesis, answers, fails>>

\* The next poll tries again.
PositionFails(p) ==
    /\ member[p] = "thinking" /\ fails < MaxFails
    /\ member' = [member EXCEPT ![p] = "idle"]
    /\ fails' = fails + 1
    /\ UNCHANGED <<challengeVars, council, positions, synthesis, answers>>

\* councils_awaiting_synthesis lists the session; the poll claims it later.
ListCouncil(s) ==
    /\ synthesis[s].step = "idle" /\ council = "gathering"
    /\ synthesis' = [synthesis EXCEPT ![s].step = "listed"]
    /\ UNCHANGED <<challengeVars, council, positions, member, answers, fails>>

\* Mutation: the state that the listing saw is not checked again.
ReadyWhenListed == Cardinality(positions) >= Cardinality(Participants)

\* claim_synthesis: still gathering, and every participant has submitted.
Ready == council = "gathering" /\ Cardinality(positions) >= Cardinality(Participants)

ClaimSynthesis(s) ==
    /\ synthesis[s].step = "listed"
    /\ IF Ready
       THEN /\ council' = "synthesizing"
            /\ synthesis' = [synthesis EXCEPT ![s] = [step |-> "claimed", read |-> positions]]
       ELSE /\ synthesis' = [synthesis EXCEPT ![s].step = "idle"]
            /\ UNCHANGED council
    /\ UNCHANGED <<challengeVars, positions, member, answers, fails>>

\* The webhook takes the answer; or the agent has none, the webhook refuses, or it
\* answers too late and may have posted.
Synthesize(s) ==
    /\ synthesis[s].step = "claimed"
    /\ \/ /\ answers' = answers + 1
          /\ synthesis' = [synthesis EXCEPT ![s].step = "shown"]
       \/ /\ answers' \in {answers, answers + 1}
          /\ synthesis' = [synthesis EXCEPT ![s].step = "unshown"]
    /\ UNCHANGED <<challengeVars, council, positions, member, fails>>

CompleteCouncil(s) ==
    /\ synthesis[s].step \in {"shown", "unshown"}
    /\ council' = IF synthesis[s].step = "shown" THEN "done" ELSE "failed"
    /\ synthesis' = [synthesis EXCEPT ![s].step = "idle"]
    /\ UNCHANGED <<challengeVars, positions, member, answers, fails>>

\* A crash: a session that was being synthesised stays so.
SynthesizerDies(s) ==
    /\ synthesis[s].step # "idle" /\ fails < MaxFails
    /\ synthesis' = [synthesis EXCEPT ![s].step = "idle"]
    /\ fails' = fails + 1
    /\ UNCHANGED <<challengeVars, council, positions, member, answers>>

CouncilStep ==
    \/ \E p \in Participants : Think(p) \/ SubmitPosition(p) \/ PositionFails(p)
    \/ \E s \in Synthesizers : \/ ListCouncil(s) \/ ClaimSynthesis(s) \/ Synthesize(s)
                               \/ CompleteCouncil(s) \/ SynthesizerDies(s)

NextReviews == ChallengeStep \/ CouncilStep

SpecReviews == InitReviews /\ [][NextReviews]_reviewVars

-----------------------------------------------------------------------------

\* What the author sent agrees with the row for ever: the review exactly when
\* the row keeps a verdict, the mark "unreviewed" exactly when it timed out,
\* however the deadline and the reviewer's answer fall.
VerdictIsUsed ==
    /\ author = "done" => used = CASE challenge = "answered" -> "review"
                                   [] challenge = "timeout" -> "unreviewed"
                                   [] OTHER -> "nothing"
    /\ challenge = "timeout" => author = "done"

\* A council answers at most once, and from every participant's position,
\* whatever polls overlap, fail or die.
CouncilAnswersOnce ==
    /\ answers <= 1
    /\ \A s \in Synthesizers :
         synthesis[s].step \in {"claimed", "shown"} => synthesis[s].read = Participants
    /\ council = "done" => answers = 1
============================================================================
