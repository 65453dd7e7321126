------------------------------ MODULE Expenses ------------------------------
(***************************************************************************)
(* Expenses from e-mail.  A run (the daily job, or the manual runner in a  *)
(* process of its own) finds mails, freezes what a model extracts from     *)
(* each, and posts the items one by one to Notion; what it may not post it *)
(* leaves for the user, who resolves it from the chat.  The ledger         *)
(* (processed_emails, email_expense_items, pending_expenses) decides what  *)
(* is tried again: a post may have taken effect although its answer was    *)
(* lost.                                                                   *)
(*                                                                         *)
(* Mails are numbered in the order in which their sources are searched.    *)
(* An item is a mail and an index; two items are of one charge when both   *)
(* their amounts and their dates agree.                                    *)
(***************************************************************************)
EXTENDS Naturals, FiniteSets

CONSTANTS Mails,       \* messages in Gmail
          Items,       \* the charges each mail tells of
          Charge,      \* the charge of each item
          Unsupported, \* items in a currency that cannot be posted
          Runners,     \* runs of the pipeline
          Daily,       \* the run that the scheduler starts
          Clerks,      \* chat turns that resolve what waits for the user
          Scenes,      \* the mails and actors that take part in a behaviour
          Archiving,   \* EMAIL_EXPENSES_ARCHIVE
          MaxFaults    \* bound on failed calls and on runs and chat turns that die

ASSUME ExpensesAssumption ==
    /\ Mails \subseteq Nat /\ Items \subseteq Mails \X Nat
    /\ Unsupported \subseteq Items
    /\ Scenes \subseteq [mails: SUBSET Mails, actors: SUBSET (Runners \cup Clerks)]
    /\ Daily \in Runners /\ Runners \cap Clerks = {} /\ Archiving \in BOOLEAN
    /\ MaxFaults \in Nat

VARIABLES
    item,     \* email_expense_items: the status of each item
    pending,  \* pending_expenses: the row of each item
    mail,     \* processed_emails: the status of each mail
    window,   \* the mails that Gmail's search finds
    archived, \* mails that left the inbox
    posted,   \* how often each item was created in Notion
    actor,    \* the memory of each run and chat turn
    faults

ledgerVars == <<item, pending, mail>>
expenseVars == <<ledgerVars, window, archived, posted, actor, faults>>

Actors == Runners \cup Clerks
ItemStates == {"none", "ready", "writing", "recorded", "duplicate", "pending",
               "discarded", "error", "uncertain"}
PendingStates == {"none", "pending", "resolving", "uncertain", "resolved", "discarded"}
MailStates == {"none", "error", "pending", "recorded", "duplicate", "skipped", "archived"}
ActorSteps == {"absent", "idle", "next", "extract", "item", "judge", "post", "finish",
               "finalize", "archive", "mark"}
Outcomes == {"none", "recorded", "duplicate", "pending", "error", "uncertain"}

Off == [step |-> "idle", todo |-> {}, mail |-> 0, left |-> {}, index |-> 0,
        outcome |-> "none"]

ExpensesTypeOK ==
    /\ item \in [Items -> ItemStates]
    /\ pending \in [Items -> PendingStates]
    /\ mail \in [Mails -> MailStates]
    /\ window \subseteq Mails
    /\ archived \subseteq Mails
    /\ posted \in [Items -> Nat]
    /\ actor \in [Actors -> [step: ActorSteps, todo: SUBSET Mails, mail: Nat,
                             left: SUBSET Nat, index: Nat, outcome: Outcomes]]
    /\ faults \in 0..MaxFaults

StartWith(scene) ==
    /\ item = [x \in Items |-> "none"]
    /\ pending = [x \in Items |-> "none"]
    /\ mail = [m \in Mails |-> "none"]
    /\ window = scene.mails
    /\ archived = {}
    /\ posted = [x \in Items |-> 0]
    /\ actor = [a \in Actors |-> IF a \in scene.actors THEN Off
                                 ELSE [Off EXCEPT !.step = "absent"]]
    /\ faults = 0

InitExpenses == \E s \in Scenes : StartWith(s)

-----------------------------------------------------------------------------
\* Which mails a run works on.

Done == {"recorded", "archived", "skipped", "duplicate"}
OpenStates == {"ready", "error"}
ClosedStates == {"recorded", "duplicate", "discarded"}

ItemsOf(m) == {x \in Items : x[1] = m}
Frozen(m) == \E x \in ItemsOf(m) : item[x] # "none"
HasOpen(m) == \E x \in ItemsOf(m) : item[x] \in OpenStates
AllClosed(m) == \A x \in ItemsOf(m) : item[x] \in ClosedStates

\* Mutation: a mail that could not be read is left to the search.
RetryableFrozen(m) == Frozen(m) /\ (HasOpen(m) \/ AllClosed(m)) /\ mail[m] \notin Done

\* list_retryable: independently of the search window, mails that could not be
\* read, that have open items, or whose items are closed and which are not.
Retryable(m) == IF Frozen(m) THEN (HasOpen(m) \/ AllClosed(m)) /\ mail[m] \notin Done
                             ELSE mail[m] = "error"

NeedsProcessing(m) == mail[m] \notin Done /\ (Frozen(m) => HasOpen(m) \/ AllClosed(m))

Todo == {m \in Mails : (m \in window \/ Retryable(m)) /\ NeedsProcessing(m)}

\* EMAIL_EXPENSES_LOOKBACK_DAYS have passed.
Age(m) ==
    /\ m \in window
    /\ window' = window \ {m}
    /\ UNCHANGED <<ledgerVars, archived, posted, actor, faults>>

-----------------------------------------------------------------------------
\* A run.

At(a, step) == actor[a].step = step
The(a) == <<actor[a].mail, actor[a].index>>
Go(a, step) == actor' = [actor EXCEPT ![a].step = step]
GoOn(a, rest) ==
    actor' = [actor EXCEPT ![a] =
        IF rest = {} THEN Off ELSE [Off EXCEPT !.step = "next", !.todo = rest]]
NextMail(a) == GoOn(a, actor[a].todo \ {actor[a].mail})
IsFirst(m, todo) == m \in todo /\ \A n \in todo : m <= n
Fail == faults < MaxFaults /\ faults' = faults + 1
Outside == UNCHANGED <<window, archived, posted>>

StartRun(r) ==
    /\ At(r, "idle") /\ Todo # {}
    /\ actor' = [actor EXCEPT ![r].step = "next", ![r].todo = Todo]
    /\ Outside /\ UNCHANGED <<ledgerVars, faults>>

\* Each mail in turn: what was frozen is read back, with the items that were
\* open at that time; another mail is extracted.
TakeMail(r) ==
    /\ At(r, "next")
    /\ \E m \in Mails :
         /\ IsFirst(m, actor[r].todo)
         /\ actor' = [actor EXCEPT ![r].mail = m,
                ![r].step = IF Frozen(m) THEN "item" ELSE "extract",
                ![r].left = {x[2] : x \in {y \in ItemsOf(m) : item[y] \in OpenStates}}]
    /\ Outside /\ UNCHANGED <<ledgerVars, faults>>

\* The mail cannot be fetched.
MissMail(r) ==
    /\ At(r, "next") /\ Fail
    /\ \E m \in Mails : IsFirst(m, actor[r].todo) /\ GoOn(r, actor[r].todo \ {m})
    /\ Outside /\ UNCHANGED ledgerVars

\* The model fails or answers no list: the mail is kept for another run.
ExtractFails(r) ==
    /\ At(r, "extract") /\ Fail /\ NextMail(r)
    /\ mail' = [mail EXCEPT ![actor[r].mail] = "error"]
    /\ Outside /\ UNCHANGED <<item, pending>>

\* The model finds nothing that was spent.
SkipMail(r) ==
    /\ At(r, "extract") /\ NextMail(r)
    /\ mail' = [mail EXCEPT ![actor[r].mail] = "skipped"]
    /\ Outside /\ UNCHANGED <<item, pending, faults>>

\* prepare_items: the extraction is saved once, before any post; a run that
\* comes second works on what the first one saved.
Freeze(r) ==
    LET m == actor[r].mail
        saved == IF Frozen(m) THEN item
                 ELSE [x \in Items |-> IF x[1] = m THEN "ready" ELSE item[x]]
    IN /\ At(r, "extract") /\ ItemsOf(m) # {}
       /\ item' = saved
       /\ actor' = [actor EXCEPT ![r].step = "item",
              ![r].left = {x[2] : x \in {y \in ItemsOf(m) : saved[y] \in OpenStates}}]
       /\ Outside /\ UNCHANGED <<pending, mail, faults>>

\* Mutation: an interrupted write is claimed again.
ClaimableInterrupted(x) == item[x] \in OpenStates \cup {"writing"}

\* claim_item
Claimable(x) == item[x] \in OpenStates

ClaimItem(r) ==
    /\ At(r, "item") /\ actor[r].left # {}
    /\ \E i \in actor[r].left :
         LET x == <<actor[r].mail, i>> IN
         /\ \A j \in actor[r].left : i <= j
         /\ IF Claimable(x)
            THEN /\ item' = [item EXCEPT ![x] = "writing"]
                 /\ actor' = [actor EXCEPT ![r].step = "judge", ![r].index = i,
                                           ![r].left = actor[r].left \ {i}]
            ELSE /\ actor' = [actor EXCEPT ![r].left = actor[r].left \ {i}]
                 /\ UNCHANGED item
    /\ Outside /\ UNCHANGED <<pending, mail, faults>>

Conclude(a, outcome) ==
    actor' = [actor EXCEPT ![a].step = "finish", ![a].outcome = outcome]

\* A charge that another mail told of first is not posted again.
Duplicate(x) == \E y \in Items : /\ y[1] # x[1] /\ Charge[y] = Charge[x]
                                 /\ item[y] = "recorded"

FindDuplicate(r) ==
    /\ At(r, "judge") /\ The(r) \notin Unsupported /\ Duplicate(The(r))
    /\ Conclude(r, "duplicate")
    /\ Outside /\ UNCHANGED <<ledgerVars, faults>>

\* The currency is not supported, or the second model rejects the item:
\* add_pending inserts the row and marks the item in one transaction.
QueuePending(r) ==
    /\ At(r, "judge") /\ (The(r) \notin Unsupported => ~Duplicate(The(r)))
    /\ pending' = [pending EXCEPT ![The(r)] = "pending"]
    /\ item' = [item EXCEPT ![The(r)] = "pending"]
    /\ Conclude(r, "pending")
    /\ Outside /\ UNCHANGED <<mail, faults>>

AuditFails(r) ==
    /\ At(r, "judge") /\ The(r) \notin Unsupported /\ ~Duplicate(The(r))
    /\ Fail /\ Conclude(r, "error")
    /\ Outside /\ UNCHANGED ledgerVars

AuditPasses(r) ==
    /\ At(r, "judge") /\ The(r) \notin Unsupported /\ ~Duplicate(The(r))
    /\ Go(r, "post")
    /\ Outside /\ UNCHANGED <<ledgerVars, faults>>

-----------------------------------------------------------------------------
\* add_expense, called by a run or a chat turn.

PostOnce(a) == posted' = [posted EXCEPT ![The(a)] = posted[The(a)] + 1]

Post(a) ==
    /\ At(a, "post")
    /\ PostOnce(a) /\ Conclude(a, "recorded")
    /\ UNCHANGED <<ledgerVars, window, archived, faults>>

\* The arguments are refused or the budget is locked: nothing was sent.
PostRefused(a) ==
    /\ At(a, "post") /\ Fail
    /\ Conclude(a, "error")
    /\ Outside /\ UNCHANGED ledgerVars

\* The request fails: the page may have been created all the same.
PostInDoubt(a) ==
    /\ At(a, "post") /\ Fail
    /\ PostOnce(a) \/ posted' = posted
    /\ Conclude(a, "uncertain")
    /\ UNCHANGED <<ledgerVars, window, archived>>

\* finish_item writes only to an item that nobody resolves by hand.
MayFinish(x) == item[x] = "writing" /\ pending[x] = "none"

FinishItem(r) ==
    /\ r \in Runners /\ At(r, "finish")
    /\ item' = IF MayFinish(The(r)) THEN [item EXCEPT ![The(r)] = actor[r].outcome] ELSE item
    /\ actor' = [actor EXCEPT ![r].step = "item", ![r].index = 0, ![r].outcome = "none"]
    /\ Outside /\ UNCHANGED <<pending, mail, faults>>

-----------------------------------------------------------------------------
\* The user resolves an item from the chat.

\* claim_pending; an unsupported currency is refused before it.
ResolveItem(c, x) ==
    /\ At(c, "idle") /\ pending[x] = "pending" /\ x \notin Unsupported
    /\ pending' = [pending EXCEPT ![x] = "resolving"]
    /\ item' = [item EXCEPT ![x] = "writing"]
    /\ actor' = [actor EXCEPT ![c] =
           [Off EXCEPT !.step = "post", !.mail = x[1], !.index = x[2]]]
    /\ Outside /\ UNCHANGED <<mail, faults>>

\* resolve_pending or release_pending_claim
SettleItem(c) ==
    /\ c \in Clerks /\ At(c, "finish")
    /\ LET x == The(c)
           new == IF actor[c].outcome = "error" THEN "pending" ELSE actor[c].outcome
       IN /\ item' = IF item[x] = "writing" \/ new = "recorded"
                     THEN [item EXCEPT ![x] = new] ELSE item
          /\ pending' = [pending EXCEPT ![x] = IF new = "recorded" THEN "resolved" ELSE new]
    /\ Go(c, "finalize")
    /\ Outside /\ UNCHANGED <<mail, faults>>

\* discard_pending; the mail is finalised afterwards and never archived.
DiscardItem(c, x) ==
    /\ At(c, "idle") /\ pending[x] = "pending"
    /\ pending' = [pending EXCEPT ![x] = "discarded"]
    /\ item' = [item EXCEPT ![x] = "discarded"]
    /\ actor' = [actor EXCEPT ![c] =
           [Off EXCEPT !.step = "finalize", !.mail = x[1], !.index = x[2]]]
    /\ Outside /\ UNCHANGED <<mail, faults>>

-----------------------------------------------------------------------------
\* The end of a mail.

Unsettled == OpenStates \cup {"writing", "uncertain"}

\* finalize_message derives the mail's status from its items and pending rows.
StatusOf(m) ==
    LET has(states) == \E x \in ItemsOf(m) : item[x] \in states IN
    CASE has(Unsettled) -> "error"
      [] ~has(Unsettled) /\ (has({"pending"}) \/ \E x \in ItemsOf(m) :
             pending[x] \notin {"none", "resolved", "discarded"}) -> "pending"
      [] OTHER -> IF has({"recorded"}) THEN "recorded"
                  ELSE IF has({"duplicate"}) THEN "duplicate" ELSE "skipped"

\* A mail is archived when everything in it is recorded or known; a chat turn
\* archives only after it recorded something.
Finalize(a) ==
    LET m == actor[a].mail  status == StatusOf(m) IN
    /\ At(a, "finalize") \/ (At(a, "item") /\ actor[a].left = {})
    /\ mail' = [mail EXCEPT ![m] = status]
    /\ IF /\ Archiving /\ status \in {"recorded", "duplicate"}
          /\ a \in Clerks => actor[a].outcome = "recorded"
       THEN Go(a, "archive") ELSE NextMail(a)
    /\ Outside /\ UNCHANGED <<item, pending, faults>>

Archive(a) ==
    /\ At(a, "archive")
    /\ archived' = archived \cup {actor[a].mail}
    /\ Go(a, "mark")
    /\ UNCHANGED <<ledgerVars, window, posted, faults>>

ArchiveFails(a) ==
    /\ At(a, "archive") /\ Fail /\ NextMail(a)
    /\ Outside /\ UNCHANGED ledgerVars

MarkArchived(a) ==
    /\ At(a, "mark")
    /\ mail' = [mail EXCEPT ![actor[a].mail] = "archived"]
    /\ NextMail(a)
    /\ Outside /\ UNCHANGED <<item, pending, faults>>

\* The process dies; the ledger keeps what was committed.
ActorDies(a) ==
    /\ actor[a].step \notin {"absent", "idle"} /\ Fail
    /\ actor' = [actor EXCEPT ![a] = Off]
    /\ UNCHANGED <<ledgerVars, window, archived, posted>>

CommonStep(a) ==
    \/ Post(a) \/ PostRefused(a) \/ PostInDoubt(a)
    \/ Finalize(a) \/ Archive(a) \/ ArchiveFails(a) \/ MarkArchived(a)

RunnerStep(r) ==
    \/ StartRun(r) \/ TakeMail(r) \/ MissMail(r) \/ ExtractFails(r) \/ SkipMail(r)
    \/ Freeze(r) \/ ClaimItem(r) \/ FindDuplicate(r) \/ QueuePending(r)
    \/ AuditFails(r) \/ AuditPasses(r) \/ FinishItem(r)
    \/ CommonStep(r)

ClerkStep(c) ==
    \/ \E x \in Items : ResolveItem(c, x) \/ DiscardItem(c, x)
    \/ SettleItem(c) \/ CommonStep(c)

NextExpenses ==
    \/ \E m \in Mails : Age(m)
    \/ \E r \in Runners : RunnerStep(r)
    \/ \E c \in Clerks : ClerkStep(c)
    \/ \E a \in Actors : ActorDies(a)

SpecExpenses == InitExpenses /\ [][NextExpenses]_expenseVars

-----------------------------------------------------------------------------

\* No charge is doubled, hidden or dropped, however runs and chat turns overlap
\* or die and whatever becomes of a post: an item is created in Notion once; one
\* that was created is recorded, or visibly unsettled for a person to look at;
\* and a mail leaves the inbox only when each of its items was created, is of a
\* charge that another mail recorded, or was dropped by the user.
ChargesAreKept ==
    /\ \A x \in Items :
         /\ posted[x] <= 1
         /\ posted[x] = 1 => item[x] \in {"writing", "uncertain", "recorded"}
         /\ item[x] = "recorded" => posted[x] = 1
    /\ \A x \in Items : x[1] \in archived => item[x] \in ClosedStates

\* A mail that was once read does not stay behind: also after crashes, and when
\* the search does not find it any more, it is finished in the end, or one of
\* its items waits for the user or for reconciliation.
MailIsSettled ==
    <>[] \A m \in Mails : Frozen(m) \/ mail[m] = "error" =>
            \/ mail[m] \in Done
            \/ \E x \in ItemsOf(m) : item[x] \in {"writing", "uncertain", "pending"}
=============================================================================
