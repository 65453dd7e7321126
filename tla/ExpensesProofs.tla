--------------------------- MODULE ExpensesProofs ---------------------------
(***************************************************************************)
(* Proofs about Expenses, for any mails, items, runs, chat turns and       *)
(* faults: an actor that writes an item holds it alone, so a charge is     *)
(* created once, stays visible, and is not archived before it is settled.  *)
(***************************************************************************)
EXTENDS Expenses, TLAPS


\* The item that an actor writes, from its claim until the outcome is saved.
HoldsItem(a) ==
    \/ actor[a].step \in {"judge", "post"}
    \/ actor[a].step = "finish" /\ actor[a].outcome # "pending"

\* What an actor remembers of its item and its mail agrees with the ledger, and
\* with Notion.
ActorAgrees(a) ==
    /\ actor[a].step \in {"judge", "post", "finish"} => The(a) \in Items
    /\ HoldsItem(a) => /\ item[The(a)] = "writing"
                     /\ pending[The(a)] = IF a \in Runners THEN "none" ELSE "resolving"
    /\ actor[a].step \in {"judge", "post"} => posted[The(a)] = 0
    /\ actor[a].step = "finish" =>
         /\ actor[a].outcome # "none"
         /\ actor[a].outcome = "recorded" => posted[The(a)] = 1
         /\ actor[a].outcome \in {"error", "duplicate"} => posted[The(a)] = 0
         /\ actor[a].outcome = "pending" => a \in Runners /\ pending[The(a)] # "none"
         /\ a \in Clerks => actor[a].outcome \in {"recorded", "error", "uncertain"}
    /\ actor[a].step \in {"item", "judge", "post", "finish", "finalize", "archive"}
         => Frozen(actor[a].mail)
    /\ actor[a].step \in {"item", "judge", "post", "finish"}
         => \A i \in actor[a].left : <<actor[a].mail, i>> \in Items
    /\ actor[a].step = "archive" => AllClosed(actor[a].mail)
    /\ a \in Clerks => /\ actor[a].todo = {}
                       /\ actor[a].step \notin {"next", "extract", "item", "judge"}

OneItemHolder ==
    \A a, b \in Actors : HoldsItem(a) /\ HoldsItem(b) /\ The(a) = The(b) => a = b

\* An item's status, its pending row and its page in Notion agree; the items of
\* a mail are frozen together.
ItemAgrees(x) ==
    /\ posted[x] <= 1
    /\ item[x] \in {"none", "ready", "error", "duplicate", "pending", "discarded"}
         => posted[x] = 0
    /\ item[x] = "recorded" => posted[x] = 1
    /\ item[x] \in {"none", "ready", "error", "duplicate"} => pending[x] = "none"
    /\ pending[x] = "pending" => item[x] = "pending"
    /\ \A y \in Items : y[1] = x[1] /\ item[y] = "none" => item[x] = "none"
    /\ x[1] \in archived => item[x] \in ClosedStates

ExpensesInductive ==
    /\ ExpensesTypeOK
    /\ \A a \in Actors : ActorAgrees(a)
    /\ OneItemHolder
    /\ \A x \in Items : ItemAgrees(x)

LEMMA ExpensesInit == ASSUME NEW scene \in [mails: SUBSET Mails, actors: SUBSET Actors],
                             StartWith(scene)
                      PROVE  ExpensesInductive
<1>1. ExpensesTypeOK
  BY ExpensesAssumption DEF StartWith, ExpensesTypeOK, Off, ItemStates, PendingStates,
     MailStates, ActorSteps, Outcomes
<1>2. \A a \in Actors : actor[a].step \in {"absent", "idle"} /\ actor[a].todo = {}
  BY DEF StartWith, Off
<1>3. (\A a \in Actors : ActorAgrees(a)) /\ OneItemHolder
  BY <1>2 DEF ActorAgrees, OneItemHolder, HoldsItem
<1>4. \A x \in Items : ItemAgrees(x)
  BY DEF StartWith, ItemAgrees
<1> QED
  BY <1>1, <1>3, <1>4 DEF ExpensesInductive

LEMMA ExpensesFrame == ExpensesInductive /\ UNCHANGED expenseVars => ExpensesInductive'
BY DEF ExpensesInductive, ExpensesTypeOK, ActorAgrees, OneItemHolder, ItemAgrees, HoldsItem, The,
       Frozen, AllClosed, ItemsOf, expenseVars, ledgerVars

\* A step that changes what one actor remembers, and no item.
LEMMA OnlyActor ==
    ASSUME ExpensesInductive, ExpensesTypeOK', NEW a \in Actors,
           item' = item, pending' = pending, posted' = posted, archived' = archived,
           \A b \in Actors \ {a} : actor'[b] = actor[b],
           ActorAgrees(a)', HoldsItem(a)' => HoldsItem(a) /\ The(a)' = The(a)
    PROVE  ExpensesInductive'
<1>1. ASSUME NEW b \in Actors \ {a} PROVE ActorAgrees(b)' /\ (HoldsItem(b)' <=> HoldsItem(b)) /\ The(b)' = The(b)
  BY <1>1 DEF ExpensesInductive, ActorAgrees, HoldsItem, The, Frozen, AllClosed, ItemsOf
<1>2. OneItemHolder'
  BY <1>1 DEF ExpensesInductive, OneItemHolder
<1>3. ASSUME NEW x \in Items PROVE ItemAgrees(x)'
  BY <1>3 DEF ExpensesInductive, ItemAgrees
<1> QED
  BY <1>1, <1>2, <1>3 DEF ExpensesInductive

\* A step of one actor on one item that is frozen, not closed, and not held by
\* another actor.
LEMMA OneItem ==
    ASSUME ExpensesInductive, ExpensesTypeOK', NEW a \in Actors, NEW x \in Items,
           archived' = archived,
           \A b \in Actors \ {a} : actor'[b] = actor[b] /\ ~(HoldsItem(b) /\ The(b) = x),
           \A y \in Items \ {x} :
               item'[y] = item[y] /\ pending'[y] = pending[y] /\ posted'[y] = posted[y],
           item[x] \notin ClosedStates \cup {"none"}, item'[x] # "none",
           pending[x] # "none" => pending'[x] # "none",
           ActorAgrees(a)', HoldsItem(a)' => The(a)' = x,
           posted'[x] <= 1,
           item'[x] \in {"ready", "error", "duplicate", "pending", "discarded"} => posted'[x] = 0,
           item'[x] = "recorded" => posted'[x] = 1,
           item'[x] \in {"ready", "error", "duplicate"} => pending'[x] = "none",
           pending'[x] = "pending" => item'[x] = "pending"
    PROVE  ExpensesInductive'
<1>1. ASSUME NEW b \in Actors \ {a} PROVE ActorAgrees(b)' /\ (HoldsItem(b)' <=> HoldsItem(b)) /\ The(b)' = The(b)
  <2>1. ActorAgrees(b)
    BY <1>1 DEF ExpensesInductive
  <2>2. actor'[b] = actor[b] /\ ~(HoldsItem(b) /\ The(b) = x)
    BY <1>1
  <2>3. The(b)' = The(b) /\ (HoldsItem(b)' <=> HoldsItem(b))
    BY <2>2 DEF The, HoldsItem
  <2>4. ASSUME Frozen(actor[b].mail) PROVE Frozen(actor[b].mail)'
    BY <2>2, <2>4 DEF Frozen, ItemsOf
  <2>5. ASSUME AllClosed(actor[b].mail) PROVE AllClosed(actor[b].mail)'
    BY <2>2, <2>5 DEF AllClosed, ItemsOf
  <2>6. CASE The(b) = x
    BY <2>1, <2>2, <2>3, <2>4, <2>5, <2>6 DEF ActorAgrees, HoldsItem
  <2>7. CASE The(b) # x
    BY <2>1, <2>2, <2>3, <2>4, <2>5, <2>7 DEF ActorAgrees, HoldsItem
  <2> QED
    BY <2>3, <2>6, <2>7
<1>2. OneItemHolder'
  BY <1>1 DEF ExpensesInductive, OneItemHolder
<1>3. ASSUME NEW y \in Items PROVE ItemAgrees(y)'
  <2>1. ItemAgrees(y) /\ ItemAgrees(x)
    BY <1>3 DEF ExpensesInductive
  <2>2. \A z \in Items : item'[z] = "none" <=> item[z] = "none"
    OBVIOUS
  <2>3. CASE y = x
    BY <2>1, <2>2, <2>3 DEF ItemAgrees
  <2>4. CASE y # x
    BY <1>3, <2>1, <2>2, <2>4 DEF ItemAgrees
  <2> QED
    BY <2>3, <2>4
<1> QED
  BY <1>1, <1>2, <1>3 DEF ExpensesInductive

\* The item that an actor writes is held by it alone, and the rest follows.
LEMMA HeldAlone ==
    ASSUME ExpensesInductive, NEW a \in Actors, HoldsItem(a)
    PROVE  /\ The(a) \in Items /\ ActorAgrees(a) /\ ItemAgrees(The(a))
           /\ item[The(a)] = "writing"
           /\ pending[The(a)] = IF a \in Runners THEN "none" ELSE "resolving"
           /\ \A b \in Actors \ {a} : ~(HoldsItem(b) /\ The(b) = The(a))
<1>1. The(a) \in Items
  BY DEF ExpensesInductive, ActorAgrees, HoldsItem
<1>2. \A b \in Actors \ {a} : ~(HoldsItem(b) /\ The(b) = The(a))
  BY DEF ExpensesInductive, OneItemHolder
<1> QED
  BY <1>1, <1>2 DEF ExpensesInductive, ActorAgrees

ActorType == [step: ActorSteps, todo: SUBSET Mails, mail: Nat, left: SUBSET Nat,
              index: Nat, outcome: Outcomes]

LEMMA OffType == /\ Off \in ActorType
                 /\ \A rest \in SUBSET Mails : [Off EXCEPT !.step = "next", !.todo = rest] \in ActorType
BY DEF Off, ActorType, ActorSteps, Outcomes

\* The steps between mails keep the types.
LEMMA GoOnType == ASSUME ExpensesTypeOK, NEW a \in Actors, NEW rest \in SUBSET Mails, GoOn(a, rest)
                  PROVE  actor' \in [Actors -> ActorType]
<1>1. actor \in [Actors -> ActorType]
  BY DEF ExpensesTypeOK, ActorType
<1>2. (IF rest = {} THEN Off ELSE [Off EXCEPT !.step = "next", !.todo = rest]) \in ActorType
  BY OffType
<1> QED
  BY <1>1, <1>2 DEF GoOn

LEMMA NextMailType == ASSUME ExpensesTypeOK, NEW a \in Actors, NextMail(a)
                      PROVE  actor' \in [Actors -> ActorType]
<1>1. actor[a].todo \ {actor[a].mail} \in SUBSET Mails
  BY DEF ExpensesTypeOK
<1> QED
  BY <1>1, GoOnType DEF NextMail

LEMMA ActorFun == ExpensesTypeOK => actor \in [Actors -> ActorType]
BY DEF ExpensesTypeOK, ActorType

LEMMA ConcludeType == ASSUME ExpensesTypeOK, NEW a \in Actors, NEW o \in Outcomes, Conclude(a, o)
                      PROVE  actor' \in [Actors -> ActorType]
BY ActorFun, ZenonT(30) DEF Conclude, ActorType, ActorSteps

LEMMA GoType == ASSUME ExpensesTypeOK, NEW a \in Actors, NEW s \in ActorSteps, Go(a, s)
                PROVE  actor' \in [Actors -> ActorType]
BY ActorFun DEF Go, ActorType

LEMMA FaultsType == ASSUME ExpensesTypeOK, Fail PROVE faults' \in 0..MaxFaults
BY ExpensesAssumption DEF ExpensesTypeOK, Fail

LEMMA PostedType == ASSUME ExpensesTypeOK, NEW a \in Actors, PostOnce(a)
                    PROVE  posted' \in [Items -> Nat]
<1>1. CASE The(a) \in Items
  BY <1>1 DEF ExpensesTypeOK, PostOnce
<1>2. CASE The(a) \notin Items
  BY <1>2 DEF ExpensesTypeOK, PostOnce
<1> QED
  BY <1>1, <1>2

LEMMA Statuses == \A m : StatusOf(m) \in MailStates
BY DEF StatusOf, MailStates

\* Steps that only one run or chat turn takes keep the types.
LEMMA RunnerTypes == ASSUME ExpensesTypeOK, NEW r \in Runners, RunnerStep(r), ~CommonStep(r)
                     PROVE  ExpensesTypeOK'
<1>0. r \in Actors
  BY DEF Actors
<1> USE DEF ExpensesTypeOK, Outside, ledgerVars
<1>1. CASE StartRun(r)
  BY <1>0, <1>1, ZenonT(30) DEF StartRun, Todo, ActorSteps
<1>2. CASE TakeMail(r)
  <2>1. PICK m \in Mails : actor' = [actor EXCEPT ![r].mail = m,
                ![r].step = IF Frozen(m) THEN "item" ELSE "extract",
                ![r].left = {x[2] : x \in {y \in ItemsOf(m) : item[y] \in OpenStates}}]
    BY <1>2 DEF TakeMail
  <2>2. m \in Nat /\ {x[2] : x \in {y \in ItemsOf(m) : item[y] \in OpenStates}} \subseteq Nat
    BY ExpensesAssumption DEF ItemsOf
  <2> DEFINE l == {x[2] : x \in {y \in ItemsOf(m) : item[y] \in OpenStates}}
             s == IF Frozen(m) THEN "item" ELSE "extract"
  <2>4. /\ actor' = [actor EXCEPT ![r].mail = m, ![r].step = s, ![r].left = l]
        /\ l \in SUBSET Nat /\ s \in ActorSteps
    BY <2>1, <2>2 DEF ActorSteps
  <2> HIDE DEF l, s, ExpensesTypeOK
  <2>3. actor' \in [Actors -> ActorType]
    BY <1>0, <2>2, <2>4, ActorFun, ZenonT(30) DEF ActorType
  <2> QED
    BY <1>2, <2>3 DEF TakeMail, ExpensesTypeOK, ActorType
<1>3. CASE MissMail(r)
  <2>1. actor' \in [Actors -> ActorType]
    BY <1>0, <1>3, GoOnType DEF MissMail
  <2> QED
    BY <1>3, <2>1, FaultsType DEF MissMail, ActorType
<1>4. CASE ExtractFails(r)
  <2>1. actor' \in [Actors -> ActorType]
    BY <1>0, <1>4, NextMailType DEF ExtractFails
  <2> QED
    BY <1>4, <2>1, FaultsType DEF ExtractFails, ActorType, MailStates
<1>5. CASE SkipMail(r)
  <2>1. actor' \in [Actors -> ActorType]
    BY <1>0, <1>5, NextMailType DEF SkipMail
  <2> QED
    BY <1>5, <2>1 DEF SkipMail, ActorType, MailStates
<1>6. CASE Freeze(r)
  <2> DEFINE m == actor[r].mail
             saved == IF Frozen(m) THEN item
                      ELSE [x \in Items |-> IF x[1] = m THEN "ready" ELSE item[x]]
             l == {x[2] : x \in {y \in ItemsOf(m) : saved[y] \in OpenStates}}
  <2>1. item' = saved /\ actor' = [actor EXCEPT ![r].step = "item", ![r].left = l]
    BY <1>6 DEF Freeze
  <2>2. saved \in [Items -> ItemStates]
    BY DEF ItemStates
  <2>3. l \subseteq Nat
    BY ExpensesAssumption DEF ItemsOf
  <2> HIDE DEF l, saved
  <2>4. actor' \in [Actors -> ActorType]
    BY <1>0, <2>1, <2>3, ZenonT(30) DEF ActorType, ActorSteps
  <2> QED
    BY <1>6, <2>1, <2>2, <2>4 DEF Freeze, ActorType
<1>7. CASE ClaimItem(r)
  <2>1. PICK i \in actor[r].left :
           LET x == <<actor[r].mail, i>> IN
           IF Claimable(x)
           THEN /\ item' = [item EXCEPT ![x] = "writing"]
                /\ actor' = [actor EXCEPT ![r].step = "judge", ![r].index = i,
                                          ![r].left = actor[r].left \ {i}]
           ELSE /\ actor' = [actor EXCEPT ![r].left = actor[r].left \ {i}]
                /\ UNCHANGED item
    BY <1>7 DEF ClaimItem
  <2>2. i \in Nat /\ actor[r].left \ {i} \in SUBSET Nat
    BY <1>0
  <2>3. actor' \in [Actors -> ActorType]
    <3> HIDE DEF ExpensesTypeOK
    <3> QED
      BY <1>0, <2>1, <2>2, ActorFun DEF ActorType, ActorSteps
  <2>4. item' \in [Items -> ItemStates]
    BY <2>1 DEF ItemStates
  <2> QED
    BY <1>7, <2>3, <2>4 DEF ClaimItem, ActorType
<1>8. CASE FindDuplicate(r) \/ QueuePending(r) \/ AuditFails(r) \/ AuditPasses(r)
  BY <1>0, <1>8, FaultsType DEF FindDuplicate, QueuePending, AuditFails, AuditPasses, Conclude,
     Go, ActorSteps, Outcomes, ItemStates, PendingStates
<1>9. CASE FinishItem(r)
  <2>1. actor[r].outcome \in ItemStates
    BY <1>0 DEF Outcomes, ItemStates
  <2>2. actor' \in [Actors -> ActorType]
    <3> HIDE DEF ExpensesTypeOK
    <3>1. actor' = [actor EXCEPT ![r].step = "item", ![r].index = 0, ![r].outcome = "none"]
      BY <1>9 DEF FinishItem
    <3>2. actor[r] \in ActorType
      BY <1>0, ActorFun
    <3>3. [actor[r] EXCEPT !.step = "item", !.index = 0, !.outcome = "none"] \in ActorType
      BY <3>2 DEF ActorType, ActorSteps, Outcomes
    <3> QED
      BY <1>0, <3>1, <3>3, ActorFun
  <2> QED
    BY <1>9, <2>1, <2>2 DEF FinishItem, ActorType
<1> QED
  BY <1>1, <1>2, <1>3, <1>4, <1>5, <1>6, <1>7, <1>8, <1>9 DEF RunnerStep

LEMMA CommonTypes == ASSUME ExpensesInductive, NEW a \in Actors, CommonStep(a)
                     PROVE  ExpensesTypeOK'
<1>0. ExpensesTypeOK /\ ActorAgrees(a)
  BY DEF ExpensesInductive
<1> USE <1>0 DEF ExpensesTypeOK, Outside, ledgerVars
<1>1. CASE Post(a)
  <2>1. actor' \in [Actors -> ActorType]
    BY <1>1, ConcludeType DEF Post, Outcomes
  <2> QED
    BY <1>1, <2>1, PostedType DEF Post, ActorType
<1>2. CASE PostRefused(a)
  <2>1. actor' \in [Actors -> ActorType]
    BY <1>2, ConcludeType DEF PostRefused, Outcomes
  <2> QED
    BY <1>2, <2>1, FaultsType DEF PostRefused, ActorType
<1>3. CASE PostInDoubt(a)
  <2>1. actor' \in [Actors -> ActorType]
    BY <1>3, ConcludeType DEF PostInDoubt, Outcomes
  <2>2. posted' \in [Items -> Nat]
    BY <1>3, PostedType DEF PostInDoubt
  <2> QED
    BY <1>3, <2>1, <2>2, FaultsType DEF PostInDoubt, ActorType
<1>4. CASE Finalize(a)
  <2>1. mail' \in [Mails -> MailStates]
    BY <1>4, Statuses DEF Finalize
  <2>2. Go(a, "archive") \/ NextMail(a)
    BY <1>4 DEF Finalize
  <2>3. actor' \in [Actors -> ActorType]
    BY <2>2, NextMailType, GoType DEF ActorSteps
  <2> QED
    BY <1>4, <2>1, <2>3 DEF Finalize, ActorType
<1>5. CASE Archive(a)
  <2>1. actor' \in [Actors -> ActorType]
    BY <1>5, GoType DEF Archive, ActorSteps
  <2>2. archived' \subseteq Mails
    BY <1>5, ExpensesAssumption DEF Archive, At, ActorAgrees, Frozen, ItemsOf
  <2> QED
    BY <1>5, <2>1, <2>2 DEF Archive, ActorType
<1>6. CASE ArchiveFails(a)
  <2>1. actor' \in [Actors -> ActorType]
    BY <1>6, NextMailType DEF ArchiveFails
  <2> QED
    BY <1>6, <2>1, FaultsType DEF ArchiveFails, ActorType
<1>7. CASE MarkArchived(a)
  <2>1. actor' \in [Actors -> ActorType]
    BY <1>7, NextMailType DEF MarkArchived
  <2> QED
    BY <1>7, <2>1 DEF MarkArchived, ActorType, MailStates
<1> QED
  BY <1>1, <1>2, <1>3, <1>4, <1>5, <1>6, <1>7 DEF CommonStep

LEMMA ClerkTypes == ASSUME ExpensesInductive, NEW c \in Clerks, ClerkStep(c), ~CommonStep(c)
                    PROVE  ExpensesTypeOK'
<1>0. c \in Actors /\ ExpensesTypeOK /\ ActorAgrees(c)
  BY DEF Actors, ExpensesInductive
<1> USE <1>0 DEF ExpensesTypeOK, Outside, ledgerVars
<1>1. ASSUME NEW x \in Items, ResolveItem(c, x) \/ DiscardItem(c, x) PROVE ExpensesTypeOK'
  <2>1. x[1] \in Nat /\ x[2] \in Nat
    BY ExpensesAssumption
  <2>2. \A s \in ActorSteps : [Off EXCEPT !.step = s, !.mail = x[1], !.index = x[2]] \in ActorType
    BY <2>1 DEF Off, ActorType, Outcomes
  <2>4. PICK row \in ActorType : actor' = [actor EXCEPT ![c] = row]
    BY <1>1, <2>2 DEF ResolveItem, DiscardItem, ActorSteps
  <2>3. actor' \in [Actors -> ActorType]
    BY <1>0, <2>4, ActorFun
  <2> QED
    BY <1>1, <2>3 DEF ResolveItem, DiscardItem, ActorType, ItemStates, PendingStates
<1>2. CASE SettleItem(c)
  <2>1. actor[c].outcome \in Outcomes
    BY <1>0
  <2>2. actor' \in [Actors -> ActorType]
    BY <1>0, <1>2, GoType DEF SettleItem, ActorSteps
  <2>3. actor[c].outcome \in {"recorded", "error", "uncertain"}
    BY <1>2 DEF SettleItem, At, ActorAgrees
  <2> QED
    BY <1>2, <2>2, <2>3 DEF SettleItem, ActorType, ItemStates, PendingStates
<1> QED
  BY <1>1, <1>2 DEF ClerkStep

\* An actor that leaves its mail holds nothing any more.
LEMMA LeaveKeeps ==
    ASSUME ExpensesInductive, ExpensesTypeOK', NEW a \in Actors, NEW rest,
           GoOn(a, rest), a \in Clerks => rest = {},
           item' = item, pending' = pending, posted' = posted, archived' = archived
    PROVE  ExpensesInductive'
<1>1. /\ actor'[a].step \in {"idle", "next"}
      /\ a \in Clerks => actor'[a].step = "idle" /\ actor'[a].todo = {}
  BY DEF GoOn, Off, ExpensesInductive, ExpensesTypeOK
<1>2. ActorAgrees(a)' /\ ~HoldsItem(a)'
  BY <1>1 DEF ActorAgrees, HoldsItem
<1>3. \A b \in Actors \ {a} : actor'[b] = actor[b]
  BY DEF GoOn, ExpensesInductive, ExpensesTypeOK
<1> QED
  BY <1>2, <1>3, OnlyActor

LEMMA NextMailKeeps ==
    ASSUME ExpensesInductive, ExpensesTypeOK', NEW a \in Actors, NextMail(a),
           item' = item, pending' = pending, posted' = posted, archived' = archived
    PROVE  ExpensesInductive'
<1>1. a \in Clerks => actor[a].todo \ {actor[a].mail} = {}
  BY DEF ExpensesInductive, ActorAgrees
<1> QED
  BY <1>1, LeaveKeeps DEF NextMail

\* Steps of a run between two items, and its claim of an item.
LEMMA RunnerKeeps == ASSUME ExpensesInductive, NEW r \in Runners, RunnerStep(r), ~CommonStep(r)
                     PROVE  ExpensesInductive'
<1>0. /\ r \in Actors /\ r \notin Clerks /\ ActorAgrees(r) /\ ExpensesTypeOK /\ ExpensesTypeOK'
      /\ actor \in [Actors -> ActorType]
  BY RunnerTypes, ActorFun, ExpensesAssumption DEF Actors, ExpensesInductive
<1> USE <1>0
<1>1. CASE StartRun(r)
  <2>1. actor'[r].step = "next" /\ \A b \in Actors \ {r} : actor'[b] = actor[b]
    BY <1>1 DEF StartRun, ActorType
  <2>2. ActorAgrees(r)' /\ ~HoldsItem(r)'
    BY <2>1 DEF ActorAgrees, HoldsItem
  <2> QED
    BY <1>1, <2>1, <2>2, OnlyActor DEF StartRun, Outside, ledgerVars
<1>2. CASE TakeMail(r)
  <2>1. PICK m \in Mails : actor' = [actor EXCEPT ![r].mail = m,
                ![r].step = IF Frozen(m) THEN "item" ELSE "extract",
                ![r].left = {x[2] : x \in {y \in ItemsOf(m) : item[y] \in OpenStates}}]
    BY <1>2 DEF TakeMail
  <2>2. /\ actor'[r].mail = m /\ \A b \in Actors \ {r} : actor'[b] = actor[b]
        /\ actor'[r].step = IF Frozen(m) THEN "item" ELSE "extract"
        /\ actor'[r].left = {x[2] : x \in {y \in ItemsOf(m) : item[y] \in OpenStates}}
    BY <2>1 DEF ActorType
  <2>5. \A i \in actor'[r].left : <<m, i>> \in Items
    BY <2>2, ExpensesAssumption DEF ItemsOf
  <2>3. item' = item /\ pending' = pending /\ posted' = posted /\ archived' = archived
    BY <1>2 DEF TakeMail, Outside, ledgerVars
  <2>4. ActorAgrees(r)' /\ ~HoldsItem(r)'
    BY <2>2, <2>3, <2>5 DEF ActorAgrees, HoldsItem, Frozen, ItemsOf
  <2> QED
    BY <2>2, <2>3, <2>4, OnlyActor
<1>3. CASE MissMail(r)
  <2>1. item' = item /\ pending' = pending /\ posted' = posted /\ archived' = archived
    BY <1>3 DEF MissMail, Outside, ledgerVars
  <2> QED
    BY <1>3, <2>1, LeaveKeeps DEF MissMail
<1>4. CASE ExtractFails(r)
  <2>1. item' = item /\ pending' = pending /\ posted' = posted /\ archived' = archived
    BY <1>4 DEF ExtractFails, Outside
  <2> QED
    BY <1>4, <2>1, NextMailKeeps DEF ExtractFails
<1>5. CASE SkipMail(r)
  <2>1. item' = item /\ pending' = pending /\ posted' = posted /\ archived' = archived
    BY <1>5 DEF SkipMail, Outside
  <2> QED
    BY <1>5, <2>1, NextMailKeeps DEF SkipMail
<1>6. CASE Freeze(r)
  <2> DEFINE m == actor[r].mail
             saved == IF Frozen(m) THEN item
                      ELSE [x \in Items |-> IF x[1] = m THEN "ready" ELSE item[x]]
             l == {x[2] : x \in {y \in ItemsOf(m) : saved[y] \in OpenStates}}
  <2>1. /\ item' = saved /\ actor' = [actor EXCEPT ![r].step = "item", ![r].left = l]
        /\ pending' = pending /\ posted' = posted /\ archived' = archived
        /\ ItemsOf(m) # {} /\ actor[r].step = "extract"
    BY <1>6 DEF Freeze, Outside, At
  <2>5. \A i \in l : <<m, i>> \in Items
    <3> HIDE DEF saved
    <3> QED
      BY ExpensesAssumption DEF ItemsOf
  <2> HIDE DEF l
  <2>2. /\ actor'[r].step = "item" /\ actor'[r].mail = m /\ actor'[r].left = l
        /\ \A b \in Actors \ {r} : actor'[b] = actor[b]
    BY <2>1 DEF ActorType
  <2>3. CASE Frozen(m)
    <3>1. item' = item
      BY <2>1, <2>3
    <3>2. ActorAgrees(r)' /\ ~HoldsItem(r)'
      BY <2>2, <2>3, <2>5, <3>1 DEF ActorAgrees, HoldsItem, Frozen, ItemsOf
    <3> QED
      BY <2>1, <2>2, <3>1, <3>2, OnlyActor
  <2>4. CASE ~Frozen(m)
    <3>1. \A x \in Items : item'[x] = IF x[1] = m THEN "ready" ELSE item[x]
      BY <2>1, <2>4
    <3>2. \A x \in Items : x[1] = m => item[x] = "none"
      BY <2>4 DEF Frozen, ItemsOf
    <3>3. ActorAgrees(r)' /\ ~HoldsItem(r)'
      BY <2>1, <2>2, <2>5, <3>1 DEF ActorAgrees, HoldsItem, Frozen, ItemsOf
    <3>4. ASSUME NEW b \in Actors \ {r}
          PROVE  ActorAgrees(b)' /\ (HoldsItem(b)' <=> HoldsItem(b)) /\ The(b)' = The(b)
      <4>1. ActorAgrees(b) /\ actor'[b] = actor[b]
        BY <2>2 DEF ExpensesInductive
      <4>2. Frozen(actor[b].mail) => Frozen(actor[b].mail)'
        BY <3>1, <4>1 DEF Frozen, ItemsOf
      <4>3. AllClosed(actor[b].mail) => AllClosed(actor[b].mail)'
        BY <3>1, <3>2, <4>1 DEF AllClosed, ItemsOf, ClosedStates
      <4> QED
        BY <2>1, <3>1, <3>2, <4>1, <4>2, <4>3 DEF ActorAgrees, HoldsItem, The
    <3>5. OneItemHolder'
      BY <3>3, <3>4 DEF ExpensesInductive, OneItemHolder
    <3>6. ASSUME NEW x \in Items PROVE ItemAgrees(x)'
      <4>1. ItemAgrees(x)
        BY DEF ExpensesInductive
      <4> QED
        BY <2>1, <3>1, <3>2, <4>1 DEF ItemAgrees, ClosedStates
    <3> QED
      BY <3>3, <3>4, <3>5, <3>6 DEF ExpensesInductive
  <2> QED
    BY <2>3, <2>4
<1>7. CASE ClaimItem(r)
  <2>1. PICK i \in actor[r].left :
           LET x == <<actor[r].mail, i>> IN
           IF Claimable(x)
           THEN /\ item' = [item EXCEPT ![x] = "writing"]
                /\ actor' = [actor EXCEPT ![r].step = "judge", ![r].index = i,
                                          ![r].left = actor[r].left \ {i}]
           ELSE /\ actor' = [actor EXCEPT ![r].left = actor[r].left \ {i}]
                /\ UNCHANGED item
    BY <1>7 DEF ClaimItem
  <2> DEFINE x == <<actor[r].mail, i>>
  <2>2. /\ pending' = pending /\ posted' = posted /\ archived' = archived
        /\ actor[r].step = "item"
    BY <1>7 DEF ClaimItem, Outside, At
  <2>3. CASE ~Claimable(x)
    <3>1. /\ item' = item /\ actor'[r].step = "item" /\ actor'[r].mail = actor[r].mail
          /\ actor'[r].left \subseteq actor[r].left
          /\ \A b \in Actors \ {r} : actor'[b] = actor[b]
      BY <2>1, <2>2, <2>3 DEF ActorType
    <3>2. ActorAgrees(r)' /\ ~HoldsItem(r)'
      BY <2>2, <3>1 DEF ActorAgrees, HoldsItem, Frozen, ItemsOf
    <3> QED
      BY <2>2, <3>1, <3>2, OnlyActor
  <2>4. CASE Claimable(x)
    <3>1. /\ item' = [item EXCEPT ![x] = "writing"]
          /\ actor'[r].step = "judge" /\ The(r)' = x /\ actor'[r].mail = actor[r].mail
          /\ actor'[r].left \subseteq actor[r].left
          /\ \A b \in Actors \ {r} : actor'[b] = actor[b]
      BY <2>1, <2>4 DEF ActorType, The
    <3>2. item[x] \in OpenStates /\ x \in Items /\ ItemAgrees(x)
      BY <2>2, <2>4 DEF Claimable, ActorAgrees, ExpensesInductive
    <3> HIDE DEF x
    <3>3. item'[x] = "writing" /\ \A y \in Items \ {x} : item'[y] = item[y]
      BY <3>1, <3>2 DEF ExpensesTypeOK
    <3>4. pending[x] = "none" /\ posted[x] = 0
      BY <3>2 DEF ItemAgrees, OpenStates
    <3>5. \A b \in Actors \ {r} : ~(HoldsItem(b) /\ The(b) = x)
      BY <3>2 DEF ExpensesInductive, ActorAgrees, OpenStates
    <3>6. Frozen(actor[r].mail)'
      BY <2>2, <3>1, <3>3, <3>2 DEF ActorAgrees, Frozen, ItemsOf
    <3>7. ActorAgrees(r)'
      BY <2>2, <3>1, <3>2, <3>3, <3>4, <3>6 DEF ActorAgrees, HoldsItem
    <3> QED
      BY <2>2, <3>1, <3>2, <3>3, <3>4, <3>5, <3>7, OneItem DEF OpenStates, ClosedStates
  <2> QED
    BY <2>3, <2>4
<1>8. CASE FindDuplicate(r) \/ AuditFails(r) \/ AuditPasses(r)
  <2>1. /\ item' = item /\ pending' = pending /\ posted' = posted /\ archived' = archived
        /\ actor[r].step = "judge"
    BY <1>8 DEF FindDuplicate, AuditFails, AuditPasses, Outside, ledgerVars, At
  <2>2. /\ \/ actor'[r].step = "post"
           \/ actor'[r].step = "finish" /\ actor'[r].outcome \in {"duplicate", "error"}
        /\ actor'[r].mail = actor[r].mail /\ actor'[r].index = actor[r].index
        /\ actor'[r].left = actor[r].left
        /\ \A b \in Actors \ {r} : actor'[b] = actor[b]
    BY <1>8 DEF FindDuplicate, AuditFails, AuditPasses, Conclude, Go, ActorType
  <2>3. HoldsItem(r) /\ The(r)' = The(r)
    BY <2>1, <2>2 DEF HoldsItem, The
  <2>4. ActorAgrees(r)'
    BY <2>1, <2>2, <2>3 DEF ActorAgrees, HoldsItem, Frozen, ItemsOf
  <2> QED
    BY <2>1, <2>2, <2>3, <2>4, OnlyActor
<1>9. CASE QueuePending(r)
  <2> DEFINE x == The(r)
  <2>1. /\ pending' = [pending EXCEPT ![x] = "pending"] /\ item' = [item EXCEPT ![x] = "pending"]
        /\ posted' = posted /\ archived' = archived /\ actor[r].step = "judge"
    BY <1>9 DEF QueuePending, Outside, At
  <2>2. /\ actor'[r].step = "finish" /\ actor'[r].outcome = "pending"
        /\ actor'[r].mail = actor[r].mail /\ actor'[r].index = actor[r].index
        /\ actor'[r].left = actor[r].left
        /\ \A b \in Actors \ {r} : actor'[b] = actor[b]
    BY <1>9 DEF QueuePending, Conclude, ActorType
  <2>3. HoldsItem(r) /\ The(r)' = x
    BY <2>1, <2>2 DEF HoldsItem, The
  <2>4. /\ x \in Items /\ item[x] = "writing" /\ pending[x] = "none" /\ posted[x] = 0
        /\ \A b \in Actors \ {r} : ~(HoldsItem(b) /\ The(b) = x)
    BY <2>1, <2>3, HeldAlone DEF ActorAgrees
  <2> HIDE DEF x
  <2>5. /\ item'[x] = "pending" /\ pending'[x] = "pending"
        /\ \A y \in Items \ {x} : item'[y] = item[y] /\ pending'[y] = pending[y]
    BY <2>1, <2>4 DEF ExpensesTypeOK
  <2>6. Frozen(actor[r].mail)'
    BY <2>1, <2>2, <2>5 DEF ActorAgrees, Frozen, ItemsOf
  <2>7. ActorAgrees(r)' /\ ~HoldsItem(r)'
    BY <2>1, <2>2, <2>3, <2>4, <2>5, <2>6 DEF ActorAgrees, HoldsItem
  <2> QED
    BY <2>1, <2>2, <2>4, <2>5, <2>7, OneItem DEF ClosedStates
<1>10. CASE FinishItem(r)
  <2> DEFINE x == The(r)
  <2>1. /\ item' = IF MayFinish(x) THEN [item EXCEPT ![x] = actor[r].outcome] ELSE item
        /\ pending' = pending /\ posted' = posted /\ archived' = archived
        /\ actor[r].step = "finish"
    BY <1>10 DEF FinishItem, Outside, At
  <2>2. /\ actor'[r].step = "item" /\ actor'[r].mail = actor[r].mail
        /\ actor'[r].left = actor[r].left
        /\ \A b \in Actors \ {r} : actor'[b] = actor[b]
    BY <1>10 DEF FinishItem, ActorType
  <2>3. CASE actor[r].outcome = "pending"
    <3>1. item' = item
      BY <2>1, <2>3 DEF ActorAgrees, MayFinish
    <3>2. ActorAgrees(r)' /\ ~HoldsItem(r)'
      BY <2>1, <2>2, <3>1 DEF ActorAgrees, HoldsItem, Frozen, ItemsOf
    <3> QED
      BY <2>1, <2>2, <3>1, <3>2, OnlyActor
  <2>4. CASE actor[r].outcome # "pending"
    <3> DEFINE o == actor[r].outcome
    <3>1. HoldsItem(r)
      BY <2>1, <2>4 DEF HoldsItem
    <3>2. /\ x \in Items /\ item[x] = "writing" /\ pending[x] = "none" /\ ItemAgrees(x)
          /\ \A b \in Actors \ {r} : ~(HoldsItem(b) /\ The(b) = x)
      BY <3>1, HeldAlone
    <3>3. o \in {"recorded", "duplicate", "error", "uncertain"}
      BY <2>1, <2>4 DEF ActorAgrees, ActorType, Outcomes
    <3>4. /\ o \in {"duplicate", "error"} => posted[x] = 0
          /\ o = "recorded" => posted[x] = 1
      BY <2>1 DEF ActorAgrees
    <3> HIDE DEF x, o
    <3>5. item'[x] = o /\ \A y \in Items \ {x} : item'[y] = item[y]
      BY <2>1, <3>2 DEF MayFinish, ExpensesTypeOK, o
    <3>6. Frozen(actor[r].mail)'
      BY <2>1, <2>2, <3>3, <3>5 DEF ActorAgrees, Frozen, ItemsOf
    <3>7. ActorAgrees(r)' /\ ~HoldsItem(r)'
      BY <2>1, <2>2, <3>6 DEF ActorAgrees, HoldsItem
    <3> QED
      BY <2>1, <2>2, <3>2, <3>3, <3>4, <3>5, <3>7, OneItem DEF ClosedStates, ItemAgrees
  <2> QED
    BY <2>3, <2>4
<1> QED
  BY <1>1, <1>2, <1>3, <1>4, <1>5, <1>6, <1>7, <1>8, <1>9, <1>10 DEF RunnerStep

\* add_expense, and the end of a mail.
LEMMA CommonKeeps == ASSUME ExpensesInductive, NEW a \in Actors, CommonStep(a)
                     PROVE  ExpensesInductive'
<1>0. /\ ActorAgrees(a) /\ ExpensesTypeOK /\ ExpensesTypeOK'
      /\ actor \in [Actors -> ActorType] /\ (a \in Runners <=> a \notin Clerks)
  BY CommonTypes, ActorFun, ExpensesAssumption DEF Actors, ExpensesInductive
<1> USE <1>0
<1> DEFINE x == The(a)
<1>1. ASSUME actor[a].step = "post", item' = item, pending' = pending, archived' = archived,
             NEW o \in {"recorded", "error", "uncertain"}, Conclude(a, o),
             posted' = posted \/ PostOnce(a),
             o = "recorded" => PostOnce(a), o = "error" => posted' = posted
      PROVE  ExpensesInductive'
  <2>1. /\ actor'[a].step = "finish" /\ actor'[a].outcome = o
        /\ actor'[a].mail = actor[a].mail /\ actor'[a].index = actor[a].index
        /\ actor'[a].left = actor[a].left /\ actor'[a].todo = actor[a].todo
        /\ \A b \in Actors \ {a} : actor'[b] = actor[b]
    BY <1>1 DEF Conclude, ActorType
  <2>2. HoldsItem(a) /\ The(a)' = x
    BY <1>1, <2>1 DEF HoldsItem, The
  <2>3. /\ x \in Items /\ item[x] = "writing" /\ posted[x] = 0
        /\ pending[x] = IF a \in Runners THEN "none" ELSE "resolving"
        /\ \A b \in Actors \ {a} : ~(HoldsItem(b) /\ The(b) = x)
    BY <1>1, <2>2, HeldAlone DEF ActorAgrees
  <2> HIDE DEF x
  <2>4. /\ posted'[x] = 0 \/ posted'[x] = 1
        /\ o = "recorded" => posted'[x] = 1
        /\ o = "error" => posted'[x] = 0
        /\ \A y \in Items \ {x} : posted'[y] = posted[y]
    BY <1>1, <2>3 DEF PostOnce, ExpensesTypeOK, x
  <2>5. Frozen(actor[a].mail)'
    BY <1>1, <2>1 DEF ActorAgrees, Frozen, ItemsOf
  <2>6. ActorAgrees(a)'
    BY <1>1, <2>1, <2>2, <2>3, <2>4, <2>5 DEF ActorAgrees, HoldsItem
  <2> QED
    BY <1>1, <2>1, <2>2, <2>3, <2>4, <2>6, OneItem DEF ClosedStates
<1>2. CASE Post(a)
  BY <1>1, <1>2 DEF Post, At, ledgerVars
<1>3. CASE PostRefused(a)
  BY <1>1, <1>3 DEF PostRefused, At, Outside, ledgerVars
<1>4. CASE PostInDoubt(a)
  BY <1>1, <1>4 DEF PostInDoubt, At, ledgerVars
<1>5. CASE Finalize(a)
  <2> DEFINE m == actor[a].mail
  <2>1. /\ item' = item /\ pending' = pending /\ posted' = posted /\ archived' = archived
        /\ actor[a].step \in {"finalize", "item"}
        /\ \/ Go(a, "archive") /\ StatusOf(m) \in {"recorded", "duplicate"}
           \/ NextMail(a)
    BY <1>5 DEF Finalize, Outside, At
  <2>2. CASE NextMail(a)
    BY <2>1, <2>2, NextMailKeeps
  <2>3. CASE Go(a, "archive") /\ StatusOf(m) \in {"recorded", "duplicate"}
    <3>1. \A y \in ItemsOf(m) : item[y] \notin {"ready", "error", "writing", "uncertain", "pending"}
      BY <2>3 DEF StatusOf, Unsettled, OpenStates
    <3>2. \A y \in ItemsOf(m) : item[y] # "none"
      BY <2>1 DEF ActorAgrees, Frozen, ItemsOf, ExpensesInductive, ItemAgrees
    <3>3. AllClosed(m)
      BY <3>1, <3>2 DEF AllClosed, ItemsOf, ClosedStates, ExpensesTypeOK, ItemStates
    <3>4. /\ actor'[a].step = "archive" /\ actor'[a].mail = m
          /\ actor'[a].todo = actor[a].todo
          /\ \A b \in Actors \ {a} : actor'[b] = actor[b]
      BY <2>3 DEF Go, ActorType
    <3>5. AllClosed(actor[a].mail)' /\ Frozen(actor[a].mail)'
      BY <2>1, <3>3, <3>4 DEF ActorAgrees, AllClosed, Frozen, ItemsOf
    <3>6. ActorAgrees(a)' /\ ~HoldsItem(a)'
      BY <3>4, <3>5 DEF ActorAgrees, HoldsItem
    <3> QED
      BY <2>1, <3>4, <3>6, OnlyActor
  <2> QED
    BY <2>1, <2>2, <2>3
<1>6. CASE Archive(a)
  <2>1. /\ item' = item /\ pending' = pending /\ posted' = posted
        /\ archived' = archived \cup {actor[a].mail} /\ actor[a].step = "archive"
        /\ actor'[a].step = "mark" /\ actor'[a].todo = actor[a].todo
        /\ \A b \in Actors \ {a} : actor'[b] = actor[b]
    BY <1>6 DEF Archive, At, Go, ledgerVars, ActorType
  <2>2. ActorAgrees(a)' /\ ~HoldsItem(a)'
    BY <2>1 DEF ActorAgrees, HoldsItem
  <2>3. ASSUME NEW b \in Actors \ {a}
        PROVE  ActorAgrees(b)' /\ (HoldsItem(b)' <=> HoldsItem(b)) /\ The(b)' = The(b)
    BY <2>1, <2>3 DEF ExpensesInductive, ActorAgrees, HoldsItem, The, Frozen, AllClosed, ItemsOf
  <2>4. OneItemHolder'
    BY <2>2, <2>3 DEF ExpensesInductive, OneItemHolder
  <2>5. AllClosed(actor[a].mail)
    BY <2>1 DEF ActorAgrees
  <2>6. ASSUME NEW y \in Items PROVE ItemAgrees(y)'
    BY <2>1, <2>5 DEF ExpensesInductive, ItemAgrees, AllClosed, ItemsOf
  <2> QED
    BY <2>2, <2>3, <2>4, <2>6 DEF ExpensesInductive
<1>7. CASE ArchiveFails(a) \/ MarkArchived(a)
  <2>1. /\ item' = item /\ pending' = pending /\ posted' = posted /\ archived' = archived
        /\ NextMail(a)
    BY <1>7 DEF ArchiveFails, MarkArchived, Outside, ledgerVars
  <2> QED
    BY <2>1, NextMailKeeps
<1> QED
  BY <1>2, <1>3, <1>4, <1>5, <1>6, <1>7 DEF CommonStep

\* The user's resolutions.
LEMMA ClerkKeeps == ASSUME ExpensesInductive, NEW c \in Clerks, ClerkStep(c), ~CommonStep(c)
                    PROVE  ExpensesInductive'
<1>0. /\ c \in Actors /\ c \notin Runners /\ ActorAgrees(c) /\ ExpensesTypeOK /\ ExpensesTypeOK'
      /\ actor \in [Actors -> ActorType]
  BY ClerkTypes, ActorFun, ExpensesAssumption DEF Actors, ExpensesInductive
<1> USE <1>0
<1>1. ASSUME NEW x \in Items, ResolveItem(c, x) \/ DiscardItem(c, x) PROVE ExpensesInductive'
  <2> DEFINE row(s) == [Off EXCEPT !.step = s, !.mail = x[1], !.index = x[2]]
  <2>0. \A s : /\ row(s).step = s /\ row(s).mail = x[1] /\ row(s).index = x[2]
               /\ row(s).todo = {} /\ row(s).left = {}
    BY DEF Off
  <2>1. PICK s \in {"post", "finalize"} :
            /\ item' = [item EXCEPT ![x] = IF s = "post" THEN "writing" ELSE "discarded"]
            /\ pending' = [pending EXCEPT ![x] = IF s = "post" THEN "resolving" ELSE "discarded"]
            /\ actor' = [actor EXCEPT ![c] = row(s)]
    BY <1>1 DEF ResolveItem, DiscardItem
  <2> HIDE DEF row
  <2>2. /\ posted' = posted /\ archived' = archived /\ pending[x] = "pending"
        /\ actor[c].step = "idle"
    BY <1>1 DEF ResolveItem, DiscardItem, Outside, At
  <2>3. /\ item[x] = "pending" /\ posted[x] = 0 /\ ItemAgrees(x)
    BY <1>1, <2>2 DEF ExpensesInductive, ItemAgrees
  <2>4. \A b \in Actors \ {c} : ~(HoldsItem(b) /\ The(b) = x)
    BY <2>3 DEF ExpensesInductive, ActorAgrees
  <2>5. /\ item'[x] = IF s = "post" THEN "writing" ELSE "discarded"
        /\ pending'[x] = IF s = "post" THEN "resolving" ELSE "discarded"
        /\ \A y \in Items \ {x} : item'[y] = item[y] /\ pending'[y] = pending[y]
    BY <1>1, <2>1 DEF ExpensesTypeOK
  <2>6. /\ actor'[c].step = s /\ actor'[c].mail = x[1] /\ actor'[c].index = x[2]
        /\ actor'[c].todo = {} /\ actor'[c].left = {}
        /\ \A b \in Actors \ {c} : actor'[b] = actor[b]
    BY <2>0, <2>1
  <2>7. The(c)' = x
    BY <1>1, <2>6, ExpensesAssumption DEF The
  <2>8. Frozen(actor[c].mail)'
    BY <1>1, <2>5, <2>6 DEF Frozen, ItemsOf
  <2>9. ActorAgrees(c)'
    BY <1>1, <2>2, <2>3, <2>5, <2>6, <2>7, <2>8 DEF ActorAgrees, HoldsItem
  <2> QED
    BY <1>1, <2>2, <2>3, <2>4, <2>5, <2>6, <2>7, <2>9, OneItem DEF ClosedStates
<1>2. CASE SettleItem(c)
  <2> DEFINE x == The(c)
             new == IF actor[c].outcome = "error" THEN "pending" ELSE actor[c].outcome
  <2>1. /\ item' = IF item[x] = "writing" \/ new = "recorded"
                   THEN [item EXCEPT ![x] = new] ELSE item
        /\ pending' = [pending EXCEPT ![x] = IF new = "recorded" THEN "resolved" ELSE new]
        /\ posted' = posted /\ archived' = archived /\ actor[c].step = "finish"
    BY <1>2 DEF SettleItem, Outside, At
  <2>2. /\ actor'[c].step = "finalize" /\ actor'[c].mail = actor[c].mail
        /\ actor'[c].todo = actor[c].todo
        /\ \A b \in Actors \ {c} : actor'[b] = actor[b]
    BY <1>2 DEF SettleItem, Go, ActorType
  <2>3. /\ new \in {"recorded", "pending", "uncertain"}
        /\ new = "pending" => posted[x] = 0
        /\ new = "recorded" => posted[x] = 1
        /\ HoldsItem(c)
    BY <2>1 DEF ActorAgrees, HoldsItem
  <2>4. /\ x \in Items /\ item[x] = "writing" /\ ItemAgrees(x)
        /\ \A b \in Actors \ {c} : ~(HoldsItem(b) /\ The(b) = x)
    BY <2>3, HeldAlone
  <2> HIDE DEF x, new
  <2>5. /\ item'[x] = new /\ pending'[x] = IF new = "recorded" THEN "resolved" ELSE new
        /\ \A y \in Items \ {x} : item'[y] = item[y] /\ pending'[y] = pending[y]
    BY <2>1, <2>4 DEF ExpensesTypeOK
  <2>6. Frozen(actor[c].mail)'
    BY <2>1, <2>2, <2>3, <2>5 DEF ActorAgrees, Frozen, ItemsOf
  <2>7. ActorAgrees(c)' /\ ~HoldsItem(c)'
    BY <2>1, <2>2, <2>6 DEF ActorAgrees, HoldsItem
  <2> QED
    BY <2>1, <2>2, <2>3, <2>4, <2>5, <2>7, OneItem DEF ItemAgrees, ClosedStates
<1> QED
  BY <1>1, <1>2 DEF ClerkStep

LEMMA ExpensesStep == ExpensesInductive /\ (NextExpenses \/ UNCHANGED expenseVars)
                      => ExpensesInductive'
<1> SUFFICES ASSUME ExpensesInductive, NextExpenses PROVE ExpensesInductive'
  BY ExpensesFrame
<1>1. ASSUME NEW m \in Mails, Age(m) PROVE ExpensesInductive'
  BY <1>1 DEF Age, ledgerVars, ExpensesInductive, ExpensesTypeOK, ActorAgrees, OneItemHolder,
     ItemAgrees, HoldsItem, The, Frozen, AllClosed, ItemsOf
<1>2. ASSUME NEW r \in Runners, RunnerStep(r) PROVE ExpensesInductive'
  BY <1>2, RunnerKeeps, CommonKeeps DEF Actors
<1>3. ASSUME NEW c \in Clerks, ClerkStep(c) PROVE ExpensesInductive'
  BY <1>3, ClerkKeeps, CommonKeeps DEF Actors
<1>4. ASSUME NEW a \in Actors, ActorDies(a) PROVE ExpensesInductive'
  <2>1. /\ item' = item /\ pending' = pending /\ posted' = posted /\ archived' = archived
        /\ mail' = mail /\ window' = window /\ actor' = [actor EXCEPT ![a] = Off] /\ Fail
    BY <1>4 DEF ActorDies, ledgerVars
  <2>2. ExpensesTypeOK /\ actor \in [Actors -> ActorType] /\ Off \in ActorType
    BY ActorFun, OffType DEF ExpensesInductive
  <2>3. ExpensesTypeOK'
    BY <2>1, <2>2, FaultsType DEF ExpensesTypeOK, ActorType
  <2>4. /\ actor'[a].step = "idle" /\ actor'[a].todo = {}
        /\ \A b \in Actors \ {a} : actor'[b] = actor[b]
    BY <2>1, <2>2 DEF Off
  <2>5. ActorAgrees(a)' /\ ~HoldsItem(a)'
    BY <2>4 DEF ActorAgrees, HoldsItem
  <2> QED
    BY <2>1, <2>3, <2>4, <2>5, OnlyActor
<1> QED
  BY <1>1, <1>2, <1>3, <1>4 DEF NextExpenses

\* The invariant of the ledger gives the property that the run checks.
LEMMA ChargesKept == ExpensesInductive => ChargesAreKept
<1> SUFFICES ASSUME ExpensesInductive PROVE ChargesAreKept
  OBVIOUS
<1>1. ASSUME NEW x \in Items PROVE
          /\ posted[x] <= 1
          /\ posted[x] = 1 => item[x] \in {"writing", "uncertain", "recorded"}
          /\ item[x] = "recorded" => posted[x] = 1
          /\ x[1] \in archived => item[x] \in ClosedStates
  BY DEF ExpensesInductive, ItemAgrees, ExpensesTypeOK, ItemStates
<1> QED
  BY <1>1 DEF ChargesAreKept

\* For any runs and chat turns that overlap, fail or die, the ledger, Notion and
\* what the actors remember agree.
THEOREM SpecExpensesInductive == SpecExpenses => []ExpensesInductive
<1>1. InitExpenses => ExpensesInductive
  <2> SUFFICES ASSUME NEW s \in Scenes, StartWith(s) PROVE ExpensesInductive
    BY DEF InitExpenses
  <2> QED
    BY ExpensesInit, ExpensesAssumption DEF Actors
<1>2. ExpensesInductive /\ [NextExpenses]_expenseVars => ExpensesInductive'
  BY ExpensesStep
<1> QED
  BY <1>1, <1>2, PTL DEF SpecExpenses
=============================================================================
