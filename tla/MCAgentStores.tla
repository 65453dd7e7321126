---------------------------- MODULE MCAgentStores ----------------------------
(***************************************************************************)
(* Small instances of AgentStores for TLC.                                 *)
(***************************************************************************)
EXTENDS AgentStores, TLC

CONSTANTS k1, k2, k3, cron, manual, clerk

\* The first agent never volunteers; the others yield to one answer.
Tolerances == (1 :> 0) @@ (2 :> 1) @@ (3 :> 1)

\* A reticent agent beside one that would answer; two that would, one of which
\* also looks at the other's answer.
Hearers == "volunteers" :> ({1, 2} \X {"user"}) @@ "reactions" :> {<<2, "user">>, <<3, "user">>, <<3, "peer">>}

\* Two calls of one conversation and one of another process' job.
ChargedCalls == (k1 :> {"day", "chat"}) @@ (k2 :> {"day", "chat"}) @@ (k3 :> {"day"})

\* The job has one provider, the conversation a chain of two.
Chains == (k1 :> 2) @@ (k2 :> 2) @@ (k3 :> 1)
Limits == [a \in Accounts |-> IF a = "day" THEN 5 ELSE 4]

\* Two mails that tell of one charge, for the job and a chat turn; a mail with
\* a foreign charge, for two overlapping runs and a chat turn; a mail of two.
MailItems == {<<1, 1>>, <<2, 1>>, <<3, 1>>, <<3, 2>>, <<4, 1>>, <<4, 2>>}
Charges == [x \in Items |-> IF x[2] = 1 THEN "same" ELSE "other"]
ForeignCharges == {<<3, 2>>}
MailScenes == {[mails |-> {1, 2}, actors |-> {cron, clerk}],
               [mails |-> {3}, actors |-> {cron, manual, clerk}],
               [mails |-> {4}, actors |-> {cron, clerk}]}
============================================================================
