---------------------------- MODULE IntentComposer ----------------------------
(***************************************************************************)
(* From a goal to a published general-asset intent                         *)
(* (components/intents/IntentComposer, app/api/intents/route,              *)
(* lib/runtime/market, general-asset-publication): the page compiles the   *)
(* goal for the connected account, shows the draft for review, has the     *)
(* wallet sign it and posts it with the receipt of its compilation.  The   *)
(* owner may edit the goal, switch accounts and go back at any await.      *)
(* A draft is a record of what it was compiled from; its evidence and its  *)
(* receipt grow old.                                                       *)
(***************************************************************************)
EXTENDS Naturals, Sequences

CONSTANTS
  Accounts,    \* accounts of the owner's wallet
  GoalTexts,
  MaxPosts     \* bound on the publications

ASSUME ComposerAssumption ==
  /\ "none" \notin Accounts \cup GoalTexts
  /\ MaxPosts \in Nat \ {0}

VARIABLES
  account,     \* wallet.account
  page,        \* goal, step, the alert shown and the publication waited for
  compiling,   \* the compilation the page waits for
  draft,       \* values and compilationLeaseId, and whether each still lives
  posts,       \* the publications, in the page or in the route
  published    \* those of them that created an intent

composerVars == <<account, page, compiling, draft, posts, published>>

NoDraft == [goal |-> "none", owner |-> "none", receipt |-> "none", evidence |-> "none"]
NotCompiling == [goal |-> "none", owner |-> "none"]

ComposerInit ==
  /\ account \in Accounts
  /\ page \in [goal : GoalTexts, step : {"goal"}, alert : {"none"}, waits : {0}]
  /\ compiling = NotCompiling /\ draft = NoDraft
  /\ posts = <<>> /\ published = {}

SwitchAccount(a) ==
  /\ account' = a /\ a # account
  /\ UNCHANGED <<page, compiling, draft, posts, published>>

\* The text stays editable while it is compiled.
EditGoal(g) ==
  /\ page.step = "goal" /\ g # page.goal
  /\ page' = [page EXCEPT !.goal = g]
  /\ UNCHANGED <<account, compiling, draft, posts, published>>

\* compileGoal
CompileGoal ==
  /\ page.step = "goal" /\ compiling = NotCompiling /\ account # "none"
  /\ compiling' = [goal |-> page.goal, owner |-> account]
  /\ page' = [page EXCEPT !.alert = "none"]
  /\ UNCHANGED <<account, draft, posts, published>>

\* A review is shown; a question or an error is an alert.  Without a session the
\* wallet is asked to prove its account and the request is repeated.
CompileAnswers(reviewed) ==
  /\ compiling # NotCompiling /\ compiling' = NotCompiling
  /\ IF reviewed
     THEN /\ draft' = [goal |-> compiling.goal, owner |-> compiling.owner,
                       receipt |-> "live", evidence |-> "live"]
          /\ page' = [page EXCEPT !.step = "review"]
     ELSE page' = [page EXCEPT !.alert = "draft"] /\ UNCHANGED draft
  /\ UNCHANGED <<account, posts, published>>

EditAgain ==
  /\ page.step = "review"
  /\ page' = [page EXCEPT !.step = "goal", !.alert = "none"]
  /\ draft' = [draft EXCEPT !.receipt = "none"]
  /\ UNCHANGED <<account, compiling, posts, published>>

\* The receipt is read for five minutes, and the evidence has a time of its own.
DraftAges(part) ==
  /\ draft[part] = "live" /\ draft' = [draft EXCEPT ![part] = "old"]
  /\ posts' = [i \in DOMAIN posts |->
       IF posts[i].draft[part] = "live" THEN [posts[i] EXCEPT !.draft[part] = "old"] ELSE posts[i]]
  /\ UNCHANGED <<account, page, compiling, published>>

-----------------------------------------------------------------------------
(* submit, and the route it posts to *)

\* The native balances were read for this account and this draft.
Submit ==
  /\ page.step = "review" /\ page.waits = 0
  /\ account # "none" /\ draft.receipt # "none"
  /\ Len(posts) < MaxPosts
  /\ posts' = Append(posts, [at |-> "sign", owner |-> account, goal |-> page.goal, draft |-> draft])
  /\ page' = [page EXCEPT !.alert = "none", !.waits = Len(posts) + 1]
  /\ UNCHANGED <<account, compiling, draft, published>>

Reaches(i, at) == posts' = [posts EXCEPT ![i].at = at]
PageHears(i, alert) ==
  page' = IF page.waits = i THEN [page EXCEPT !.waits = 0, !.alert = alert] ELSE page

\* Every refusal of the route that is not about the policy says so.
AnswersUnpublished(i) == Reaches(i, "answered") /\ PageHears(i, "unpublished")

\* The chain is switched and the wallet signs the commitment for the policy's owner.
SignIntent(i, signs) ==
  /\ posts[i].at = "sign"
  /\ IF signs THEN Reaches(i, "verify") /\ UNCHANGED page
     ELSE Reaches(i, "answered") /\ PageHears(i, "wallet")
  /\ UNCHANGED <<account, compiling, draft, published>>

\* Mutant: the receipt is read by its id alone.
ReceiptOfAnyone(d, owner) == d.receipt = "live"

\* readCompletedCompilation
ReceiptReadable(d, owner) == d.receipt = "live" /\ d.owner = owner

\* The owner's signature is verified, and the receipt read.
VerifyIntent(i) ==
  /\ posts[i].at = "verify"
  /\ IF ReceiptReadable(posts[i].draft, posts[i].owner)
     THEN Reaches(i, "persist") /\ UNCHANGED page ELSE AnswersUnpublished(i)
  /\ UNCHANGED <<account, compiling, draft, published>>

\* The manifest, the balances, the evidence and the program of the platform's solver
\* are checked before the intent is created.
PersistIntent(i, funded) ==
  /\ posts[i].at = "persist"
  /\ IF funded /\ posts[i].draft.evidence = "live"
     THEN published' = published \cup {i} /\ Reaches(i, "store") /\ UNCHANGED page
     ELSE AnswersUnpublished(i) /\ UNCHANGED published
  /\ UNCHANGED <<account, compiling, draft>>

\* The program is stored in the same request (HouseSolver), and a failure to store it
\* is the answer.
StoreAndAnswer(i, stored) ==
  /\ posts[i].at = "store"
  /\ IF stored
     THEN /\ Reaches(i, "answered")
          /\ page' = IF page.waits = i THEN [page EXCEPT !.step = "left", !.waits = 0] ELSE page
     ELSE AnswersUnpublished(i)
  /\ UNCHANGED <<account, compiling, draft, published>>

\* The connection is lost while the route goes on.
AnswerLost(i) ==
  /\ page.waits = i /\ posts[i].at \in {"verify", "persist", "store"}
  /\ PageHears(i, "lost")
  /\ UNCHANGED <<account, compiling, draft, posts, published>>

ComposerNext ==
  \/ \E a \in Accounts \cup {"none"} : SwitchAccount(a)
  \/ \E g \in GoalTexts : EditGoal(g)
  \/ CompileGoal \/ EditAgain \/ Submit
  \/ \E reviewed \in BOOLEAN : CompileAnswers(reviewed)
  \/ \E part \in {"receipt", "evidence"} : DraftAges(part)
  \/ \E i \in DOMAIN posts, yes \in BOOLEAN :
       SignIntent(i, yes) \/ PersistIntent(i, yes) \/ StoreAndAnswer(i, yes)
  \/ \E i \in DOMAIN posts : VerifyIntent(i) \/ AnswerLost(i)

ComposerSpec == ComposerInit /\ [][ComposerNext]_composerVars

-----------------------------------------------------------------------------
\* An intent is published by the account its draft was compiled for, whichever
\* accounts the wallet was switched to between the review and the signature.
PublishedByItsDrafter == \A i \in published : posts[i].owner = posts[i].draft.owner
=============================================================================
