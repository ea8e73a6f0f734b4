------------------------------ MODULE WalletAuth ------------------------------
(***************************************************************************)
(* Wallet sign-in (lib/wallet-auth, lib/db/wallet-auth): a request to      *)
(* POST session turns a signed challenge into a session.  It reads the     *)
(* clock once, and its statements run later.                               *)
(***************************************************************************)
EXTENDS Integers, Sequences

CONSTANTS
  Owners, Nonces,
  AuthRequests,        \* bound on the requests in flight
  ChallengeLifetime,   \* CHALLENGE_LIFETIME_SEC
  AuthClock            \* bound on the time

ASSUME AuthAssumption ==
  /\ ChallengeLifetime \in Nat \ {0} /\ AuthClock \in Nat
  /\ "none" \notin Owners \cup Nonces

VARIABLES
  second,      \* the time
  challenges,  \* cobia_wallet_auth_challenges: owner, expiry, consumed
  sessions,    \* cobia_wallet_auth_sessions, with the challenge each came from
  signIn       \* each request: its next await, what it presents, the time it read

authVars == <<second, challenges, sessions, signIn>>
NoSignIn == [at |-> "idle", owner |-> "none", signer |-> "none", nonce |-> "none", since |-> 0]
Absent == [owner |-> "none", expires |-> 0, consumed |-> FALSE]

AuthInit ==
  /\ second = 0 /\ sessions = <<>>
  /\ challenges = [n \in Nonces |-> Absent]
  /\ signIn = [r \in AuthRequests |-> NoSignIn]

AuthTick ==
  /\ second < AuthClock /\ second' = second + 1
  /\ UNCHANGED <<challenges, sessions, signIn>>

Continues(r, at) == signIn' = [signIn EXCEPT ![r].at = at]
Answered(r) == signIn' = [signIn EXCEPT ![r] = NoSignIn]

IssueChallenge(n, owner) ==
  /\ challenges[n] = Absent
  /\ challenges' = [challenges EXCEPT ![n] =
       [owner |-> owner, expires |-> second + ChallengeLifetime, consumed |-> FALSE]]
  /\ UNCHANGED <<second, sessions, signIn>>

\* readChallenge and consumeChallenge select the same row.
ChallengeReady(r) ==
  LET c == challenges[signIn[r].nonce] IN
  c.owner = signIn[r].owner /\ ~c.consumed /\ c.expires > signIn[r].since

\* Anyone may present any nonce with any wallet's signature.
PostSession(r, n, owner, signer) ==
  /\ signIn[r].at = "idle" /\ challenges[n] # Absent
  /\ signIn' = [signIn EXCEPT ![r] =
       [at |-> "challenge", owner |-> owner, signer |-> signer, nonce |-> n, since |-> second]]
  /\ UNCHANGED <<second, challenges, sessions>>

\* The signature is checked against the message of the row.
ReadChallenge(r) ==
  /\ signIn[r].at = "challenge"
  /\ IF ChallengeReady(r) /\ signIn[r].signer = signIn[r].owner THEN Continues(r, "consume") ELSE Answered(r)
  /\ UNCHANGED <<second, challenges, sessions>>

\* Mutant: a challenge that was ready when it was read is consumed.
ConsumableOnceRead(r) == TRUE

Consumable(r) == ChallengeReady(r)

ConsumeChallenge(r) ==
  /\ signIn[r].at = "consume"
  /\ IF Consumable(r)
     THEN challenges' = [challenges EXCEPT ![signIn[r].nonce].consumed = TRUE] /\ Continues(r, "session")
     ELSE Answered(r) /\ UNCHANGED challenges
  /\ UNCHANGED <<second, sessions>>

CreateSession(r) ==
  /\ signIn[r].at = "session"
  /\ sessions' = Append(sessions, [owner |-> signIn[r].owner, nonce |-> signIn[r].nonce])
  /\ Answered(r)
  /\ UNCHANGED <<second, challenges>>

\* The process dies between two statements.
SignInDies(r) ==
  /\ signIn[r].at # "idle" /\ Answered(r)
  /\ UNCHANGED <<second, challenges, sessions>>

AuthNext ==
  \/ AuthTick
  \/ \E n \in Nonces, o \in Owners : IssueChallenge(n, o)
  \/ \E r \in AuthRequests :
       \/ \E n \in Nonces, o, s \in Owners : PostSession(r, n, o, s)
       \/ ReadChallenge(r) \/ ConsumeChallenge(r) \/ CreateSession(r) \/ SignInDies(r)

AuthSpec == AuthInit /\ [][AuthNext]_authVars

-----------------------------------------------------------------------------
\* However many requests present a signed challenge at once, it makes one session
\* at most, of the owner it was issued to.
OneSessionPerChallenge ==
  \A i \in DOMAIN sessions :
    /\ challenges[sessions[i].nonce].owner = sessions[i].owner
    /\ \A j \in DOMAIN sessions : sessions[i].nonce = sessions[j].nonce => i = j
=============================================================================
