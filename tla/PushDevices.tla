----------------------------- MODULE PushDevices -----------------------------
(***************************************************************************)
(* Web Push subscriptions: the rows that bind a browser's endpoint to the  *)
(* user signed in on it, and the background sends that resolve an audience *)
(* to endpoints, POST to each, and delete the rows the push service called *)
(* dead.  Registrations, sign-outs and sends interleave; a registration    *)
(* looks the row up and writes it in two steps.                            *)
(***************************************************************************)
EXTENDS Naturals, FiniteSets

CONSTANTS Devices, Users, Senders, None,
          Endpoints     \* the endpoints browsers may mint: the bound on them

VARIABLES
    signedIn,   \* who is signed in on each device
    endpoint,   \* the endpoint each browser holds
    minted,     \* endpoints ever handed out
    served,     \* endpoints the push service still serves
    rows,       \* push_subscriptions: the users each endpoint is bound to
    archived,   \* users who may not sign in
    post,       \* per device, a subscribe request on its way: who, endpoint, row it found
    send        \* per sender, the rows left to send to and the endpoints found dead

vars == <<signedIn, endpoint, minted, served, rows, archived, post, send>>

NoPost == [who |-> None, at |-> None, found |-> FALSE, step |-> "none"]
NoSend == [on |-> FALSE, left |-> {}, dead |-> {}]

\* push_subscriptions: one row per endpoint, under the person it belongs to.
Subscriptions == [Endpoints -> SUBSET Users]

TypeOK ==
    /\ signedIn \in [Devices -> Users \cup {None}]
    /\ endpoint \in [Devices -> Endpoints \cup {None}]
    /\ served \subseteq minted /\ minted \subseteq Endpoints
    /\ rows \in Subscriptions /\ archived \subseteq Users
    /\ post \in [Devices -> [who : Users \cup {None}, at : Endpoints \cup {None},
                             found : BOOLEAN, step : {"none", "sent", "read"}]]
    /\ send \in [Senders -> [on : BOOLEAN, left : SUBSET (Endpoints \X Users),
                             dead : SUBSET Endpoints]]

Init ==
    /\ signedIn = [d \in Devices |-> None] /\ endpoint = [d \in Devices |-> None]
    /\ minted = {} /\ served = {} /\ rows = [e \in Endpoints |-> {}] /\ archived = {}
    /\ post = [d \in Devices |-> NoPost] /\ send = [s \in Senders |-> NoSend]

-----------------------------------------------------------------------------
\* The browser.

\* Sign in, reuse the browser's subscription or mint one, and POST it.
SignIn(d, u) ==
    /\ signedIn[d] = None /\ u \notin archived /\ post[d] = NoPost
    /\ signedIn' = [signedIn EXCEPT ![d] = u]
    /\ \E e \in (IF endpoint[d] = None THEN Endpoints \ minted ELSE {endpoint[d]}) :
          /\ endpoint' = [endpoint EXCEPT ![d] = e]
          /\ minted' = minted \cup {e} /\ served' = IF e \in minted THEN served ELSE served \cup {e}
          /\ post' = [post EXCEPT ![d] = [who |-> u, at |-> e, found |-> FALSE, step |-> "sent"]]
    /\ UNCHANGED <<rows, archived, send>>

\* A sign-out deletes its own row, then the browser drops the subscription;
\* when the call fails nothing but the session goes.
SignOut(d, heard) ==
    /\ signedIn[d] # None
    /\ IF heard /\ endpoint[d] # None
       THEN /\ rows' = [rows EXCEPT ![endpoint[d]] = @ \ {signedIn[d]}]
            /\ served' = served \ {endpoint[d]} /\ endpoint' = [endpoint EXCEPT ![d] = None]
       ELSE UNCHANGED <<rows, served, endpoint>>
    /\ signedIn' = [signedIn EXCEPT ![d] = None]
    /\ UNCHANGED <<minted, archived, post, send>>

\* An administrator archives an account, which ends its sessions everywhere.
ArchiveUser(u) ==
    /\ u \notin archived /\ archived' = archived \cup {u}
    /\ signedIn' = [d \in Devices |-> IF signedIn[d] = u THEN None ELSE signedIn[d]]
    /\ UNCHANGED <<endpoint, minted, served, rows, post, send>>

\* The user withdraws the permission, or the push service forgets the browser.
Lapse(d) ==
    /\ endpoint[d] # None
    /\ served' = served \ {endpoint[d]} /\ endpoint' = [endpoint EXCEPT ![d] = None]
    /\ UNCHANGED <<signedIn, minted, rows, archived, post, send>>

-----------------------------------------------------------------------------
\* POST /push/subscribe.

Find(d) ==
    /\ post[d].step = "sent"
    /\ post' = IF signedIn[d] # post[d].who THEN [post EXCEPT ![d] = NoPost]
               ELSE [post EXCEPT ![d].step = "read", ![d].found = rows[post[d].at] # {}]
    /\ UNCHANGED <<signedIn, endpoint, minted, served, rows, archived, send>>

\* The endpoint is the primary key: its row moves to the new user.
Claimed(e, u) == {u}

\* An insert finds a row another request has inserted, or an update finds its
\* row deleted: the request fails and the device waits for the next sign-in.
Save(d) ==
    LET e == post[d].at IN
    /\ post[d].step = "read"
    /\ rows' = IF post[d].found = (rows[e] # {})
               THEN [rows EXCEPT ![e] = Claimed(e, post[d].who)] ELSE rows
    /\ post' = [post EXCEPT ![d] = NoPost]
    /\ UNCHANGED <<signedIn, endpoint, minted, served, archived, send>>

-----------------------------------------------------------------------------
\* The sends.

Audience(U) == U \ archived

Resolve(s, U) ==
    /\ ~send[s].on
    /\ send' = [send EXCEPT ![s] =
          [on |-> TRUE, left |-> {x \in Endpoints \X Users : x[2] \in rows[x[1]] \cap Audience(U)},
           dead |-> {}]]
    /\ UNCHANGED <<signedIn, endpoint, minted, served, rows, archived, post>>

\* What a push service may answer for an endpoint, or no answer at all: only
\* 404 and 410 speak of the subscription, and only of one it does not serve.
Classified(e) == IF e \in served THEN {"ok", "ours", "retry"} ELSE {"drop", "ours", "retry"}

Dead(outcome) == outcome = "drop"

Deliver(s, x) ==
    /\ x \in send[s].left
    /\ \E outcome \in Classified(x[1]) :
          send' = [send EXCEPT ![s].left = @ \ {x},
                               ![s].dead = IF Dead(outcome) THEN @ \cup {x[1]} ELSE @]
    /\ UNCHANGED <<signedIn, endpoint, minted, served, rows, archived, post>>

Cleaned(s) == [e \in Endpoints |-> IF e \in send[s].dead THEN {} ELSE rows[e]]

Finish(s) ==
    /\ send[s].on /\ send[s].left = {}
    /\ rows' = Cleaned(s)
    /\ send' = [send EXCEPT ![s] = NoSend]
    /\ UNCHANGED <<signedIn, endpoint, minted, served, archived, post>>

Next ==
    \/ \E d \in Devices :
          \/ \E u \in Users : SignIn(d, u)
          \/ \E heard \in BOOLEAN : SignOut(d, heard)
          \/ Lapse(d) \/ Find(d) \/ Save(d)
    \/ \E u \in Users : ArchiveUser(u)
    \/ \E s \in Senders :
          \/ \E U \in SUBSET Users \ {{}} : Resolve(s, U)
          \/ \E x \in send[s].left : Deliver(s, x)
          \/ Finish(s)

Spec == Init /\ [][Next]_vars

-----------------------------------------------------------------------------
\* Properties.

\* A device is addressed for one person at most, whoever signed in on it, in
\* what order, and however many of their requests failed.
OneClaim == \A e \in Endpoints : Cardinality(rows[e]) <= 1

\* The clean-up of a send never removes the row of an endpoint the push service
\* still serves, whatever the service answered and whoever registered meanwhile.
LiveStaysSubscribed ==
    [][\A e \in Endpoints : rows[e] # {} /\ rows'[e] = {} /\ (\E s \in Senders : send'[s] # send[s])
          => e \notin served]_vars
=============================================================================
