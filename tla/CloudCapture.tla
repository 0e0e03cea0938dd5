------------------------------ MODULE CloudCapture ------------------------------
(***************************************************************************)
(* One user's NetFacilities sign-in ceremony and the unattended chain it   *)
(* feeds: a task polls a rented browser until the user is signed in, saves *)
(* the session, then polls for exported work-order files; each capture is  *)
(* imported off the loop, the browser released, an enrichment batch started *)
(* on the saved session and the outcome pushed.  The Import button runs    *)
(* the same chain; Cancel, the deadlines and new ceremonies cut across it. *)
(***************************************************************************)
EXTENDS Naturals

CONSTANTS MaxAttempts,  \* bound on the starts
          Exports       \* bound on the files exported in each attempt

Attempts == 1..MaxAttempts
Button   == 0
MaxFiles == 2
Runners  == Attempts \cup {Button}
Open     == {"awaiting_sign_in", "signed_in"}
Busy     == {"importing", "imported", "enriching"}

VARIABLES
    cer,        \* the user's ceremony: attempt, state, player shown, capture, chain stage
    polling,    \* where each attempt and its poll task stand
    late,       \* whether the deadline of the loop it is in has passed
    releases,   \* how often the release of each attempt's browser was asked for
    files,      \* files exported in each attempt so far
    chain,      \* per runner, the chain it is in: its step, attempt and file
    imported,   \* how often each file was imported
    saved,      \* netfacilities_cloud_sessions: the attempt that saved it, and expired or not
    job         \* the latest enrichment batch: state, the sign-in it replays

vars == <<cer, polling, late, releases, files, chain, imported, saved, job>>
cerVars == <<cer, polling, late, releases, files>>
chainVars == <<chain, imported>>

Idle == [pc |-> "off", n |-> 0, file |-> 0]

\* A task at work; and how it, or the start before it, came to be gone: returned,
\* ended by an exception, cancelled by its user, or never begun because the start
\* failed once the browser was rented.
Polling == {"rest", "ask", "signed", "watch", "read", "dispatch", "chain", "release"}
Gone == {"done", "dead", "cut", "stray"}

Ceremonies == [n : 0..MaxAttempts, shown : BOOLEAN, file : 0..MaxFiles, consumed : BOOLEAN,
               state : Open \cup {"none", "closed", "failed", "cancelled", "timed_out"},
               stage : Busy \cup {"none", "done", "failed"}]
SavedSessions == [from : 0..MaxAttempts, expired : BOOLEAN]
Jobs == [state : {"none", "running", "completed", "authentication_required"},
         from : 0..MaxAttempts]

TypeOK ==
    /\ cer \in Ceremonies
    /\ polling \in [Attempts -> Polling \cup Gone \cup {"none", "refused"}]
    /\ late \in [Attempts -> BOOLEAN]
    /\ releases \in [Attempts -> Nat] /\ files \in [Attempts -> 0..MaxFiles]
    /\ chain \in [Runners -> [n : 0..MaxAttempts, file : 0..MaxFiles,
                              pc : {"off", "import", "orphan", "bad", "mark", "close", "release",
                                    "enrich", "start", "finish", "unenriched", "raised"}]]
    /\ imported \in [Attempts \X (1..MaxFiles) -> Nat]
    /\ saved \in SavedSessions /\ job \in Jobs

Init ==
    /\ cer = [n |-> 0, state |-> "none", shown |-> FALSE, file |-> 0, consumed |-> FALSE,
              stage |-> "none"]
    /\ polling = [a \in Attempts |-> "none"] /\ late = [a \in Attempts |-> FALSE]
    /\ releases = [a \in Attempts |-> 0] /\ files = [a \in Attempts |-> 0]
    /\ chain = [r \in Runners |-> Idle]
    /\ imported = [x \in Attempts \X (1..MaxFiles) |-> 0]
    /\ saved = [from |-> 0, expired |-> FALSE]
    /\ job = [state |-> "none", from |-> 0]

Goes(a, pc) == polling' = [polling EXCEPT ![a] = pc]

-----------------------------------------------------------------------------
\* The ceremony.

\* The browser opens on the sign-in page; or none is rented; or it is rented and
\* a later step fails, with an error the service knows or with another.
Openings == {"opens", "refused", "fails", "raises"}

\* What becomes of the attempt.
Opened(how) == CASE how = "opens" -> "rest" [] how = "refused" -> "refused" [] OTHER -> "stray"

\* POST /cloud/auth/start; a ceremony still open is returned as it is.  A known
\* failure is recorded, another leaves the ceremony before it in place, and no
\* session object is left to close a browser already rented.
Start(a, how) ==
    /\ cer.state \notin Open
    /\ polling[a] = "none" /\ \A b \in 1..(a - 1) : polling[b] # "none"
    /\ cer' = IF how = "raises" THEN cer
              ELSE [n |-> a, state |-> IF how = "opens" THEN "awaiting_sign_in" ELSE "failed",
                    shown |-> how = "opens", file |-> 0, consumed |-> FALSE, stage |-> "none"]
    /\ Goes(a, Opened(how))
    /\ UNCHANGED <<late, releases, files, chainVars, saved, job>>

\* A deadline passes.
Late(a) ==
    /\ polling[a] \in Polling \ {"release"} /\ ~late[a]
    /\ late' = [late EXCEPT ![a] = TRUE]
    /\ UNCHANGED <<cer, polling, releases, files, chainVars, saved, job>>

\* A ceremony comes to an end, and the status stops showing its player.
Ended(state) == [cer EXCEPT !.state = state, !.shown = FALSE]

\* Seeded fault: only the sign-in has a deadline.
Overdue_SigningIn(a) == cer.n = a /\ cer.state = "awaiting_sign_in"

\* Only a still-open ceremony can time out.
Overdue(a) == cer.n = a /\ cer.state \in Open

\* The snapshot moves under the lock, the browser is released after it.
Timeout(a) ==
    /\ polling[a] \in {"rest", "watch"} /\ late[a]
    /\ IF Overdue(a)
       THEN cer' = Ended("timed_out") /\ Goes(a, "release")
       ELSE UNCHANGED cer /\ Goes(a, "done")
    /\ UNCHANGED <<late, releases, files, chainVars, saved, job>>

ReleaseOverdue(a) ==
    /\ polling[a] = "release" /\ Goes(a, "done")
    /\ releases' = [releases EXCEPT ![a] = @ + 1]
    /\ UNCHANGED <<cer, late, files, chainVars, saved, job>>

Ask(a) ==
    /\ polling[a] = "rest" /\ ~late[a] /\ Goes(a, IF cer.n = a THEN "ask" ELSE "done")
    /\ UNCHANGED <<cer, late, releases, files, chainVars, saved, job>>

\* Not signed in yet; or signed in, and the session is saved; or the vendor's
\* call or the saving raised, which nothing in this loop catches.
NotYet(a) ==
    /\ polling[a] = "ask" /\ Goes(a, "rest")
    /\ UNCHANGED <<cer, late, releases, files, chainVars, saved, job>>

Dies(a) ==
    /\ polling[a] = "ask" /\ Goes(a, "dead")
    /\ UNCHANGED <<cer, late, releases, files, chainVars, saved, job>>

Persist(a) ==
    /\ polling[a] = "ask" /\ Goes(a, "signed") /\ saved' = [from |-> a, expired |-> FALSE]
    /\ UNCHANGED <<cer, late, releases, files, chainVars, job>>

SignedIn(a) ==
    /\ polling[a] = "signed"
    /\ IF cer.n = a THEN cer' = [cer EXCEPT !.state = "signed_in"] /\ Goes(a, "watch")
                    ELSE UNCHANGED cer /\ Goes(a, "done")
    /\ late' = [late EXCEPT ![a] = FALSE]
    /\ UNCHANGED <<releases, files, chainVars, saved, job>>

Watch(a) ==
    /\ polling[a] = "watch" /\ ~late[a]
    /\ Goes(a, IF cer.n = a /\ cer.state = "signed_in" THEN "read" ELSE "done")
    /\ UNCHANGED <<cer, late, releases, files, chainVars, saved, job>>

\* No new file, or a vendor error: a bad poll, not a dead ceremony.
NoFile(a) ==
    /\ polling[a] = "read" /\ Goes(a, "watch")
    /\ UNCHANGED <<cer, late, releases, files, chainVars, saved, job>>

\* The newest file replaces the one captured before it.
Capture(a) ==
    /\ polling[a] = "read" /\ files[a] < Exports[a]
    /\ files' = [files EXCEPT ![a] = @ + 1]
    /\ IF cer.n = a THEN cer' = [cer EXCEPT !.file = files'[a]] /\ Goes(a, "dispatch")
                    ELSE UNCHANGED cer /\ Goes(a, "done")
    /\ UNCHANGED <<late, releases, chainVars, saved, job>>

-----------------------------------------------------------------------------
\* The chain.

\* Seeded fault: only a capture already imported is refused.
Refused_Consumed == cer.file = 0 \/ cer.consumed

Refused == cer.file = 0 \/ cer.consumed \/ cer.stage \in Busy

Dispatch(r) ==
    /\ cer' = [cer EXCEPT !.stage = "importing"]
    /\ chain' = [chain EXCEPT ![r] = [pc |-> "import", n |-> cer.n, file |-> cer.file]]

\* The poll task dispatches what it captured; a refusal is logged.
AutoDispatch(a) ==
    /\ polling[a] = "dispatch"
    /\ IF Refused THEN Goes(a, "watch") /\ UNCHANGED <<cer, chain>>
                  ELSE Goes(a, "chain") /\ Dispatch(a)
    /\ UNCHANGED <<late, releases, files, imported, saved, job>>

\* POST /cloud/downloads/import.
Press ==
    /\ chain[Button].pc \in {"off", "raised"} /\ ~Refused /\ Dispatch(Button)
    /\ UNCHANGED <<polling, late, releases, files, imported, saved, job>>

Step(r, pc) == chain' = [chain EXCEPT ![r].pc = pc]
\* The poll task goes back to its loop, whatever the chain came to.
Resumes(r) == polling' = IF r = Button THEN polling ELSE [polling EXCEPT ![r] = "watch"]
Back(r) == chain' = [chain EXCEPT ![r] = Idle] /\ Resumes(r)
Ours(r) == cer.n = chain[r].n

\* run_csv_import in a worker thread, which a cancelled task leaves running.
Import(r, good) ==
    /\ chain[r].pc \in {"import", "orphan"}
    /\ imported' = IF good THEN [imported EXCEPT ![<<chain[r].n, chain[r].file>>] = @ + 1]
                   ELSE imported
    /\ IF chain[r].pc = "orphan" THEN chain' = [chain EXCEPT ![r] = Idle]
       ELSE Step(r, IF good THEN "mark" ELSE "bad")
    /\ UNCHANGED <<cerVars, saved, job>>

Mark(r) ==
    /\ chain[r].pc = "mark" /\ Step(r, "close")
    /\ cer' = IF Ours(r) THEN [cer EXCEPT !.consumed = TRUE, !.stage = "imported"] ELSE cer
    /\ UNCHANGED <<polling, late, releases, files, imported, saved, job>>

\* Close before enriching; a ceremony that ended another way is left alone.
Close(r) ==
    /\ chain[r].pc = "close"
    /\ IF Ours(r) /\ cer.state = "signed_in"
       THEN cer' = Ended("closed") /\ Step(r, "release")
       ELSE UNCHANGED cer /\ Step(r, "enrich")
    /\ UNCHANGED <<polling, late, releases, files, imported, saved, job>>

Release(r) ==
    /\ chain[r].pc = "release" /\ Step(r, "enrich")
    /\ releases' = [releases EXCEPT ![chain[r].n] = @ + 1]
    /\ UNCHANGED <<cer, polling, late, files, imported, saved, job>>

Enrich(r) ==
    /\ chain[r].pc = "enrich" /\ Step(r, "start")
    /\ cer' = IF Ours(r) THEN [cer EXCEPT !.stage = "enriching"] ELSE cer
    /\ UNCHANGED <<polling, late, releases, files, imported, saved, job>>

Usable == saved.from # 0 /\ ~saved.expired

\* No usable session, or the running batch outlasts the retries.
GivesUp == ~Usable \/ job.state = "running"

StaysUnenriched(r) ==
    /\ chain[r].pc = "start" /\ GivesUp /\ Step(r, "unenriched")
    /\ UNCHANGED <<cerVars, imported, saved, job>>

StartBatch(r) ==
    /\ chain[r].pc = "start" /\ Usable /\ job.state # "running"
    /\ job' = [state |-> "running", from |-> saved.from] /\ Step(r, "finish")
    /\ UNCHANGED <<cerVars, imported, saved>>

\* Working out the session to replay, or starting the batch, raises an error the
\* chain does not expect: nothing records the end of the stage.
Raises(r) ==
    /\ chain[r].pc = "start" /\ Step(r, "raised") /\ Resumes(r)
    /\ UNCHANGED <<cer, late, releases, files, imported, saved, job>>

\* The stage is recorded (and a push sent), unless another ceremony began.
Finish(r) ==
    /\ chain[r].pc \in {"bad", "finish", "unenriched"} /\ Back(r)
    /\ cer' = IF Ours(r) THEN [cer EXCEPT !.stage = IF chain[r].pc = "bad" THEN "failed" ELSE "done"]
              ELSE cer
    /\ UNCHANGED <<late, releases, files, imported, saved, job>>

-----------------------------------------------------------------------------
\* Cancel, and the batches.

\* The poll task is cancelled wherever it stands and the browser released whatever
\* the state.  When closing it raises, which it does once the release is asked for,
\* the snapshot stays as it was.
Cancel(closes) ==
    LET n == cer.n IN
    /\ cer.state \notin {"none", "failed"}
    /\ Goes(n, "cut")
    /\ chain' = [chain EXCEPT ![n] =
          IF chain[n].pc = "import" THEN [@ EXCEPT !.pc = "orphan"]
          ELSE IF chain[n].pc = "orphan" THEN @ ELSE Idle]
    /\ releases[n] < 2   \* bound on repeated cancels
    /\ releases' = [releases EXCEPT ![n] = @ + 1]
    /\ cer' = IF closes THEN Ended("cancelled") ELSE cer
    /\ UNCHANGED <<late, files, imported, saved, job>>

\* POST /work-orders/enrich, by this user or (0) by another on a session of theirs.
EnrichByHand(from) ==
    /\ job.state # "running" /\ job' = [state |-> "running", from |-> from]
    /\ from = 0 \/ (Usable /\ from = saved.from)
    /\ UNCHANGED <<cerVars, chainVars, saved>>

BatchEnds(end) ==
    /\ job.state = "running" /\ job' = [job EXCEPT !.state = end]
    /\ UNCHANGED <<cerVars, chainVars, saved>>

\* GET /work-orders/enrich/{id}: a batch that lost authentication expires the
\* session of the user it ran for.
GetBatch ==
    /\ job.state = "authentication_required" /\ job.from # 0
    /\ saved.from # 0 /\ ~saved.expired /\ saved' = [saved EXCEPT !.expired = TRUE]
    /\ UNCHANGED <<cerVars, chainVars, job>>

PollStep(a) ==
    \/ Timeout(a) \/ ReleaseOverdue(a) \/ Ask(a) \/ NotYet(a) \/ Dies(a) \/ Persist(a)
    \/ SignedIn(a) \/ Watch(a) \/ NoFile(a) \/ Capture(a) \/ AutoDispatch(a)

ChainStep(r) ==
    \/ \E good \in BOOLEAN : Import(r, good)
    \/ Mark(r) \/ Close(r) \/ Release(r) \/ Enrich(r)
    \/ StaysUnenriched(r) \/ StartBatch(r) \/ Raises(r) \/ Finish(r)

Next ==
    \/ \E a \in Attempts : \/ \E how \in Openings : Start(a, how)
                           \/ Late(a) \/ PollStep(a)
    \/ \E r \in Runners : ChainStep(r)
    \/ Press
    \/ \E closes \in BOOLEAN : Cancel(closes)
    \/ \E from \in 0..MaxAttempts : EnrichByHand(from)
    \/ \E end \in {"completed", "authentication_required"} : BatchEnds(end)
    \/ GetBatch

\* The loop runs its ready tasks, worker threads finish and clocks advance;
\* nobody has to cancel, press, export or sign in.
Fairness == /\ \A a \in Attempts : WF_vars(Late(a)) /\ WF_vars(PollStep(a))
            /\ \A r \in Runners : WF_vars(ChainStep(r))

Spec == Init /\ [][Next]_vars /\ Fairness

-----------------------------------------------------------------------------
\* No exported file is imported twice, however the poll task, the button,
\* retries after a failed import and cancels interleave.
ImportedOnce == \A x \in DOMAIN imported : imported[x] <= 1

\* Stated by the repository and not kept by the code (README, Disagreements).
\* "The status endpoint must never advertise a player for a session we let go."
PlayerIsHeld == cer.shown => releases[cer.n] = 0

\* A player is shown for a browser that was let go only after a cancel whose close
\* raised: no deadline, import or new ceremony leaves one behind.
StalePlayerWasCut == cer.shown /\ releases[cer.n] > 0 => polling[cer.n] = "cut"

\* A ceremony that ended by itself keeps the end it came to, unless its user
\* cancels it: the deadline does not re-label what the chain closed.
EndsOnce ==
    [][cer.state \in {"closed", "cancelled", "timed_out"} /\ cer'.n = cer.n
         => cer'.state \in {cer.state, "cancelled"}]_vars

\* Stated by the repository and not kept by the code (README, Disagreements).
\* Whatever is open is eventually released: a tab left open costs no more than
\* the deadlines.
BrowsersAreReleased == \A a \in Attempts : (cer.n = a /\ cer.state \in Open) ~> (releases[a] > 0)

\* The release of every rented browser is asked for in the end, but for one whose
\* start failed after renting it and one whose poll task an exception ended.
Rented(a) == polling[a] \notin {"none", "refused"}
Leaked(a) == polling[a] \in {"stray", "dead"}
BrowsersAreLetGo == []<>\A a \in Attempts : Rented(a) => releases[a] > 0 \/ Leaked(a)

\* A chain in progress comes to done or failed, unless the user cancels the
\* ceremony or begins another, or an unexpected error ends the chain.
Abandoned(a) == polling[a] = "cut" \/ \E r \in Runners : chain[r].pc = "raised" /\ chain[r].n = a
ChainEnds == []<>(cer.stage \in Busy => Abandoned(cer.n))

=============================================================================
