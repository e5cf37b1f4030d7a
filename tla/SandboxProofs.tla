--------------------------- MODULE SandboxProofs ---------------------------
(***************************************************************************)
(* What the pages of a project may rely on, for any number of tabs,        *)
(* versions, transfers, terminations and timers.                           *)
(***************************************************************************)
EXTENDS Sandbox, TLAPS

-----------------------------------------------------------------------------
(* Transfers.                                                              *)

LEMMA TransferFields ==
  ASSUME NEW x \in Transfer
  PROVE  /\ x.n \in 1 .. MaxTransfers /\ x.n \in Nat
         /\ x.tab \in Tab /\ x.files \in Version /\ x.navigate \in BOOLEAN
         /\ x.at \in {"boot", "sent", "waiting", "gone"}
         /\ x.message \in {"none", "posted", "acked"}
BY DEF Transfer

\* y is transfer x at another stage.
Same(x, y) ==
  y.n = x.n /\ y.tab = x.tab /\ y.files = x.files /\ y.navigate = x.navigate

LEMMA Staged ==
  ASSUME NEW x \in Transfer, NEW y,
         \/ y = [x EXCEPT !.at = "gone"]
         \/ y = [x EXCEPT !.at = IF @ = "boot" THEN "sent" ELSE @]
  PROVE  /\ y \in Transfer /\ Same(x, y) /\ y.message = x.message
         /\ y = [x EXCEPT !.at = "gone"] => y.at = "gone"
         /\ y = [x EXCEPT !.at = IF @ = "boot" THEN "sent" ELSE @] =>
              y.at = IF x.at = "boot" THEN "sent" ELSE x.at
<1>1. CASE y = [x EXCEPT !.at = "gone"]
  BY <1>1 DEF Transfer, Same
<1>2. CASE y = [x EXCEPT !.at = IF @ = "boot" THEN "sent" ELSE @]
  BY <1>2 DEF Transfer, Same
<1> QED BY <1>1, <1>2

LEMMA Posted ==
  ASSUME NEW x \in Transfer, NEW y,
         y = [x EXCEPT !.at = "waiting", !.message = "posted"]
  PROVE  y \in Transfer /\ Same(x, y) /\ y.at = "waiting" /\ y.message = "posted"
BY DEF Transfer, Same

LEMMA Acked ==
  ASSUME NEW x \in Transfer, NEW y, y = [x EXCEPT !.message = "acked"]
  PROVE  y \in Transfer /\ Same(x, y) /\ y.at = x.at /\ y.message = "acked"
BY DEF Transfer, Same

LEMMA GivenUpFacts ==
  ASSUME TypeOK, NEW X \in SUBSET transfers, GivenUp(X)
  PROVE  /\ transfers' \subseteq Transfer
         /\ transfers \ X \subseteq transfers'
         /\ \A y \in transfers' : \/ y \in transfers \ X
                                  \/ \E x \in X : x.message = "posted"
         /\ (\A x \in X : x.message # "posted") => transfers' = transfers \ X
<1>1. transfers \subseteq Transfer
  BY DEF TypeOK
<1>2. \A x \in X : [x EXCEPT !.at = "gone"] \in Transfer
  BY <1>1, Staged
<1> QED BY <1>1, <1>2 DEF GivenUp

\* What a shell sends.
LEMMA PostFacts ==
  ASSUME TypeOK, NEW t \in Tab, NEW v \in Version, NEW nav \in BOOLEAN,
         Post(t, v, nav)
  PROVE  \E x \in Transfer :
           /\ transfers' = transfers \cup {x}
           /\ x.n = sent + 1 /\ x.tab = t /\ x.files = v /\ x.navigate = nav
           /\ x.message = "none"
           /\ x.at = IF bridge[t] \in {"absent", "booting"} THEN "boot" ELSE "sent"
<1> DEFINE x == [n |-> sent', tab |-> t, files |-> v, navigate |-> nav,
                 message |-> "none",
                 at |-> IF bridge[t] \in {"absent", "booting"} THEN "boot" ELSE "sent"]
<1>1. sent' = sent + 1 /\ sent' \in 1 .. MaxTransfers
  BY BoundsType DEF Post, TypeOK
<1>2. x \in Transfer
  BY <1>1 DEF Transfer
<1>3. transfers' = transfers \cup {x}
  BY DEF Post
<1> WITNESS x \in Transfer
<1> QED BY <1>1, <1>3

LEMMA PostType ==
  ASSUME TypeOK, NEW t \in Tab, NEW v \in Version, NEW nav \in BOOLEAN,
         Post(t, v, nav)
  PROVE  /\ transfers' \subseteq Transfer
         /\ sent' \in 0 .. MaxTransfers
         /\ bridge' \in [Tab -> {"absent", "booting", "booted", "ready"}]
         /\ crossed' \in BOOLEAN
         /\ UNCHANGED <<greeting, failed, events>>
<1>1. transfers' \subseteq Transfer
  BY PostFacts DEF TypeOK
<1>2. sent' \in 0 .. MaxTransfers
  BY BoundsType DEF Post, TypeOK
<1>3. crossed' \in BOOLEAN
  BY DEF Post
<1>4. bridge' \in [Tab -> {"absent", "booting", "booted", "ready"}]
  BY DEF Post, TypeOK
<1> QED BY <1>1, <1>2, <1>3, <1>4 DEF Post

\* What answers leave.
LEMMA AnsweredType ==
  ASSUME TypeOK, NEW F, NEW c \in 0 .. MaxVersion, Answered(F, c)
  PROVE  /\ req' \in [Fetch -> {"idle", "going", "waiting"}]
         /\ page' \in [Tab -> 0 .. MaxVersion]
         /\ Waiting' = Waiting \ F
<1>1. /\ req' \in [Fetch -> {"idle", "going", "waiting"}]
      /\ page' \in [Tab -> 0 .. MaxVersion]
  BY DEF Answered, TypeOK
<1>2. Waiting' = Waiting \ F
  BY DEF Answered, TypeOK, Waiting
<1> QED BY <1>1, <1>2

-----------------------------------------------------------------------------
(* Type correctness.                                                       *)

LEMMA InitTypeOK == Init => TypeOK
<1> SUFFICES ASSUME Init PROVE TypeOK
  OBVIOUS
<1>1. Waiting = {} /\ ~hydrating
  BY DEF Init, Waiting
<1>2. /\ {origin, hydrating, matching} \subseteq BOOLEAN
      /\ {failed, crossed} \subseteq BOOLEAN
  BY DEF Init
<1>3. /\ latest \in 0 .. MaxVersion /\ sent \in 0 .. MaxTransfers
      /\ cache \in 0 .. MaxVersion /\ timers \in 0 .. MaxTimers
      /\ events \in 0 .. MaxEvents /\ 0 \in 0 .. MaxVersion
  BY BoundsType DEF Init
<1> QED BY <1>1, <1>2, <1>3 DEF Init, TypeOK

\* The parts of the type that an action of the shell or the bridge touches.
LEMMA WiresTypeOK ==
  ASSUME TypeOK, UNCHANGED <<worker, req, page>>,
         files' \in [Tab -> 0 .. MaxVersion], latest' \in 0 .. MaxVersion,
         resolving' \in [Tab -> SUBSET Version],
         bridge' \in [Tab -> {"absent", "booting", "booted", "ready"}],
         transfers' \subseteq Transfer, sent' \in 0 .. MaxTransfers,
         greeting' \subseteq Tab, asked' \subseteq Tab,
         failed' \in BOOLEAN, crossed' \in BOOLEAN, events' \in 0 .. MaxEvents
  PROVE  TypeOK'
BY DEF TypeOK, worker, Waiting

\* And one of the worker or of a page.
LEMMA PagesTypeOK ==
  ASSUME TypeOK, UNCHANGED <<shell, bridge, sent, crossed>>,
         transfers' \subseteq Transfer, greeting' \subseteq Tab,
         asked' \subseteq Tab, failed' \in BOOLEAN, events' \in 0 .. MaxEvents,
         cache' \in 0 .. MaxVersion, origin' \in BOOLEAN, hydrating' \in BOOLEAN,
         matching' \in BOOLEAN, timers' \in 0 .. MaxTimers,
         req' \in [Fetch -> {"idle", "going", "waiting"}],
         page' \in [Tab -> 0 .. MaxVersion],
         Waiting' # {} => hydrating', hydrating' => timers' > 0
  PROVE  TypeOK'
BY DEF TypeOK, shell

LEMMA TypeFacts ==
  ASSUME TypeOK
  PROVE  /\ failed \in BOOLEAN /\ crossed \in BOOLEAN /\ origin \in BOOLEAN
         /\ hydrating \in BOOLEAN /\ matching \in BOOLEAN
         /\ MaxVersion \in Nat /\ MaxTransfers \in Nat /\ MaxEvents \in Nat
         /\ MaxTimers \in Nat /\ MaxTimers > 0
         /\ latest \in Nat /\ sent \in Nat /\ events \in Nat /\ timers \in Nat
         /\ transfers \subseteq Transfer
BY BoundsType DEF TypeOK

LEMMA ShellTypeOK ==
  ASSUME TypeOK, NEW t \in Tab, Show(t) \/ Send(t) \/ Resend(t)
  PROVE  TypeOK'
<1>1. CASE Show(t)
  <2>1. latest' \in 0 .. MaxVersion /\ latest' \in Version
    BY <1>1, TypeFacts DEF Show, TypeOK, Version
  <2>2. /\ files' \in [Tab -> 0 .. MaxVersion]
        /\ resolving' \in [Tab -> SUBSET Version]
    BY <1>1, <2>1 DEF Show, TypeOK
  <2> QED BY <1>1, <2>1, <2>2, WiresTypeOK DEF Show, wires, pages, marks, TypeOK
<1>2. CASE Send(t)
  <2>1. PICK v \in resolving[t] :
          Post(t, v, TRUE) /\ resolving' = [resolving EXCEPT ![t] = @ \ {v}]
    BY <1>2 DEF Send
  <2>2. v \in Version /\ resolving' \in [Tab -> SUBSET Version]
    BY <2>1 DEF TypeOK
  <2> QED BY <1>2, <2>1, <2>2, PostType, WiresTypeOK DEF Send, pages, TypeOK
<1>3. CASE Resend(t)
  <2>1. asked' \subseteq Tab
    BY <1>3 DEF Resend, TypeOK
  <2>2. CASE files[t] = 0
    BY <1>3, <2>1, <2>2, WiresTypeOK DEF Resend, pages, wires, marks, shell, TypeOK
  <2>3. CASE files[t] # 0
    <3>1. files[t] \in Version
      BY <2>3, TypeFacts DEF TypeOK, Version
    <3> QED BY <1>3, <2>1, <2>3, <3>1, PostType, WiresTypeOK
            DEF Resend, pages, shell, TypeOK
  <2> QED BY <2>2, <2>3
<1> QED BY <1>1, <1>2, <1>3

LEMMA BridgeTypeOK ==
  ASSUME TypeOK,
         \/ \E t \in Tab : Boot(t) \/ BootFails(t) \/ Register(t)
         \/ \E x \in transfers : RegisterFails(x) \/ PostToWorker(x)
                                 \/ TransferTimesOut(x)
  PROVE  TypeOK'
<1> DEFINE Rest == UNCHANGED <<shell, sent, worker, asked, pages, crossed, events>>
           Wired == /\ bridge' \in [Tab -> {"absent", "booting", "booted", "ready"}]
                    /\ transfers' \subseteq Transfer
                    /\ greeting' \subseteq Tab /\ failed' \in BOOLEAN
<1>1. Rest /\ Wired => TypeOK'
  BY WiresTypeOK DEF shell, pages, TypeOK
<1>2. ASSUME NEW t \in Tab, Boot(t) PROVE Wired
  <2>1. transfers' \subseteq Transfer
    <3>1. \A x \in transfers :
            [x EXCEPT !.at = IF @ = "boot" THEN "sent" ELSE @] \in Transfer
      BY Staged, TypeFacts
    <3>2. \A y \in transfers' : \E x \in transfers :
            y = x \/ y = [x EXCEPT !.at = IF @ = "boot" THEN "sent" ELSE @]
      BY <1>2 DEF Boot
    <3> QED BY <3>1, <3>2, TypeFacts
  <2> QED BY <1>2, <2>1, TypeFacts DEF Boot, marks, TypeOK
<1>3. ASSUME NEW t \in Tab, BootFails(t) PROVE Wired
  BY <1>3, GivenUpFacts DEF BootFails, TypeOK
<1>4. ASSUME NEW t \in Tab, Register(t) PROVE Wired
  BY <1>4, TypeFacts DEF Register, marks, TypeOK
<1>5. ASSUME NEW x \in transfers, RegisterFails(x) PROVE Wired
  BY <1>5, GivenUpFacts DEF RegisterFails, TypeOK
<1>6. ASSUME NEW x \in transfers, PostToWorker(x) PROVE Wired
  <2>1. [x EXCEPT !.at = "waiting", !.message = "posted"] \in Transfer
    BY Posted, TypeFacts
  <2> QED BY <1>6, <2>1, TypeFacts DEF PostToWorker, Becomes, marks, TypeOK
<1>7. ASSUME NEW x \in transfers, TransferTimesOut(x) PROVE Wired
  BY <1>7, GivenUpFacts DEF TransferTimesOut, TypeOK
<1>8. Rest
  BY DEF Boot, BootFails, Register, RegisterFails, PostToWorker,
         TransferTimesOut, marks
<1> QED BY <1>1, <1>2, <1>3, <1>4, <1>5, <1>6, <1>7, <1>8

\* Waiting requests have a promise, and it has a timer.
LEMMA WorkerTypeOK ==
  ASSUME TypeOK,
         \/ \E t \in Tab : SetShellOrigin(t)
         \/ \E f \in Fetch : handleRequest(f) \/ Browse(f)
         \/ \E x \in transfers : SetFiles(x)
         \/ AskClients \/ NobodyToAsk \/ HydrationTimer \/ Terminate
  PROVE  TypeOK'
<1>1. CASE \E t \in Tab : SetShellOrigin(t)
  <2>1. Waiting' = Waiting
    BY <1>1 DEF SetShellOrigin, Waiting, pages
  <2> QED BY <1>1, <2>1, TypeFacts, PagesTypeOK
          DEF SetShellOrigin, shell, pages, marks, TypeOK
<1>2. ASSUME NEW x \in transfers, SetFiles(x) PROVE TypeOK'
  <2>1. x \in Transfer /\ cache' = x.files /\ cache' \in 0 .. MaxVersion
        /\ origin' \in BOOLEAN
    BY <1>2, TypeFacts, TransferFields DEF SetFiles, Fill, Version
  <2>2. transfers' \subseteq Transfer
    <3>1. [x EXCEPT !.message = "acked"] \in Transfer
      BY <2>1, Acked
    <3> QED BY <1>2, <3>1, TypeFacts DEF SetFiles, Becomes
  <2>3. Answered(Waiting, cache') /\ hydrating' = FALSE
    BY <1>2 DEF SetFiles, FinishHydration
  <2>4. Waiting' = Waiting \ Waiting
    BY <2>1, <2>3, AnsweredType
  <2> QED BY <1>2, <2>1, <2>2, <2>3, <2>4, TypeFacts, AnsweredType, PagesTypeOK
          DEF SetFiles, marks, shell, TypeOK
<1>3. ASSUME NEW f \in Fetch, Answer(f) PROVE TypeOK'
  <2>1. Waiting' \subseteq Waiting
    BY <1>3, AnsweredType DEF Answer, TypeOK
  <2>2. Answered({f}, cache) /\ cache \in 0 .. MaxVersion
    BY <1>3 DEF Answer, TypeOK
  <2> QED BY <1>3, <2>1, <2>2, TypeFacts, AnsweredType, PagesTypeOK
          DEF Answer, wires, worker, marks, shell, TypeOK
<1>4. ASSUME NEW f \in Fetch, JoinHydration(f) PROVE TypeOK'
  BY <1>4, TypeFacts, PagesTypeOK DEF JoinHydration, wires, worker, marks, shell, TypeOK
<1>5. ASSUME NEW f \in Fetch, RequestHydration(f) PROVE TypeOK'
  <2>1. timers' \in 0 .. MaxTimers /\ timers' > 0
    BY <1>5, TypeFacts DEF RequestHydration, TypeOK
  <2> QED BY <1>5, <2>1, TypeFacts, PagesTypeOK
          DEF RequestHydration, wires, marks, shell, TypeOK
<1>6. ASSUME NEW f \in Fetch, Browse(f) PROVE TypeOK'
  <2>1. Waiting' = Waiting
    BY <1>6 DEF Browse, Waiting, TypeOK
  <2> QED BY <1>6, <2>1, TypeFacts, PagesTypeOK
          DEF Browse, wires, worker, marks, shell, TypeOK
<1>7. CASE AskClients
  <2>1. Waiting' = Waiting
    BY <1>7 DEF AskClients, Waiting, pages
  <2>2. asked' \subseteq Tab
    BY <1>7 DEF AskClients, TypeOK
  <2> QED BY <1>7, <2>1, <2>2, TypeFacts, PagesTypeOK
          DEF AskClients, wires, pages, marks, shell, TypeOK
<1>8. CASE NobodyToAsk
  <2>1. Answered(Waiting, cache) /\ hydrating' = FALSE /\ cache \in 0 .. MaxVersion
    BY <1>8 DEF NobodyToAsk, FinishHydration, TypeOK
  <2>2. Waiting' = {}
    BY <2>1, AnsweredType
  <2> QED BY <1>8, <2>1, <2>2, TypeFacts, AnsweredType, PagesTypeOK
          DEF NobodyToAsk, wires, marks, shell, TypeOK
<1>9. CASE HydrationTimer
  <2>1. Answered(Waiting, cache) /\ hydrating' = FALSE /\ cache \in 0 .. MaxVersion
    BY <1>9 DEF HydrationTimer, FinishHydration, TypeOK
  <2>2. Waiting' = {}
    BY <2>1, AnsweredType
  <2>3. timers' \in 0 .. MaxTimers /\ failed' \in BOOLEAN
    BY <1>9, TypeFacts DEF HydrationTimer, TypeOK
  <2> QED BY <1>9, <2>1, <2>2, <2>3, TypeFacts, AnsweredType, PagesTypeOK
          DEF HydrationTimer, wires, shell, TypeOK
<1>10. CASE Terminate
  <2>1. Waiting' = {}
    BY <1>10 DEF Terminate, Waiting, pages
  <2>2. events' \in 0 .. MaxEvents /\ 0 \in 0 .. MaxVersion /\ 0 \in 0 .. MaxTimers
    BY <1>10, TypeFacts DEF Terminate, TypeOK
  <2> QED BY <1>10, <2>1, <2>2, TypeFacts, PagesTypeOK
          DEF Terminate, wires, pages, shell, TypeOK
<1> QED BY <1>1, <1>2, <1>3, <1>4, <1>5, <1>6, <1>7, <1>8, <1>9, <1>10
        DEF handleRequest

LEMMA CloseTypeOK ==
  ASSUME TypeOK, NEW t \in Tab, Close(t)
  PROVE  TypeOK'
<1>1. transfers' \subseteq Transfer
  BY GivenUpFacts DEF Close
<1>2. /\ req' \in [Fetch -> {"idle", "going", "waiting"}]
      /\ Waiting' \subseteq Waiting
  BY DEF Close, TypeOK, Waiting
<1>3. /\ events' \in 0 .. MaxEvents /\ 0 \in 0 .. MaxVersion
      /\ crossed' \in BOOLEAN
  BY TypeFacts DEF Close, TypeOK
<1>4. /\ files' \in [Tab -> 0 .. MaxVersion]
      /\ resolving' \in [Tab -> SUBSET Version]
      /\ page' \in [Tab -> 0 .. MaxVersion]
      /\ bridge' \in [Tab -> {"absent", "booting", "booted", "ready"}]
      /\ asked' \subseteq Tab
  BY <1>3 DEF Close, TypeOK
<1> QED BY <1>1, <1>2, <1>3, <1>4 DEF Close, TypeOK, worker

LEMMA FilesReadyTypeOK ==
  ASSUME TypeOK, NEW x \in transfers, FilesReady(x)
  PROVE  TypeOK'
<1>1. transfers' \subseteq Transfer
  BY GivenUpFacts DEF FilesReady
<1>2. /\ req' \in [Fetch -> {"idle", "going", "waiting"}]
      /\ Waiting' \subseteq Waiting
  BY DEF FilesReady, TypeOK, Waiting
<1> QED BY <1>1, <1>2, TypeFacts, PagesTypeOK
        DEF FilesReady, shell, worker, marks, TypeOK

LEMMA NextTypeOK == TypeOK /\ [Next]_vars => TypeOK'
<1>1. ASSUME TypeOK, UNCHANGED vars PROVE TypeOK'
  BY <1>1 DEF TypeOK, vars, shell, wires, worker, pages, marks, Waiting
<1>2. ASSUME TypeOK, Next PROVE TypeOK'
  BY <1>2, ShellTypeOK, BridgeTypeOK, WorkerTypeOK, CloseTypeOK, FilesReadyTypeOK
     DEF Next
<1> QED BY <1>1, <1>2

\* The state is well typed, and a request that waits has a promise, and a timer
\* that ends it, whatever the tabs, the bridges and the browser do.
THEOREM TypeCorrect == Spec => []TypeOK
BY InitTypeOK, NextTypeOK, PTL DEF Spec

-----------------------------------------------------------------------------
(* The shell's origin.                                                     *)

\* A worker that has files knows its shell, however often it was ended.
THEOREM FilesKnowTheirShellHolds == Spec => []FilesKnowTheirShell
<1>1. Init => FilesKnowTheirShell
  BY DEF Init, FilesKnowTheirShell
<1>2. FilesKnowTheirShell /\ [Next]_vars => FilesKnowTheirShell'
  <2> SUFFICES ASSUME FilesKnowTheirShell, [Next]_vars PROVE FilesKnowTheirShell'
    OBVIOUS
  <2>1. CASE UNCHANGED <<cache, origin>>
    BY <2>1 DEF FilesKnowTheirShell
  <2>2. CASE \E t \in Tab : SetShellOrigin(t)
    BY <2>2 DEF SetShellOrigin, FilesKnowTheirShell
  <2>3. CASE \E x \in transfers : SetFiles(x)
    BY <2>3 DEF SetFiles, Fill, FilesKnowTheirShell
  <2>4. CASE Terminate
    BY <2>4 DEF Terminate, FilesKnowTheirShell
  <2> QED BY <2>1, <2>2, <2>3, <2>4
          DEF Next, vars, worker, Show, Send, Resend, Boot, BootFails, Register,
              Close, handleRequest, Answer, JoinHydration, RequestHydration,
              Browse, RegisterFails, PostToWorker, FilesReady, TransferTimesOut,
              AskClients, NobodyToAsk, HydrationTimer
<1> QED BY <1>1, <1>2, PTL DEF Spec

-----------------------------------------------------------------------------
(* What pages show.                                                        *)

\* Why quiet tabs show their files, unless a timer fired, and so on: numbers of
\* versions are one tab's, and only a tab that shows files sends some, ...
VersionsOwned ==
  /\ \A t \in Tab :
       /\ files[t] <= latest /\ \A v \in resolving[t] : v <= latest
       /\ resolving[t] # {} => files[t] # 0
  /\ \A s, t \in Tab : s # t =>
       /\ files[s] # 0 => files[s] # files[t]
       /\ resolving[s] \cap (resolving[t] \cup {files[t]}) = {}

\* ... transfers of a tab reach the worker in their order, ...
TransfersInOrder ==
  /\ \A x \in transfers :
       /\ x.n <= sent /\ files[x.tab] # 0 /\ x.at # "gone"
       /\ x.message = "none" <=> x.at \in {"boot", "sent"}
       /\ x.at = "boot" => bridge[x.tab] = "booting"
       /\ x.at = "waiting" => bridge[x.tab] = "ready"
  /\ \A x, y \in transfers :
       /\ x.n = y.n => x = y
       /\ Earlier(x, y) /\ y.message # "none" => x.message # "none"

\* ... and once a tab sent the files it shows, nobody else sends, and they come
\* to the worker, where they stay, and the frame goes to them, or they are on
\* their way.
Live(x) == x.message # "acked"
Sent(t) == files[t] # 0 /\ files[t] \notin resolving[t]
Brings(x, t) == x.tab = t /\ x.files = files[t] /\ x.navigate
OnTheirWay(t) == \E x \in transfers : Live(x) /\ Brings(x, t)
Arrive(t) ==
  /\ \A x \in transfers : Live(x) =>
       /\ x.tab = t
       /\ \/ x.files = files[t]
          \/ \E y \in transfers : Live(y) /\ Brings(y, t) /\ x.n < y.n
  /\ OnTheirWay(t) \/ (cache \in {0, files[t]} /\ bridge[t] = "ready")
  /\ \/ page[t] = files[t] \/ req[<<t, "document">>] # "idle"
     \/ \E x \in transfers : Brings(x, t)

QuietInv ==
  ~failed /\ ~crossed =>
    /\ VersionsOwned /\ TransfersInOrder
    /\ \A t \in Tab : Sent(t) => Arrive(t)

\* Nothing takes a failure or a crossing back.
LEMMA CalmBefore ==
  ASSUME TypeOK, Next, ~failed', ~crossed'
  PROVE  ~failed /\ ~crossed
<1>1. ASSUME NEW t \in Tab, NEW v, NEW nav, Post(t, v, nav)
      PROVE  ~failed /\ ~crossed
  BY <1>1 DEF Post
<1>2. CASE UNCHANGED <<failed, crossed>>
  BY <1>2
<1>3. ASSUME failed' = TRUE PROVE FALSE
  BY <1>3
<1>13. ASSUME failed' = (failed \/ hydrating), crossed' = crossed
       PROVE  ~failed /\ ~crossed
  BY <1>13
<1>4. ASSUME NEW t \in Tab, Close(t) PROVE ~failed /\ ~crossed
  BY <1>4 DEF Close
<1>5. ASSUME NEW t \in Tab, Show(t) \/ Boot(t) \/ Register(t) \/ SetShellOrigin(t)
      PROVE  UNCHANGED <<failed, crossed>>
  BY <1>5 DEF Show, Boot, Register, SetShellOrigin, marks
<1>6. ASSUME NEW t \in Tab, Send(t) \/ Resend(t) PROVE ~failed /\ ~crossed
  BY <1>1, <1>6 DEF Send, Resend, marks
<1>7. ASSUME NEW t \in Tab, BootFails(t) PROVE failed' = TRUE
  BY <1>7 DEF BootFails
<1>8. ASSUME NEW f \in Fetch, handleRequest(f) \/ Browse(f)
      PROVE  UNCHANGED <<failed, crossed>>
  BY <1>8 DEF handleRequest, Answer, JoinHydration, RequestHydration, Browse, marks
<1>9. ASSUME NEW x \in transfers, RegisterFails(x) \/ TransferTimesOut(x)
      PROVE  failed' = TRUE
  BY <1>9 DEF RegisterFails, TransferTimesOut
<1>10. ASSUME NEW x \in transfers, PostToWorker(x) \/ FilesReady(x) \/ SetFiles(x)
       PROVE  UNCHANGED <<failed, crossed>>
  BY <1>10 DEF PostToWorker, FilesReady, SetFiles, marks
<1>11. ASSUME AskClients \/ NobodyToAsk \/ Terminate
       PROVE  UNCHANGED <<failed, crossed>>
  BY <1>11 DEF AskClients, NobodyToAsk, Terminate, marks
<1>12. ASSUME HydrationTimer
       PROVE  failed' = (failed \/ hydrating) /\ crossed' = crossed
  BY <1>12 DEF HydrationTimer
<1> QED BY <1>2, <1>3, <1>4, <1>5, <1>6, <1>7, <1>8, <1>9, <1>10, <1>11, <1>12,
        <1>13 DEF Next

\* A step of which neither is told leaves transfers in order.
LEMMA FewerInOrder ==
  ASSUME TransfersInOrder, transfers' \subseteq transfers, sent' = sent,
         \A x \in transfers' :
           /\ files'[x.tab] # 0
           /\ bridge[x.tab] \in {"booting", "ready"} => bridge'[x.tab] = bridge[x.tab]
  PROVE  TransfersInOrder'
BY DEF TransfersInOrder, Earlier

\* A transfer that reaches the worker, or is acknowledged by it.
LEMMA BecomesInOrder ==
  ASSUME TypeOK, TransfersInOrder, NEW x \in transfers, NEW z, Becomes(x, z),
         Same(x, z), z.message # "none", z.at = "waiting", bridge[x.tab] = "ready",
         UNCHANGED <<files, bridge, sent>>,
         \A y \in transfers : Earlier(y, x) => y.message # "none"
  PROVE  TransfersInOrder'
<1>1. transfers' = (transfers \ {x}) \cup {z}
  BY DEF Becomes
<1>2. /\ z.n <= sent /\ files[z.tab] # 0 /\ bridge[z.tab] = "ready"
      /\ \A y \in transfers : y.n = z.n => y = x
  BY DEF Same, TransfersInOrder
<1>3. \A y \in transfers \ {x} :
        /\ y.n # z.n
        /\ Earlier(y, z) => y.message # "none"
  BY <1>2 DEF Same, Earlier
<1>4. \A y \in transfers' :
        /\ y.n <= sent /\ files[y.tab] # 0 /\ y.at # "gone"
        /\ y.message = "none" <=> y.at \in {"boot", "sent"}
        /\ y.at = "boot" => bridge[y.tab] = "booting"
        /\ y.at = "waiting" => bridge[y.tab] = "ready"
  BY <1>1, <1>2 DEF TransfersInOrder
<1>5. \A y, w \in transfers' :
        /\ y.n = w.n => y = w
        /\ Earlier(y, w) /\ w.message # "none" => y.message # "none"
  BY <1>1, <1>3 DEF TransfersInOrder
<1> QED BY <1>4, <1>5 DEF TransfersInOrder, Earlier

LEMMA PostInOrder ==
  ASSUME TypeOK, TransfersInOrder, NEW t \in Tab, NEW v \in Version,
         NEW nav \in BOOLEAN, Post(t, v, nav), files[t] # 0, files' = files
  PROVE  TransfersInOrder'
<1>1. PICK z \in Transfer :
        /\ transfers' = transfers \cup {z}
        /\ z.n = sent + 1 /\ z.tab = t /\ z.message = "none"
        /\ z.at = IF bridge[t] \in {"absent", "booting"} THEN "boot" ELSE "sent"
  BY PostFacts
<1>2. /\ sent' = sent + 1 /\ sent \in Nat
      /\ bridge' = [bridge EXCEPT ![t] = IF @ = "absent" THEN "booting" ELSE @]
  BY TypeFacts DEF Post
<1>3. \A y \in transfers : y.n \in Nat /\ y.n <= sent /\ y.tab \in Tab
  BY TypeFacts, TransferFields DEF TransfersInOrder
<1>4. \A y \in transfers : y.n < z.n /\ y.n <= sent'
  BY <1>1, <1>2, <1>3
<1>5. \A s \in Tab : bridge[s] \in {"booting", "ready"} => bridge'[s] = bridge[s]
  BY <1>2 DEF TypeOK
<1>6. /\ z.n <= sent' /\ z.at \in {"boot", "sent"}
      /\ z.at = "boot" => bridge'[t] = "booting"
  BY <1>1, <1>2 DEF TypeOK
<1>7. \A y \in transfers' :
        /\ y.n <= sent' /\ files[y.tab] # 0 /\ y.at # "gone"
        /\ y.message = "none" <=> y.at \in {"boot", "sent"}
        /\ y.at = "boot" => bridge'[y.tab] = "booting"
        /\ y.at = "waiting" => bridge'[y.tab] = "ready"
  BY <1>1, <1>3, <1>4, <1>5, <1>6 DEF TransfersInOrder
<1>8. \A y \in transfers : ~ Earlier(z, y) /\ y.n # z.n
  BY <1>1, <1>2, <1>3 DEF Earlier
<1>9. \A y, w \in transfers' :
        /\ y.n = w.n => y = w
        /\ Earlier(y, w) /\ w.message # "none" => y.message # "none"
  BY <1>1, <1>8 DEF TransfersInOrder
<1> QED BY <1>7, <1>9 DEF TransfersInOrder, Earlier

\* The bridge has booted: what waited for it is on its way.
LEMMA BootFacts ==
  ASSUME TypeOK, NEW t \in Tab, Boot(t)
  PROVE  /\ \A y \in transfers' : \E x \in transfers :
              /\ Same(x, y) /\ y.message = x.message
              /\ y.at = IF x.tab = t /\ x.at = "boot" THEN "sent" ELSE x.at
              /\ y = IF x.tab = t THEN [x EXCEPT !.at = IF @ = "boot" THEN "sent" ELSE @]
                     ELSE x
         /\ \A x \in transfers : \E y \in transfers' :
              Same(x, y) /\ y.message = x.message
<1> DEFINE M(x) == IF x.tab = t
                   THEN [x EXCEPT !.at = IF @ = "boot" THEN "sent" ELSE @] ELSE x
<1>1. transfers' = {M(x) : x \in transfers}
  BY DEF Boot
<1>2. ASSUME NEW x \in transfers
      PROVE  /\ Same(x, M(x)) /\ M(x).message = x.message
             /\ M(x).at = IF x.tab = t /\ x.at = "boot" THEN "sent" ELSE x.at
  <2>1. x \in Transfer
    BY TypeFacts
  <2>2. CASE x.tab = t
    BY <2>1, <2>2, Staged
  <2>3. CASE x.tab # t
    BY <2>3 DEF Same
  <2> QED BY <2>2, <2>3
<1> QED BY <1>1, <1>2

LEMMA BootInOrder ==
  ASSUME TypeOK, TransfersInOrder, NEW t \in Tab, Boot(t)
  PROVE  TransfersInOrder'
<1>1. /\ bridge[t] = "booting" /\ UNCHANGED <<files, sent>>
      /\ \A s \in Tab : s # t => bridge'[s] = bridge[s]
  BY DEF Boot, shell, TypeOK
<1>2. ASSUME NEW y \in transfers'
      PROVE  /\ y.n <= sent /\ files[y.tab] # 0 /\ y.at # "gone"
             /\ y.message = "none" <=> y.at \in {"boot", "sent"}
             /\ y.at = "boot" => bridge'[y.tab] = "booting"
             /\ y.at = "waiting" => bridge'[y.tab] = "ready"
  <2>1. PICK x \in transfers :
          /\ Same(x, y) /\ y.message = x.message
          /\ y.at = IF x.tab = t /\ x.at = "boot" THEN "sent" ELSE x.at
    BY BootFacts
  <2>2. x.tab \in Tab
    BY TypeFacts, TransferFields
  <2> QED BY <1>1, <2>1, <2>2 DEF Same, TransfersInOrder
<1>3. ASSUME NEW y \in transfers', NEW w \in transfers'
      PROVE  /\ y.n = w.n => y = w
             /\ Earlier(y, w) /\ w.message # "none" => y.message # "none"
  <2>1. PICK x \in transfers :
          /\ Same(x, y) /\ y.message = x.message
          /\ y = IF x.tab = t THEN [x EXCEPT !.at = IF @ = "boot" THEN "sent" ELSE @]
                 ELSE x
    BY BootFacts
  <2>2. PICK v \in transfers :
          /\ Same(v, w) /\ w.message = v.message
          /\ w = IF v.tab = t THEN [v EXCEPT !.at = IF @ = "boot" THEN "sent" ELSE @]
                 ELSE v
    BY BootFacts
  <2>3. x.n = v.n => x = v
    BY DEF TransfersInOrder
  <2>4. Earlier(x, v) /\ v.message # "none" => x.message # "none"
    BY DEF TransfersInOrder
  <2>5. /\ x.n = y.n /\ v.n = w.n /\ x.tab = y.tab /\ v.tab = w.tab
    BY <2>1, <2>2 DEF Same
  <2>6. y.n = w.n => y = w
    BY <2>1, <2>2, <2>3, <2>5
  <2> QED BY <2>1, <2>2, <2>4, <2>5, <2>6 DEF Earlier
<1> QED BY <1>1, <1>2, <1>3 DEF TransfersInOrder, Earlier

LEMMA NextInOrder ==
  ASSUME TypeOK, VersionsOwned, TransfersInOrder, Next, ~failed', ~crossed'
  PROVE  TransfersInOrder'
<1>0. /\ \A x \in transfers : x.tab \in Tab /\ files[x.tab] # 0
      /\ \A x \in transfers : x.at # "gone"
  BY TypeFacts, TransferFields DEF TransfersInOrder
<1>1. CASE UNCHANGED <<files, transfers, sent, bridge>>
  BY <1>0, <1>1, FewerInOrder
<1>2. ASSUME NEW t \in Tab, Show(t) PROVE TransfersInOrder'
  <2>1. \A s \in Tab : files[s] # 0 => files'[s] # 0
    BY <1>2, TypeFacts DEF Show, TypeOK
  <2> QED BY <1>0, <1>2, <2>1, FewerInOrder DEF Show, wires
<1>3. ASSUME NEW t \in Tab, Send(t) PROVE TransfersInOrder'
  <2>1. PICK v \in resolving[t] : Post(t, v, TRUE)
    BY <1>3 DEF Send
  <2>2. v \in Version /\ files[t] # 0
    BY <2>1 DEF VersionsOwned, TypeOK
  <2> QED BY <1>3, <2>1, <2>2, PostInOrder DEF Send
<1>4. ASSUME NEW t \in Tab, Resend(t), files[t] # 0 PROVE TransfersInOrder'
  <2>1. files[t] \in Version
    BY <1>4, TypeFacts DEF TypeOK, Version
  <2> QED BY <1>4, <2>1, PostInOrder DEF Resend, shell
<1>5. ASSUME NEW t \in Tab, Boot(t) PROVE TransfersInOrder'
  BY <1>5, BootInOrder
<1>6. ASSUME NEW t \in Tab, Register(t) PROVE TransfersInOrder'
  <2>1. \A s \in Tab : bridge[s] \in {"booting", "ready"} => bridge'[s] = bridge[s]
    BY <1>6 DEF Register, TypeOK
  <2> QED BY <1>0, <1>6, <2>1, FewerInOrder DEF Register, shell
<1>7. ASSUME NEW x \in transfers, PostToWorker(x) PROVE TransfersInOrder'
  <2>1. PICK z : z = [x EXCEPT !.at = "waiting", !.message = "posted"]
    OBVIOUS
  <2>2. Same(x, z) /\ z.at = "waiting" /\ z.message = "posted"
    BY <2>1, Posted, TypeFacts
  <2>3. bridge[x.tab] = "ready" /\ Becomes(x, z) /\ Foremost(x, "sent")
    BY <1>7, <2>1 DEF PostToWorker
  <2>4. ASSUME NEW y \in transfers, Earlier(y, x) PROVE y.message # "none"
    BY <2>3, <2>4 DEF Foremost, Earlier, TransfersInOrder
  <2> QED BY <1>7, <2>2, <2>3, <2>4, BecomesInOrder DEF PostToWorker, shell
<1>8. ASSUME NEW x \in transfers, FilesReady(x) PROVE TransfersInOrder'
  <2>1. transfers' \subseteq transfers
    BY <1>8, GivenUpFacts DEF FilesReady, Acknowledged
  <2> QED BY <1>0, <1>8, <2>1, FewerInOrder DEF FilesReady, shell
<1>9. ASSUME NEW x \in transfers, SetFiles(x) PROVE TransfersInOrder'
  <2>1. PICK z : z = [x EXCEPT !.message = "acked"]
    OBVIOUS
  <2>2. Same(x, z) /\ z.at = x.at /\ z.message = "acked"
    BY <2>1, Acked, TypeFacts
  <2>3. x.message = "posted" /\ Becomes(x, z)
    BY <1>0, <1>9, <2>1 DEF SetFiles
  <2>4. x.at = "waiting" /\ bridge[x.tab] = "ready"
    BY <1>0, <2>3, TypeFacts, TransferFields DEF TransfersInOrder
  <2>5. \A y \in transfers : Earlier(y, x) => y.message # "none"
    BY <2>3 DEF TransfersInOrder
  <2> QED BY <1>9, <2>2, <2>3, <2>4, <2>5, BecomesInOrder DEF SetFiles, shell
<1>10. ASSUME NEW t \in Tab, Close(t) PROVE TransfersInOrder'
  <2>1. \A x \in transfers : x.tab = t => x.message # "posted"
    BY <1>10 DEF Close
  <2>2. transfers' = transfers \ {x \in transfers : x.tab = t}
    BY <1>10, <2>1, GivenUpFacts DEF Close
  <2>3. \A s \in Tab \ {t} : files'[s] = files[s] /\ bridge'[s] = bridge[s]
    BY <1>10 DEF Close, TypeOK
  <2> QED BY <1>0, <1>10, <2>2, <2>3, FewerInOrder DEF Close
<1>11. ASSUME NEW t \in Tab,
              SetShellOrigin(t) \/ (Resend(t) /\ files[t] = 0)
       PROVE  UNCHANGED <<files, transfers, sent, bridge>>
  BY <1>11 DEF SetShellOrigin, Resend, shell, wires
<1>12. ASSUME NEW f \in Fetch, handleRequest(f) \/ Browse(f)
       PROVE  UNCHANGED <<files, transfers, sent, bridge>>
  BY <1>12 DEF handleRequest, Answer, JoinHydration, RequestHydration, Browse,
               shell, wires
<1>13. ASSUME AskClients \/ NobodyToAsk \/ HydrationTimer \/ Terminate
       PROVE  UNCHANGED <<files, transfers, sent, bridge>>
  BY <1>13 DEF AskClients, NobodyToAsk, HydrationTimer, Terminate, shell, wires
<1>14. ASSUME NEW t \in Tab, BootFails(t) PROVE FALSE
  BY <1>14 DEF BootFails
<1>15. ASSUME NEW x \in transfers, RegisterFails(x) \/ TransferTimesOut(x) PROVE FALSE
  BY <1>15 DEF RegisterFails, TransferTimesOut
<1> QED BY <1>1, <1>2, <1>3, <1>4, <1>5, <1>6, <1>7, <1>8, <1>9, <1>10, <1>11,
           <1>12, <1>13, <1>14, <1>15 DEF Next

\* Who changes what shells show.
LEMMA ShellStill ==
  ASSUME Next, \A s \in Tab : ~Show(s) /\ ~Send(s) /\ ~Close(s)
  PROVE  UNCHANGED shell
<1>1. ASSUME NEW t \in Tab, Resend(t) \/ Boot(t) \/ BootFails(t) \/ Register(t)
                           \/ SetShellOrigin(t)
      PROVE  UNCHANGED shell
  BY <1>1 DEF Resend, Boot, BootFails, Register, SetShellOrigin
<1>2. ASSUME NEW f \in Fetch, handleRequest(f) \/ Browse(f) PROVE UNCHANGED shell
  BY <1>2 DEF handleRequest, Answer, JoinHydration, RequestHydration, Browse
<1>3. ASSUME NEW x \in transfers,
             RegisterFails(x) \/ PostToWorker(x) \/ FilesReady(x)
             \/ TransferTimesOut(x) \/ SetFiles(x)
      PROVE  UNCHANGED shell
  BY <1>3 DEF RegisterFails, PostToWorker, FilesReady, TransferTimesOut, SetFiles
<1>4. ASSUME AskClients \/ NobodyToAsk \/ HydrationTimer \/ Terminate
      PROVE  UNCHANGED shell
  BY <1>4 DEF AskClients, NobodyToAsk, HydrationTimer, Terminate
<1> QED BY <1>1, <1>2, <1>3, <1>4 DEF Next

LEMMA NextOwned ==
  ASSUME TypeOK, VersionsOwned, Next
  PROVE  VersionsOwned'
<1>1. CASE UNCHANGED shell
  BY <1>1 DEF VersionsOwned, shell
<1>2. ASSUME NEW t \in Tab, Show(t) PROVE VersionsOwned'
  <2>1. /\ latest' = latest + 1 /\ latest \in Nat
        /\ files'[t] = latest' /\ resolving'[t] = resolving[t] \cup {latest'}
        /\ \A s \in Tab \ {t} : files'[s] = files[s] /\ resolving'[s] = resolving[s]
    BY <1>2, TypeFacts DEF Show, TypeOK
  <2>2. ASSUME NEW s \in Tab
        PROVE  /\ files[s] \in Nat /\ files[s] <= latest
               /\ \A v \in resolving[s] : v \in Nat /\ v <= latest
    <3>1. files[s] \in Nat /\ resolving[s] \subseteq Nat
      BY TypeFacts DEF TypeOK, Version
    <3>2. files[s] <= latest /\ \A v \in resolving[s] : v <= latest
      BY DEF VersionsOwned
    <3> QED BY <3>1, <3>2
  <2>3. \A s \in Tab : latest' # files[s] /\ latest' \notin resolving[s]
    BY <2>1, <2>2
  <2>4. ASSUME NEW s \in Tab
        PROVE  /\ files'[s] <= latest' /\ \A v \in resolving'[s] : v <= latest'
               /\ resolving'[s] # {} => files'[s] # 0
    <3>1. CASE s = t
      BY <2>1, <2>2, <3>1
    <3>2. CASE s # t
      BY <2>1, <2>2, <3>2 DEF VersionsOwned
    <3> QED BY <3>1, <3>2
  <2>5. ASSUME NEW s \in Tab, NEW r \in Tab, s # r
        PROVE  /\ files'[s] # 0 => files'[s] # files'[r]
               /\ resolving'[s] \cap (resolving'[r] \cup {files'[r]}) = {}
    <3>1. CASE s = t
      BY <2>1, <2>3, <2>5, <3>1 DEF VersionsOwned
    <3>2. CASE r = t
      BY <2>1, <2>3, <2>5, <3>2 DEF VersionsOwned
    <3>3. CASE s # t /\ r # t
      BY <2>1, <2>5, <3>3 DEF VersionsOwned
    <3> QED BY <3>1, <3>2, <3>3
  <2> QED BY <2>4, <2>5 DEF VersionsOwned
<1>3. ASSUME UNCHANGED <<latest, files>>, NEW t \in Tab, NEW v,
             resolving' = [resolving EXCEPT ![t] = @ \ {v}]
      PROVE  VersionsOwned'
  <2>1. \A s \in Tab : resolving'[s] \subseteq resolving[s]
    BY <1>3 DEF TypeOK
  <2> QED BY <1>3, <2>1 DEF VersionsOwned
<1>4. ASSUME NEW t \in Tab, Close(t) PROVE VersionsOwned'
  <2>1. /\ latest' = latest /\ latest \in Nat
        /\ files'[t] = 0 /\ resolving'[t] = {}
        /\ \A s \in Tab \ {t} : files'[s] = files[s] /\ resolving'[s] = resolving[s]
    BY <1>4, TypeFacts DEF Close, TypeOK
  <2>2. \A s \in Tab : 0 \notin resolving[s]
    BY DEF TypeOK, Version
  <2> QED BY <2>1, <2>2 DEF VersionsOwned
<1>5. ASSUME NEW t \in Tab, Send(t) PROVE VersionsOwned'
  BY <1>3, <1>5 DEF Send
<1> QED BY <1>1, <1>2, <1>4, <1>5, ShellStill

-----------------------------------------------------------------------------
(* Files that were sent arrive.                                            *)

\* Transfers move on, and the frame still goes to the tab's files.
LEMMA MovedArrive ==
  ASSUME NEW t \in Tab, Arrive(t), files'[t] = files[t], cache' = cache,
         bridge[t] = "ready" => bridge'[t] = "ready",
         \A y \in transfers' : Live(y) =>
           \E x \in transfers : Live(x) /\ Same(x, y),
         \A x \in transfers : Live(x) =>
           \E y \in transfers' : Live(y) /\ Same(x, y),
         \/ page'[t] = files[t] \/ req'[<<t, "document">>] # "idle"
         \/ \E y \in transfers' : Brings(y, t)
  PROVE  Arrive(t)'
<1>1. \A x, y : Same(x, y) /\ Brings(x, t) => Brings(y, t)
  BY DEF Same, Brings
<1>2. \A y : Brings(y, t)' <=> Brings(y, t)
  BY DEF Brings
<1>3. OnTheirWay(t) => OnTheirWay(t)'
  BY <1>1, <1>2 DEF OnTheirWay
<1>4. ASSUME NEW y \in transfers', Live(y)
      PROVE  /\ y.tab = t
             /\ \/ y.files = files[t]
                \/ \E w \in transfers' : Live(w) /\ Brings(w, t) /\ y.n < w.n
  <2>1. PICK x \in transfers : Live(x) /\ Same(x, y)
    BY <1>4
  <2>2. CASE x.files = files[t]
    BY <2>1, <2>2 DEF Arrive, Same
  <2>3. CASE x.files # files[t]
    <3>1. PICK v \in transfers : Live(v) /\ Brings(v, t) /\ x.n < v.n
      BY <2>1, <2>3 DEF Arrive
    <3>2. PICK w \in transfers' : Live(w) /\ Same(v, w)
      BY <3>1
    <3> QED BY <1>1, <2>1, <3>1, <3>2 DEF Arrive, Same
  <2> QED BY <2>2, <2>3
<1> QED BY <1>2, <1>3, <1>4 DEF Arrive

\* Requests go on, or are answered from the cache.
LEMMA StillArrive ==
  ASSUME NEW t \in Tab, Arrive(t), files'[t] = files[t], transfers' = transfers,
         cache' \in {0, cache}, bridge[t] = "ready" => bridge'[t] = "ready",
         page'[t] = page[t],
         req[<<t, "document">>] # "idle" => req'[<<t, "document">>] # "idle"
  PROVE  Arrive(t)'
<1>1. \A y : Brings(y, t)' <=> Brings(y, t)
  BY DEF Brings
<1>2. OnTheirWay(t)' <=> OnTheirWay(t)
  BY <1>1 DEF OnTheirWay
<1> QED BY <1>1, <1>2 DEF Arrive

LEMMA AnsweredArrive ==
  ASSUME TypeOK, NEW t \in Tab, Arrive(t), NEW F, Answered(F, cache),
         UNCHANGED <<files, transfers, cache, bridge>>,
         <<t, "document">> \in F /\ ~OnTheirWay(t) => cache = files[t]
  PROVE  Arrive(t)'
<1>1. <<t, "document">> \in Fetch
  BY DEF Fetch
<1>2. CASE <<t, "document">> \notin F
  <2>1. page'[t] = page[t] /\ req'[<<t, "document">>] = req[<<t, "document">>]
    BY <1>1, <1>2 DEF Answered
  <2> QED BY <2>1, StillArrive
<1>3. CASE <<t, "document">> \in F
  <2>1. page'[t] = cache
    BY <1>3 DEF Answered
  <2>2. \A y : Brings(y, t)' <=> Brings(y, t)
    BY DEF Brings
  <2>3. OnTheirWay(t)' <=> OnTheirWay(t)
    BY <2>2 DEF OnTheirWay
  <2>4. \/ page'[t] = files'[t]
        \/ \E x \in transfers' : Brings(x, t)'
    BY <1>3, <2>1, <2>2 DEF OnTheirWay
  <2> QED BY <2>2, <2>3, <2>4 DEF Arrive
<1> QED BY <1>2, <1>3

\* What a shell sends when no other shell shows files.
LEMMA PostArrive ==
  ASSUME TypeOK, VersionsOwned, TransfersInOrder, NEW t0 \in Tab, NEW v \in Version,
         NEW nav \in BOOLEAN, Post(t0, v, nav), ~crossed', files[t0] # 0,
         UNCHANGED <<files, cache, page, req>>,
         NEW t \in Tab, files[t] # 0, nav \/ Arrive(t)
  PROVE  Arrive(t)'
<1>1. PICK z \in Transfer :
        /\ transfers' = transfers \cup {z}
        /\ z.n = sent + 1 /\ z.tab = t0 /\ z.files = v /\ z.navigate = nav
        /\ z.message = "none"
  BY PostFacts
<1>2. \A s \in Tab : files[s] \in {0, v}
  BY DEF Post
<1>3. t = t0 /\ files[t] = v
  BY <1>2 DEF VersionsOwned
<1>4. \A x \in transfers : x.tab = t /\ x.n < z.n
  <2>1. ASSUME NEW x \in transfers PROVE x.tab = t
    <3>1. x.tab \in Tab /\ files[x.tab] # 0
      BY TypeFacts, TransferFields DEF TransfersInOrder
    <3> QED BY <1>2, <1>3, <3>1 DEF VersionsOwned
  <2>2. ASSUME NEW x \in transfers PROVE x.n < z.n
    <3>1. x.n \in Nat /\ x.n <= sent /\ sent \in Nat
      BY TypeFacts, TransferFields DEF TransfersInOrder
    <3> QED BY <1>1, <3>1
  <2> QED BY <2>1, <2>2
<1>5. Live(z) /\ z \in transfers' /\ z.tab = t /\ z.files = files[t]
  BY <1>1, <1>3 DEF Live
<1>6. \A y : Brings(y, t)' <=> Brings(y, t)
  BY DEF Brings
<1>7. CASE nav
  <2>1. Brings(z, t)
    BY <1>1, <1>5, <1>7 DEF Brings
  <2> QED BY <1>1, <1>4, <1>5, <1>6, <2>1 DEF Arrive, OnTheirWay
<1>8. CASE ~nav /\ Arrive(t)
  <2>1. bridge[t] = "ready" => bridge'[t] = "ready"
    BY DEF Post, TypeOK
  <2>2. OnTheirWay(t) => OnTheirWay(t)'
    BY <1>1, <1>6 DEF OnTheirWay
  <2>3. ASSUME NEW x \in transfers', Live(x)
        PROVE  /\ x.tab = t
               /\ \/ x.files = files[t]
                  \/ \E y \in transfers' : Live(y) /\ Brings(y, t) /\ x.n < y.n
    BY <1>1, <1>5, <1>8, <2>3 DEF Arrive
  <2>4. OnTheirWay(t)' \/ (cache' \in {0, files'[t]} /\ bridge'[t] = "ready")
    BY <1>8, <2>1, <2>2 DEF Arrive
  <2>5. \/ page'[t] = files'[t] \/ req'[<<t, "document">>] # "idle"
        \/ \E x \in transfers' : Brings(x, t)
    BY <1>1, <1>8 DEF Arrive
  <2> QED BY <1>6, <2>3, <2>4, <2>5 DEF Arrive
<1> QED BY <1>7, <1>8

\* The worker takes files: those of the tab, or ones that the tab's follow.
LEMMA SetFilesArrive ==
  ASSUME TypeOK, TransfersInOrder, NEW x \in transfers, SetFiles(x),
         NEW t \in Tab, Arrive(t)
  PROVE  Arrive(t)'
<1>1. x \in Transfer /\ x.message = "posted" /\ x.at = "waiting" /\ Live(x)
  BY TypeFacts, TransferFields DEF SetFiles, TransfersInOrder, Live
<1>2. x.tab = t /\ bridge[t] = "ready"
  BY <1>1 DEF Arrive, TransfersInOrder
<1>3. PICK z : z = [x EXCEPT !.message = "acked"]
  OBVIOUS
<1>4. /\ Same(x, z) /\ ~Live(z)
      /\ transfers' = (transfers \ {x}) \cup {z}
  BY <1>1, <1>3, Acked DEF SetFiles, Becomes, Live
<1>5. /\ cache' = x.files /\ Answered(Waiting, cache')
      /\ UNCHANGED <<files, bridge>>
  BY DEF SetFiles, Fill, FinishHydration, shell
<1>6. \A y : Brings(y, t)' <=> Brings(y, t)
  BY <1>5 DEF Brings
<1>7. ASSUME NEW y \in transfers, Live(y), y # x PROVE ~(y.n < x.n)
  <2>1. y.tab = x.tab
    BY <1>2, <1>7 DEF Arrive
  <2>2. Earlier(y, x) => y.message = "posted"
    <3>1. y.message \in {"none", "posted", "acked"}
      BY TypeFacts, TransferFields
    <3>2. Earlier(y, x) => y.message # "none"
      BY <1>1 DEF TransfersInOrder
    <3> QED BY <1>7, <3>1, <3>2 DEF Live
  <2>3. Earlier(y, x) => y.message # "posted"
    BY DEF SetFiles
  <2> QED BY <2>1, <2>2, <2>3 DEF Earlier
<1>8. ASSUME NEW y \in transfers', Live(y)
      PROVE  /\ y.tab = t
             /\ \/ y.files = files[t]
                \/ \E w \in transfers' : Live(w) /\ Brings(w, t) /\ y.n < w.n
  <2>1. y \in transfers /\ y # x /\ y.tab = t
    BY <1>4, <1>8 DEF Arrive
  <2>2. CASE y.files # files[t]
    <3>1. PICK w \in transfers : Live(w) /\ Brings(w, t) /\ y.n < w.n
      BY <1>8, <2>1, <2>2 DEF Arrive
    <3>2. w # x
      BY <1>7, <1>8, <2>1, <3>1
    <3> QED BY <1>4, <2>1, <3>1, <3>2
  <2> QED BY <2>1, <2>2
<1>9. CASE x.files = files[t]
  <2>1. cache' = files'[t] /\ bridge'[t] = "ready"
    BY <1>2, <1>5, <1>9
  <2>2. <<t, "document">> \in Fetch
    BY DEF Fetch
  <2>3. /\ page'[t] = files[t] \/ page'[t] = page[t]
        /\ \/ page'[t] = files[t]
           \/ req'[<<t, "document">>] = req[<<t, "document">>]
    BY <1>5, <1>9, <2>2 DEF Answered
  <2>4. Brings(x, t) => Brings(z, t)
    BY <1>4 DEF Same, Brings
  <2>5. \/ page'[t] = files[t] \/ req'[<<t, "document">>] # "idle"
        \/ \E w \in transfers' : Brings(w, t)
    <3>1. CASE page[t] = files[t]
      BY <2>3, <3>1
    <3>2. CASE req[<<t, "document">>] # "idle"
      BY <2>3, <3>2
    <3>3. CASE \E w \in transfers : Brings(w, t)
      BY <1>4, <2>4, <3>3
    <3> QED BY <3>1, <3>2, <3>3 DEF Arrive
  <2> QED BY <1>5, <1>6, <1>8, <2>1, <2>5 DEF Arrive
<1>10. CASE x.files # files[t]
  <2>1. PICK w \in transfers : Live(w) /\ Brings(w, t)
    BY <1>1, <1>10 DEF Arrive
  <2>2. w \in transfers'
    BY <1>4, <1>10, <2>1 DEF Brings
  <2> QED BY <1>5, <1>6, <1>8, <2>1, <2>2 DEF Arrive, OnTheirWay
<1> QED BY <1>9, <1>10

LEMMA NextArrive ==
  ASSUME TypeOK, VersionsOwned, TransfersInOrder, Next, ~failed', ~crossed',
         NEW t \in Tab, Sent(t) => Arrive(t), Sent(t)'
  PROVE  Arrive(t)'
<1>1. CASE \A s \in Tab : ~Show(s) /\ ~Send(s) /\ ~Close(s)
  <2>1. Sent(t) /\ Arrive(t) /\ UNCHANGED files
    BY <1>1, ShellStill DEF Sent, shell
  <2> DEFINE doc == <<t, "document">>
  <2>2. doc \in Fetch
    BY DEF Fetch
  <2>3. ASSUME UNCHANGED <<transfers, page>>, cache' \in {0, cache},
               bridge[t] = "ready" => bridge'[t] = "ready",
               req[doc] # "idle" => req'[doc] # "idle"
        PROVE  Arrive(t)'
    BY <2>1, <2>3, StillArrive
  <2>4. ASSUME NEW s \in Tab, Resend(s) PROVE Arrive(t)'
    <3>1. CASE files[s] = 0
      BY <2>3, <2>4, <3>1 DEF Resend, wires, worker, pages
    <3>2. CASE files[s] # 0
      <4>1. files[s] \in Version
        BY <3>2, TypeFacts DEF TypeOK, Version
      <4>2. Post(s, files[s], FALSE) /\ UNCHANGED <<cache, page, req>>
        BY <2>4, <3>2 DEF Resend, worker, pages
      <4> QED BY <2>1, <3>2, <4>1, <4>2, PostArrive DEF Sent
    <3> QED BY <3>1, <3>2
  <2>5. ASSUME NEW s \in Tab, Boot(s) PROVE Arrive(t)'
    <3>1. /\ \A y \in transfers' : Live(y) => \E x \in transfers : Live(x) /\ Same(x, y)
          /\ \A x \in transfers : Live(x) => \E y \in transfers' : Live(y) /\ Same(x, y)
      BY <2>5, BootFacts DEF Live
    <3>2. /\ cache' = cache /\ page' = page /\ req' = req
          /\ bridge[t] = "ready" => bridge'[t] = "ready"
      BY <2>5 DEF Boot, worker, pages, TypeOK
    <3>3. (\E x \in transfers : Brings(x, t)) => \E y \in transfers' : Brings(y, t)
      BY <2>5, BootFacts DEF Same, Brings
    <3> QED BY <2>1, <3>1, <3>2, <3>3, MovedArrive DEF Arrive
  <2>6. ASSUME NEW s \in Tab, Register(s) PROVE Arrive(t)'
    BY <2>3, <2>6 DEF Register, worker, pages, TypeOK
  <2>7. ASSUME NEW s \in Tab, SetShellOrigin(s) PROVE Arrive(t)'
    BY <2>3, <2>7 DEF SetShellOrigin, pages
  <2>8. ASSUME NEW x \in transfers, PostToWorker(x) PROVE Arrive(t)'
    <3>1. PICK z : z = [x EXCEPT !.at = "waiting", !.message = "posted"]
      OBVIOUS
    <3>2. Same(x, z) /\ Live(z)
      BY <3>1, Posted, TypeFacts DEF Live
    <3>3. /\ transfers' = (transfers \ {x}) \cup {z} /\ x.at = "sent"
          /\ UNCHANGED <<cache, page, req, bridge>>
      BY <2>8, <3>1 DEF PostToWorker, Becomes, Foremost, worker, pages
    <3>4. Live(x)
      <4>1. x.message = "none"
        BY <3>3 DEF TransfersInOrder
      <4> QED BY <4>1 DEF Live
    <3>5. \A y : Same(y, y)
      BY DEF Same
    <3>6. Brings(x, t) => Brings(z, t)
      BY <3>2 DEF Same, Brings
    <3>7. \A y \in transfers' : Live(y) => \E w \in transfers : Live(w) /\ Same(w, y)
      BY <3>2, <3>3, <3>4, <3>5
    <3>8. \A w \in transfers : Live(w) => \E y \in transfers' : Live(y) /\ Same(w, y)
      BY <3>2, <3>3, <3>5
    <3>9. \/ page'[t] = files[t] \/ req'[doc] # "idle"
          \/ \E y \in transfers' : Brings(y, t)
      BY <2>1, <3>3, <3>6 DEF Arrive
    <3> QED BY <2>1, <3>3, <3>7, <3>8, <3>9, MovedArrive
  <2>9. ASSUME NEW x \in transfers, FilesReady(x) PROVE Arrive(t)'
    <3>1. /\ transfers' = transfers \ {x} /\ ~Live(x)
          /\ UNCHANGED <<cache, page, bridge>>
      BY <2>9, GivenUpFacts DEF FilesReady, Acknowledged, Live, worker
    <3>2. \A y : Same(y, y)
      BY DEF Same
    <3>3. /\ \A y \in transfers' : Live(y) => \E w \in transfers : Live(w) /\ Same(w, y)
          /\ \A w \in transfers : Live(w) => \E y \in transfers' : Live(y) /\ Same(w, y)
      BY <3>1, <3>2
    <3>4. /\ Brings(x, t) => req'[doc] # "idle"
          /\ req[doc] # "idle" => req'[doc] # "idle"
      BY <2>2, <2>9 DEF FilesReady, Brings, TypeOK
    <3>5. \/ page'[t] = files[t] \/ req'[doc] # "idle"
          \/ \E y \in transfers' : Brings(y, t)
      BY <2>1, <3>1, <3>4 DEF Arrive
    <3> QED BY <2>1, <3>1, <3>3, <3>5, MovedArrive
  <2>10. ASSUME NEW x \in transfers, SetFiles(x) PROVE Arrive(t)'
    BY <2>1, <2>10, SetFilesArrive
  <2>11. ASSUME NEW f \in Fetch, Answer(f) PROVE Arrive(t)'
    <3>1. ~OnTheirWay(t) => cache = files[t]
      BY <2>1, <2>11 DEF Answer, Arrive
    <3> QED BY <2>1, <2>11, <3>1, AnsweredArrive DEF Answer, wires, worker
  <2>12. ASSUME NEW f \in Fetch, JoinHydration(f) \/ RequestHydration(f) \/ Browse(f)
         PROVE  Arrive(t)'
    <3>1. req[doc] # "idle" => req'[doc] # "idle"
      BY <2>2, <2>12 DEF JoinHydration, RequestHydration, Browse, TypeOK
    <3> QED BY <2>3, <2>12, <3>1
            DEF JoinHydration, RequestHydration, Browse, wires, worker
  <2>13. CASE AskClients
    BY <2>3, <2>13 DEF AskClients, wires, pages
  <2>14. CASE NobodyToAsk
    <3>1. OnTheirWay(t)
      BY <2>1, <2>14 DEF NobodyToAsk, Arrive
    <3> QED BY <2>1, <2>14, <3>1, AnsweredArrive DEF NobodyToAsk, FinishHydration, wires
  <2>15. CASE HydrationTimer
    <3>1. Waiting = {}
      BY <2>15 DEF HydrationTimer, TypeOK
    <3> QED BY <2>1, <2>15, <3>1, AnsweredArrive
            DEF HydrationTimer, FinishHydration, wires
  <2>16. CASE Terminate
    BY <2>3, <2>16 DEF Terminate, wires, pages
  <2>17. ASSUME NEW s \in Tab, BootFails(s) PROVE FALSE
    BY <2>17 DEF BootFails
  <2>18. ASSUME NEW x \in transfers, RegisterFails(x) \/ TransferTimesOut(x) PROVE FALSE
    BY <2>18 DEF RegisterFails, TransferTimesOut
  <2> QED BY <1>1, <2>4, <2>5, <2>6, <2>7, <2>8, <2>9, <2>10, <2>11, <2>12, <2>13,
             <2>14, <2>15, <2>16, <2>17, <2>18 DEF Next, handleRequest
<1>2. ASSUME NEW s \in Tab, Show(s) PROVE Arrive(t)'
  <2>1. latest' \in resolving'[s] /\ files'[s] = latest'
    BY <1>2 DEF Show, TypeOK
  <2>2. s # t
    BY <2>1 DEF Sent
  <2>3. files'[t] = files[t] /\ resolving'[t] = resolving[t]
    BY <1>2, <2>2 DEF Show, TypeOK
  <2>4. Arrive(t)
    BY <2>3 DEF Sent
  <2> QED BY <1>2, <2>3, <2>4, StillArrive DEF Show, wires, worker, pages
<1>3. ASSUME NEW s \in Tab, Send(s) PROVE Arrive(t)'
  <2>1. PICK v \in resolving[s] : Post(s, v, TRUE)
    BY <1>3 DEF Send
  <2>2. v \in Version /\ files[s] # 0
    BY <2>1 DEF VersionsOwned, TypeOK
  <2>3. files[t] # 0 /\ UNCHANGED <<files, cache, page, req>>
    BY <1>3 DEF Send, Sent, worker, pages
  <2> QED BY <2>1, <2>2, <2>3, PostArrive
<1>4. ASSUME NEW s \in Tab, Close(s) PROVE Arrive(t)'
  <2>1. /\ UNCHANGED worker
        /\ files' = [files EXCEPT ![s] = 0]
        /\ resolving' = [resolving EXCEPT ![s] = {}]
        /\ bridge' = [bridge EXCEPT ![s] = "absent"]
        /\ page' = [page EXCEPT ![s] = 0]
        /\ req' = [f \in Fetch |-> IF f[1] = s THEN "idle" ELSE req[f]]
    BY <1>4 DEF Close
  <2>2. s # t
    BY <2>1 DEF Sent, TypeOK
  <2>3. /\ files'[t] = files[t] /\ resolving'[t] = resolving[t]
        /\ bridge'[t] = bridge[t] /\ page'[t] = page[t]
    BY <2>1, <2>2 DEF TypeOK
  <2>4. req'[<<t, "document">>] = req[<<t, "document">>]
    BY <2>1, <2>2 DEF Fetch
  <2>5. Arrive(t)
    BY <2>3 DEF Sent
  <2>6. transfers' = transfers \ {x \in transfers : x.tab = s}
    <3>1. \A x \in transfers : x.tab = s => x.message # "posted"
      BY <1>4 DEF Close
    <3> QED BY <1>4, <3>1, GivenUpFacts DEF Close
  <2>7. \A x \in transfers : Live(x) => x \in transfers'
    BY <2>2, <2>5, <2>6 DEF Arrive
  <2>8. \A x \in transfers : Brings(x, t) => x \in transfers'
    BY <2>2, <2>6 DEF Brings
  <2>9. \A y : Same(y, y)
    BY DEF Same
  <2>10. /\ \A y \in transfers' : Live(y) => \E w \in transfers : Live(w) /\ Same(w, y)
         /\ \A w \in transfers : Live(w) => \E y \in transfers' : Live(y) /\ Same(w, y)
    BY <2>6, <2>7, <2>9
  <2>11. \/ page'[t] = files[t] \/ req'[<<t, "document">>] # "idle"
         \/ \E y \in transfers' : Brings(y, t)
    BY <2>3, <2>4, <2>5, <2>8 DEF Arrive
  <2> QED BY <2>1, <2>3, <2>5, <2>10, <2>11, MovedArrive DEF worker
<1> QED BY <1>1, <1>2, <1>3, <1>4

LEMMA NextQuietInv == TypeOK /\ QuietInv /\ [Next]_vars => QuietInv'
<1> SUFFICES ASSUME TypeOK, QuietInv, [Next]_vars, ~failed', ~crossed'
             PROVE  VersionsOwned' /\ TransfersInOrder' /\ \A t \in Tab : Sent(t)' => Arrive(t)'
  BY DEF QuietInv
<1>1. CASE UNCHANGED vars
  <2>1. ~failed /\ ~crossed
    BY <1>1 DEF vars, marks
  <2>2. VersionsOwned /\ TransfersInOrder /\ \A t \in Tab : Sent(t) => Arrive(t)
    BY <2>1 DEF QuietInv
  <2>3. VersionsOwned' /\ TransfersInOrder'
    BY <1>1, <2>2 DEF vars, shell, wires, VersionsOwned, TransfersInOrder, Earlier
  <2>4. ASSUME NEW t \in Tab, Sent(t)' PROVE Arrive(t)'
    <3>1. Sent(t)
      BY <1>1, <2>4 DEF vars, shell, Sent
    <3> QED BY <1>1, <2>2, <3>1, StillArrive DEF vars, shell, wires, worker, pages
  <2> QED BY <2>3, <2>4
<1>2. CASE Next
  <2>1. ~failed /\ ~crossed
    BY <1>2, CalmBefore
  <2>2. VersionsOwned /\ TransfersInOrder /\ \A t \in Tab : Sent(t) => Arrive(t)
    BY <2>1 DEF QuietInv
  <2> QED BY <1>2, <2>2, NextOwned, NextInOrder, NextArrive
<1> QED BY <1>1, <1>2

\* When nothing is under way, each tab shows what its shell shows, for any
\* number of tabs that share the worker and however often it is ended; unless
\* a timer fired, a transfer failed, or loads crossed.
THEOREM QuietTabsShowTheirFilesHolds == Spec => []QuietTabsShowTheirFiles
<1>1. Init => QuietInv
  BY DEF Init, QuietInv, VersionsOwned, TransfersInOrder, Sent
<1>2. QuietInv => QuietTabsShowTheirFiles
  <2> SUFFICES ASSUME QuietInv, Quiet, ~failed, ~crossed, NEW t \in Tab, files[t] # 0
               PROVE  page[t] = files[t] /\ cache \in {0, files[t]}
    BY DEF QuietTabsShowTheirFiles
  <2>1. transfers = {} /\ resolving[t] = {} /\ req[<<t, "document">>] = "idle"
    BY DEF Quiet, Fetch
  <2>2. Arrive(t)
    BY <2>1 DEF QuietInv, Sent
  <2> QED BY <2>1, <2>2 DEF Arrive, OnTheirWay
<1> QED BY <1>1, <1>2, TypeCorrect, NextQuietInv, PTL DEF Spec

=============================================================================
