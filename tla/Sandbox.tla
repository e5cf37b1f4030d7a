------------------------------ MODULE Sandbox ------------------------------
(***************************************************************************)
(* How decrypted files reach the page that runs a project: the shell, the  *)
(* bridge page in its sandbox frame, the service worker that answers the   *)
(* page's requests from a cache in memory, and the content frame.          *)
(*                                                                         *)
(* The three talk by messages.  A set of files travels from the shell to   *)
(* the bridge of its tab, from there to the worker, and only its           *)
(* acknowledgement points the content frame at a page.  The browser ends   *)
(* the worker whenever it is idle, and with it the cache and all it knew;  *)
(* the first request afterwards asks every bridge for the files again.     *)
(* All tabs that show a project share one worker.                          *)
(*                                                                         *)
(* A version stands for a set of files with its viewer; content, names and *)
(* kinds of files are left out.  *)
(* The answers READY and ERROR only settle what the shell tells its user   *)
(* and are left out.                                                       *)
(***************************************************************************)
EXTENDS Naturals

CONSTANTS
  Tab,           \* browser tabs that may show the project
  MaxVersion,    \* bound: sets of files that shells load or save
  MaxTransfers,  \* bound: times that a shell sends its files
  MaxEvents,     \* bound: terminations of the worker, and tabs closed
  MaxTimers      \* bound: re-hydration timers that run at a time

ASSUME BoundsType ==
  MaxVersion \in Nat /\ MaxTransfers \in Nat /\ MaxEvents \in Nat
  /\ MaxTimers \in Nat \ {0}

VARIABLES
  files,     \* files[t]: currentFiles of tab t's shell; 0 is null
  latest,    \* versions numbered so far
  resolving, \* resolving[t]: loads that look up their entry point
  bridge,    \* bridge[t]: "absent", "booting", "booted", "ready" (its worker is)
  transfers, \* files on their way from shells to the worker
  sent,      \* transfers so far
  greeting,  \* bridges whose SET_SHELL_ORIGIN is on its way
  cache,     \* fileCache of the worker; 0 is empty
  origin,    \* the worker knows its shell's origin
  hydrating, \* hydratePromise is pending
  matching,  \* clients.matchAll() has not answered yet
  timers,    \* setTimeout(finishHydration, 5000) that have not fired
  asked,     \* tabs that a REQUEST_FILES is on its way to
  req,       \* req[f]: the request that frame and kind f has under way
  page,      \* page[t]: the version its document came from; 0 is Not Found
  failed,    \* history: a timer fired, or a transfer failed
  crossed,   \* history: files were sent that not every shell shows, or a
             \* tab closed with files on their way
  events     \* terminations and closed tabs so far

shell  == <<files, latest, resolving>>
wires  == <<bridge, transfers, sent, greeting>>
worker == <<cache, origin, hydrating, matching, timers>>
pages  == <<req, page>>
marks  == <<failed, crossed, events>>
vars   == <<shell, wires, worker, asked, pages, marks>>

Version == 1 .. MaxVersion

\* The content frame of a tab asks for a document, and its document for other
\* files, one at a time.
Fetch == Tab \X {"document", "asset"}

\* A transfer waits for the bridge to boot ("boot"), is on its way to it or
\* waits there for the worker ("sent"), and then for the answer of the worker
\* ("waiting"); "posted" and "acked" are the worker's message and its answer.
\* A bridge that gave up ("gone") leaves the message under way.
Transfer ==
  [n : 1 .. MaxTransfers, tab : Tab, files : Version, navigate : BOOLEAN,
   at : {"boot", "sent", "waiting", "gone"}, message : {"none", "posted", "acked"}]

Init ==
  /\ files = [t \in Tab |-> 0] /\ latest = 0 /\ resolving = [t \in Tab |-> {}]
  /\ bridge = [t \in Tab |-> "absent"]
  /\ transfers = {} /\ sent = 0 /\ greeting = {}
  /\ cache = 0 /\ origin = FALSE /\ hydrating = FALSE /\ matching = FALSE /\ timers = 0
  /\ asked = {}
  /\ req = [f \in Fetch |-> "idle"] /\ page = [t \in Tab |-> 0]
  /\ failed = FALSE /\ crossed = FALSE /\ events = 0
----------------------------------------------------------------------------
(* The shell.                                                              *)

\* A load, or a viewer's save, numbers the files it shows.  Without an
\* index.html or a viewer, the entry point is looked up before they are sent.
Show(t) ==
  /\ latest < MaxVersion
  /\ latest' = latest + 1
  /\ files' = [files EXCEPT ![t] = latest']
  /\ resolving' = [resolving EXCEPT ![t] = @ \cup {latest'}]
  /\ UNCHANGED <<wires, worker, asked, pages, marks>>

\* postFilesToSW: files wait for the bridge, which the first of them starts.
Post(t, v, nav) ==
  /\ sent < MaxTransfers
  /\ sent' = sent + 1
  /\ transfers' = transfers \cup
       {[n |-> sent', tab |-> t, files |-> v, navigate |-> nav, message |-> "none",
         at |-> IF bridge[t] \in {"absent", "booting"} THEN "boot" ELSE "sent"]}
  /\ bridge' = [bridge EXCEPT ![t] = IF @ = "absent" THEN "booting" ELSE @]
  /\ crossed' = (crossed \/ \E s \in Tab : files[s] \notin {0, v})
  /\ UNCHANGED <<greeting, failed, events>>

Send(t) ==
  \E v \in resolving[t] :
    /\ Post(t, v, TRUE)
    /\ resolving' = [resolving EXCEPT ![t] = @ \ {v}]
    /\ UNCHANGED <<files, latest, worker, asked, pages>>

\* The shell answers LWID_SANDBOX_REQUEST_FILES with the files it shows.
Resend(t) ==
  /\ t \in asked
  /\ asked' = asked \ {t}
  /\ IF files[t] = 0 THEN UNCHANGED <<wires, marks>> ELSE Post(t, files[t], FALSE)
  /\ UNCHANGED <<shell, worker, pages>>
----------------------------------------------------------------------------
(* The bridge.                                                             *)

\* Messages between two windows, and the continuations of one promise, keep
\* their order.
Earlier(y, x) == y.tab = x.tab /\ y.n < x.n

Foremost(x, stage) ==
  x.at = stage /\ \A y \in transfers : Earlier(y, x) => y.at # stage

Becomes(x, y) == transfers' = (transfers \ {x}) \cup {y}

\* The bridge has no more to do with transfers X, their messages still go.
GivenUp(X) ==
  transfers' = (transfers \ X) \cup {[x EXCEPT !.at = "gone"] : x \in {y \in X : y.message = "posted"}}

\* LWID_SANDBOX_HELLO arrives, or ten seconds pass without it.
Boot(t) ==
  /\ bridge[t] = "booting"
  /\ bridge' = [bridge EXCEPT ![t] = "booted"]
  /\ transfers' = {IF x.tab = t THEN [x EXCEPT !.at = IF @ = "boot" THEN "sent" ELSE @] ELSE x : x \in transfers}
  /\ UNCHANGED <<shell, sent, greeting, worker, asked, pages, marks>>

BootFails(t) ==
  /\ bridge[t] = "booting"
  /\ bridge' = [bridge EXCEPT ![t] = "absent"]
  /\ GivenUp({x \in transfers : x.tab = t /\ x.at = "boot"})
  /\ failed' = TRUE
  /\ UNCHANGED <<shell, sent, greeting, worker, asked, pages, crossed, events>>

\* The bridge's handlers of LWID_SANDBOX_SET_FILES await ensureSW().  The
\* worker is registered and told the shell's origin; or the handlers that have
\* begun, up to that of x, fail, and the next one tries again.
Register(t) ==
  /\ bridge[t] = "booted" /\ \E x \in transfers : x.tab = t /\ x.at = "sent"
  /\ bridge' = [bridge EXCEPT ![t] = "ready"]
  /\ greeting' = greeting \cup {t}
  /\ UNCHANGED <<shell, transfers, sent, worker, asked, pages, marks>>

RegisterFails(x) ==
  /\ x.at = "sent" /\ bridge[x.tab] = "booted"
  /\ GivenUp({y \in transfers : y.at = "sent" /\ (y = x \/ Earlier(y, x))})
  /\ failed' = TRUE
  /\ UNCHANGED <<shell, bridge, sent, greeting, worker, asked, pages, crossed, events>>

PostToWorker(x) ==
  /\ Foremost(x, "sent") /\ bridge[x.tab] = "ready"
  /\ Becomes(x, [x EXCEPT !.at = "waiting", !.message = "posted"])
  /\ UNCHANGED <<shell, bridge, sent, greeting, worker, asked, pages, marks>>

SlipAcknowledged(x) == x.at = "waiting"   \* does not wait for the worker
Acknowledged(x) == x.at = "waiting" /\ x.message = "acked"

\* FILES_READY: the content frame is pointed at the entry point, if there is
\* one to go to.
FilesReady(x) ==
  /\ Acknowledged(x)
  /\ GivenUp({x})
  /\ IF x.navigate THEN req' = [req EXCEPT ![<<x.tab, "document">>] = "going"] ELSE UNCHANGED req
  /\ UNCHANGED <<shell, bridge, sent, greeting, worker, asked, page, marks>>

\* Five seconds pass without FILES_READY.
TransferTimesOut(x) ==
  /\ x.at = "waiting"
  /\ GivenUp({x})
  /\ failed' = TRUE
  /\ UNCHANGED <<shell, bridge, sent, greeting, worker, asked, pages, crossed, events>>
----------------------------------------------------------------------------
(* The worker.                                                             *)

Waiting == {f \in Fetch : req[f] = "waiting"}

\* A mutation: the promise is forgotten and not resolved.
SlipFinishHydration(c) == hydrating' = FALSE /\ UNCHANGED <<req, page>>

\* Requests F are answered with what cache c has.
Answered(F, c) ==
  /\ req' = [f \in Fetch |-> IF f \in F THEN "idle" ELSE req[f]]
  /\ page' = [t \in Tab |-> IF <<t, "document">> \in F THEN c ELSE page[t]]

\* A mutation: of several requests that wait, one is answered.
SlipFinishOne(c) ==
  /\ Answered({f \in Waiting : f = CHOOSE g \in Waiting : TRUE}, c)
  /\ hydrating' = FALSE

\* The requests that await the promise continue at once, with cache c.
FinishHydration(c) == Answered(Waiting, c) /\ hydrating' = FALSE

SetShellOrigin(t) ==
  /\ t \in greeting
  /\ greeting' = greeting \ {t}
  /\ origin' = TRUE
  /\ UNCHANGED <<shell, bridge, transfers, sent, cache, hydrating, matching, timers,
                 asked, pages, marks>>

SlipFill(x) == cache' = x.files /\ UNCHANGED origin   \* no shellOrigin in it
Fill(x) == cache' = x.files /\ origin' = TRUE

SetFiles(x) ==
  /\ x.message = "posted" /\ x.tab \notin greeting
  /\ \A y \in transfers : Earlier(y, x) => y.message # "posted"
  /\ IF x.at = "gone" THEN transfers' = transfers \ {x} ELSE Becomes(x, [x EXCEPT !.message = "acked"])
  /\ Fill(x)
  /\ FinishHydration(cache')
  /\ UNCHANGED <<shell, bridge, sent, greeting, matching, timers, asked, marks>>

\* A request is answered from the cache, unless it is empty.
Answer(f) ==
  /\ req[f] = "going" /\ cache # 0
  /\ Answered({f}, cache)
  /\ UNCHANGED <<shell, wires, worker, asked, marks>>

JoinHydration(f) ==
  /\ req[f] = "going" /\ cache = 0 /\ hydrating
  /\ req' = [req EXCEPT ![f] = "waiting"]
  /\ UNCHANGED <<shell, wires, worker, asked, page, marks>>

\* The count of timers stops at MaxTimers, which forgets only older ones.
RequestHydration(f) ==
  /\ req[f] = "going" /\ cache = 0 /\ ~hydrating
  /\ req' = [req EXCEPT ![f] = "waiting"]
  /\ hydrating' = TRUE /\ matching' = TRUE
  /\ timers' = IF timers < MaxTimers THEN timers + 1 ELSE timers
  /\ UNCHANGED <<shell, wires, cache, origin, asked, page, marks>>

handleRequest(f) == Answer(f) \/ JoinHydration(f) \/ RequestHydration(f)

\* matchAll() finds the bridges, perhaps one that boots, and pages that will
\* not answer; or no client at all, and the promise is resolved.
AskClients ==
  /\ matching
  /\ matching' = FALSE
  /\ \E booting \in SUBSET {t \in Tab : bridge[t] = "booting"} :
       asked' = asked \cup booting \cup {t \in Tab : bridge[t] \in {"booted", "ready"}}
  /\ UNCHANGED <<shell, wires, cache, origin, hydrating, timers, pages, marks>>

NobodyToAsk ==
  /\ matching /\ \A t \in Tab : bridge[t] \notin {"booted", "ready"}
  /\ matching' = FALSE
  /\ FinishHydration(cache)
  /\ UNCHANGED <<shell, wires, cache, origin, timers, asked, marks>>

\* Nothing clears a timer: it may be one of an earlier re-hydration.
HydrationTimer ==
  /\ timers > 0
  /\ timers' = timers - 1
  /\ failed' = (failed \/ hydrating)
  /\ FinishHydration(cache)
  /\ UNCHANGED <<shell, wires, cache, origin, matching, asked, crossed, events>>

\* The browser ends a worker that has nothing to do.
Terminate ==
  /\ events < MaxEvents
  /\ Waiting = {} /\ greeting = {} /\ \A x \in transfers : x.message # "posted"
  /\ cache' = 0 /\ origin' = FALSE /\ hydrating' = FALSE /\ matching' = FALSE /\ timers' = 0
  /\ events' = events + 1
  /\ UNCHANGED <<shell, wires, asked, pages, failed, crossed>>
----------------------------------------------------------------------------
(* The user.                                                               *)

\* A link in the page, a file picked in the shell, or what a document needs.
Browse(f) ==
  /\ req[f] = "idle"
  /\ req' = [req EXCEPT ![f] = "going"]
  /\ UNCHANGED <<shell, wires, worker, asked, page, marks>>

\* The tab is closed, or the shell reloaded; what is on its way to the
\* worker arrives.
Close(t) ==
  /\ events < MaxEvents /\ bridge[t] # "absent"
  /\ events' = events + 1
  /\ files' = [files EXCEPT ![t] = 0] /\ resolving' = [resolving EXCEPT ![t] = {}]
  /\ bridge' = [bridge EXCEPT ![t] = "absent"]
  /\ GivenUp({x \in transfers : x.tab = t})
  /\ asked' = asked \ {t}
  /\ req' = [f \in Fetch |-> IF f[1] = t THEN "idle" ELSE req[f]]
  /\ page' = [page EXCEPT ![t] = 0]
  /\ crossed' = (crossed \/ \E x \in transfers : x.tab = t /\ x.message = "posted")
  /\ UNCHANGED <<latest, sent, greeting, worker, failed>>

Next ==
  \/ \E t \in Tab :
       Show(t) \/ Send(t) \/ Resend(t) \/ Boot(t) \/ BootFails(t) \/ Register(t)
       \/ SetShellOrigin(t) \/ Close(t)
  \/ \E f \in Fetch : handleRequest(f) \/ Browse(f)
  \/ \E x \in transfers :
       RegisterFails(x) \/ PostToWorker(x) \/ FilesReady(x) \/ TransferTimesOut(x) \/ SetFiles(x)
  \/ AskClients \/ NobodyToAsk \/ HydrationTimer \/ Terminate

\* Browsers deliver requests to the worker and run its timers.  Nothing is
\* assumed of shells, bridges, or the network.
Spec ==
  /\ Init /\ [][Next]_vars
  /\ \A f \in Fetch : WF_vars(handleRequest(f))
  /\ WF_vars(HydrationTimer)
----------------------------------------------------------------------------
(* Properties.                                                             *)

\* The types, and that a request never waits for a promise that nobody will
\* resolve: while one waits there is a promise, and a timer that ends it.
TypeOK ==
  /\ files \in [Tab -> 0 .. MaxVersion] /\ latest \in 0 .. MaxVersion
  /\ resolving \in [Tab -> SUBSET Version]
  /\ bridge \in [Tab -> {"absent", "booting", "booted", "ready"}]
  /\ transfers \subseteq Transfer
  /\ sent \in 0 .. MaxTransfers /\ greeting \subseteq Tab
  /\ cache \in 0 .. MaxVersion /\ {origin, hydrating, matching} \subseteq BOOLEAN
  /\ timers \in 0 .. MaxTimers /\ asked \subseteq Tab
  /\ req \in [Fetch -> {"idle", "going", "waiting"}] /\ page \in [Tab -> 0 .. MaxVersion]
  /\ {failed, crossed} \subseteq BOOLEAN /\ events \in 0 .. MaxEvents
  /\ Waiting # {} => hydrating
  /\ hydrating => timers > 0

\* A worker that serves files knows its shell's origin, from which it takes
\* the SDK and the viewers, also after it was ended and filled again.
FilesKnowTheirShell == cache # 0 => origin

Quiet ==
  /\ transfers = {} /\ asked = {}
  /\ \A t \in Tab : resolving[t] = {}
  /\ \A f \in Fetch : req[f] = "idle"

\* When nothing is under way, a tab's page came from the files its shell
\* shows, and so do the worker's answers, however loads, saves, requests,
\* terminations of the worker and re-hydrations interleaved; unless a timer
\* fired, a transfer failed, or the tab's loads, or two tabs, crossed.
QuietTabsShowTheirFiles ==
  Quiet /\ ~failed /\ ~crossed =>
    \A t \in Tab : files[t] # 0 => page[t] = files[t] /\ cache \in {0, files[t]}

\* Every request of a page is answered, with a file or Not Found, whatever
\* shells and bridges do: the timer ends each re-hydration.
EveryRequestAnswered == \A f \in Fetch : req[f] # "idle" ~> req[f] = "idle"
============================================================================
