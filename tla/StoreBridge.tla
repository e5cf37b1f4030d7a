----------------------------- MODULE StoreBridge -----------------------------
(***************************************************************************)
(* The clients of the key-value store: pages that call lwid-sdk.js, the    *)
(* shell's postMessage bridge that carries their calls out, and the CLI.   *)
(* The server sees obfuscated keys, so the clients keep an index of the    *)
(* keys in the store itself, under `_idx`: a set or a delete changes the   *)
(* value, loads the index and saves it.                                    *)
(*                                                                         *)
(* The bridge handles each message in an async function of its own, so     *)
(* calls overlap at every request to the server.  A page that is left      *)
(* takes its pending calls along, not the handlers in the shell, and the   *)
(* next page numbers its calls from 1 again.                               *)
(***************************************************************************)
EXTENDS Integers, FiniteSets

CONSTANTS
  Key,         \* the app's keys
  Call,        \* calls of the SDK and runs of the CLI
  MaxPages,    \* bound on the pages the content frame visits
  MaxFaults,   \* bound on failed requests to the server
  None

ASSUME BridgeType ==
  /\ IsFiniteSet(Key) /\ IsFiniteSet(Call)
  /\ None \notin Call \cup {"gone", "set", "delete"} /\ "gone" \notin Call
  /\ MaxPages \in Nat \ {0} /\ MaxFaults \in Nat

VARIABLES
  value,       \* value[k]: the call whose value is stored under k, or None
  index,       \* what is stored under _idx
  page,        \* the page in the content frame
  nextId,      \* lwid-sdk's nextId in that page
  msg,         \* msg[c]: the message of call c; page 0 is the CLI
  pc,          \* pc[c]: the next request of the handler of c
  idx,         \* idx[c]: the index that the handler is about to save
  status,      \* status[c]: what its caller knows of c
  answer,      \* answer[c]: the call whose answer settled c
  faults,
  clashed,     \* history: calls that overlapped another on the same key
  crowded,     \* history: calls that overlapped any other that writes
  stored,      \* history: what the last call on a key, if it met no other
  listed       \*   and was answered, left under the key and in the index

history == <<clashed, crowded, stored, listed>>
vars == <<value, index, page, nextId, msg, pc, idx, status, answer, faults,
          clashed, crowded, stored, listed>>

-----------------------------------------------------------------------------

\* A read stands for get and keys.
Op == {"set", "delete", "read"}
Writes(op) == op # "read"
Message == [op : Op, key : Key, page : 0 .. MaxPages, id : Nat]

ASSUME NoneIsNoMessage == None \notin Message

InFlight(c) == pc[c] \in {"value", "load", "save"}
Writers == {c \in Call : InFlight(c) /\ Writes(msg[c].op)}
Present == {k \in Key : value[k] # None}
Pending == {c \in Call : status[c] = "pending"}

TypeOK ==
  /\ value \in [Key -> Call \cup {None}]
  /\ index \subseteq Key
  /\ page \in 1 .. MaxPages
  /\ nextId \in Nat \ {0}
  /\ msg \in [Call -> Message \cup {None}]
  /\ pc \in [Call -> {"unused", "value", "load", "save", "done"}]
  /\ idx \in [Call -> SUBSET Key]
  /\ status \in [Call -> {"unused", "pending", "ok", "error", "timeout", "gone"}]
  /\ answer \in [Call -> Call \cup {None}]
  /\ faults \in 0 .. MaxFaults
  /\ clashed \subseteq crowded /\ crowded \subseteq Call
  /\ stored \in [Key -> Call \cup {None, "gone"}]
  /\ listed \in [Key -> {None, "set", "delete"}]
  /\ \A c \in Call : msg[c] = None <=> pc[c] = "unused"
  /\ \A c \in Pending : msg[c].page \in {0, page}

Init ==
  /\ value = [k \in Key |-> None]
  /\ index = {}
  /\ page = 1
  /\ nextId = 1
  /\ msg = [c \in Call |-> None]
  /\ pc = [c \in Call |-> "unused"]
  /\ idx = [c \in Call |-> {}]
  /\ status = [c \in Call |-> "unused"]
  /\ answer = [c \in Call |-> None]
  /\ faults = 0
  /\ clashed = {}
  /\ crowded = {}
  /\ stored = [k \in Key |-> None]
  /\ listed = [k \in Key |-> None]

-----------------------------------------------------------------------------
(* The caller.                                                             *)

\* History: whom call c meets, and that its key is open until it is answered.
Begun(c, op, k) ==
  LET met == IF Writes(op) THEN Writers ELSE {}
      same == {x \in met : msg[x].key = k}
  IN
  /\ crowded' = IF met = {} THEN crowded ELSE crowded \cup met \cup {c}
  /\ clashed' = IF same = {} THEN clashed ELSE clashed \cup same \cup {c}
  /\ stored' = IF Writes(op) THEN [stored EXCEPT ![k] = None] ELSE stored
  /\ listed' = IF Writes(op) THEN [listed EXCEPT ![k] = None] ELSE listed

\* The message of call c reaches its handler.
Start(c, op, k, p, id) ==
  /\ pc[c] = "unused"
  /\ msg' = [msg EXCEPT ![c] = [op |-> op, key |-> k, page |-> p, id |-> id]]
  /\ pc' = [pc EXCEPT ![c] = "value"]
  /\ status' = [status EXCEPT ![c] = "pending"]
  /\ Begun(c, op, k)
  /\ UNCHANGED <<value, index, page, idx, answer, faults>>

SlipFreshId == Cardinality(Pending) + 1
FreshId == nextId

\* request in lwid-sdk.js.
Send(c) ==
  /\ \E op \in Op, k \in Key : Start(c, op, k, page, FreshId)
  /\ nextId' = nextId + 1

\* `lwid kv` or `lwid blob` with a value.
CliSet(c) ==
  /\ \E k \in Key : Start(c, "set", k, 0, 0)
  /\ UNCHANGED nextId

\* Ten seconds without an answer.
Timeout(c) ==
  /\ c \in Pending
  /\ msg[c].page # 0
  /\ status' = [status EXCEPT ![c] = "timeout"]
  /\ UNCHANGED <<value, index, page, nextId, msg, pc, idx, answer, faults, history>>

\* The content frame goes to another page of the app, which loads the SDK
\* afresh.
SlipNavigate ==
  /\ page < MaxPages
  /\ page' = page + 1
  /\ nextId' = 1
  /\ UNCHANGED <<value, index, msg, pc, idx, status, answer, faults, history>>
Navigate ==
  /\ page < MaxPages
  /\ page' = page + 1
  /\ nextId' = 1
  /\ status' = [c \in Call |-> IF c \in Pending /\ msg[c].page # 0
                               THEN "gone" ELSE status[c]]
  /\ UNCHANGED <<value, index, msg, pc, idx, answer, faults, history>>

-----------------------------------------------------------------------------
(* The handler, in the shell or in the CLI.                                *)

\* Those whom an answer to c settles: the CLI waits for its own requests, and
\* the frame's page looks the id up among its pending calls.
Answered(c) ==
  IF msg[c].page = 0 THEN {c}
  ELSE {x \in Pending : msg[x].page = page /\ msg[x].id = msg[c].id}

\* History: c is over, and if it met no other call on its key (no other that
\* writes), what it leaves under the key (in the index) is known.
Ended(c, outcome) ==
  LET k == msg[c].key
      acked == outcome = "ok" /\ Writes(msg[c].op)
  IN
  /\ stored' = IF acked /\ c \notin clashed
               THEN [stored EXCEPT ![k] = IF msg[c].op = "set" THEN c ELSE "gone"]
               ELSE stored
  /\ listed' = IF acked /\ c \notin crowded
               THEN [listed EXCEPT ![k] = msg[c].op] ELSE listed
  /\ UNCHANGED <<clashed, crowded>>

Answer(c, outcome) ==
  /\ pc' = [pc EXCEPT ![c] = "done"]
  /\ status' = [x \in Call |-> IF x \in Answered(c) THEN outcome ELSE status[x]]
  /\ answer' = [x \in Call |-> IF x \in Answered(c) THEN c ELSE answer[x]]
  /\ Ended(c, outcome)
  /\ UNCHANGED <<page, nextId, msg>>

Proceed(c, next) ==
  /\ pc' = [pc EXCEPT ![c] = next]
  /\ UNCHANGED <<page, nextId, msg, status, answer, history>>

\* putStoreValue.
SetValue(c) ==
  /\ pc[c] = "value" /\ msg[c].op = "set"
  /\ value' = [value EXCEPT ![msg[c].key] = c]
  /\ Proceed(c, "load")
  /\ UNCHANGED <<index, idx, faults>>

\* deleteStoreValue, which throws if there is no value.
DeleteValue(c) ==
  /\ pc[c] = "value" /\ msg[c].op = "delete"
  /\ IF value[msg[c].key] = None
     THEN Answer(c, "error") /\ UNCHANGED value
     ELSE /\ value' = [value EXCEPT ![msg[c].key] = None]
          /\ Proceed(c, "load")
  /\ UNCHANGED <<index, idx, faults>>

\* getStoreValue or loadKeyIndex.
Read(c) ==
  /\ pc[c] = "value" /\ msg[c].op = "read"
  /\ Answer(c, "ok")
  /\ UNCHANGED <<value, index, idx, faults>>

\* The index, with c's key in it or taken out.
SlipNewIndex(c) ==
  IF msg[c].op = "set" THEN {msg[c].key} ELSE index \ {msg[c].key}
NewIndex(c) ==
  IF msg[c].op = "set" THEN index \cup {msg[c].key} ELSE index \ {msg[c].key}

\* loadKeyIndex; the index is saved only if it changes.
LoadIndex(c) ==
  /\ pc[c] = "load"
  /\ IF NewIndex(c) = index
     THEN Answer(c, "ok") /\ UNCHANGED idx
     ELSE /\ idx' = [idx EXCEPT ![c] = NewIndex(c)]
          /\ Proceed(c, "save")
  /\ UNCHANGED <<value, index, faults>>

\* saveKeyIndex.
SaveIndex(c) ==
  /\ pc[c] = "save"
  /\ index' = idx[c]
  /\ Answer(c, "ok")
  /\ UNCHANGED <<value, idx, faults>>

\* api.js and client.rs turn a status that is no success into an error, which
\* the handler answers with.
SlipFailureOutcome == "ok"
FailureOutcome == "error"

\* A request to the server fails: before it has an effect or, which only the
\* last one of a handler can tell apart, after.
RequestFails(c) ==
  /\ InFlight(c)
  /\ faults < MaxFaults
  /\ faults' = faults + 1
  /\ index' \in IF pc[c] = "save" THEN {index, idx[c]} ELSE {index}
  /\ Answer(c, FailureOutcome)
  /\ UNCHANGED <<value, idx>>

-----------------------------------------------------------------------------

Handle(c) ==
  SetValue(c) \/ DeleteValue(c) \/ Read(c) \/ LoadIndex(c) \/ SaveIndex(c)

Next ==
  \/ \E c \in Call : \/ Send(c) \/ CliSet(c) \/ Timeout(c)
                     \/ Handle(c) \/ RequestFails(c)
  \/ Navigate

Spec == Init /\ [][Next]_vars

-----------------------------------------------------------------------------
(* Properties.                                                             *)

\* A set or delete that was carried out without an error, and met no other
\* call on its key, determines what is stored there until the next one:
\* whatever calls on other keys, timeouts, page changes and failures do.
AckedStored ==
  \A k \in Key : /\ stored[k] \in Call => value[k] = stored[k]
                 /\ stored[k] = "gone" => value[k] = None

\* The same of the index, which all calls share: the entry of a key is right
\* if the last set or delete of it met no other call that writes, however many
\* calls on other keys overlapped since and lost each other's entries.
AckedListed ==
  \A k \in Key : /\ listed[k] = "set" => k \in index
                 /\ listed[k] = "delete" => k \notin index

\* Why: calls in flight that write have noted one another, and none of them is
\* on a key whose entry or value is known; the handler of a call keeps what is
\* known of other keys, and what it did itself unless it met a call.
MeetingsNoted ==
  \A c, d \in Writers : c # d =>
    /\ c \in crowded
    /\ msg[c].key = msg[d].key => c \in clashed
WrittenIsOpen ==
  \A c \in Writers : stored[msg[c].key] = None /\ listed[msg[c].key] = None
HandlerOK(c) ==
  /\ pc[c] \in {"load", "save"} =>
       /\ Writes(msg[c].op)
       /\ c \notin clashed =>
            value[msg[c].key] = IF msg[c].op = "set" THEN c ELSE None
  /\ pc[c] = "save" =>
       /\ msg[c].key \in idx[c] <=> msg[c].op = "set"
       /\ \A k \in Key : /\ listed[k] = "set" => k \in idx[c]
                         /\ listed[k] = "delete" => k \notin idx[c]
BridgeInv ==
  /\ MeetingsNoted /\ WrittenIsOpen /\ (\A c \in Call : HandlerOK(c))
  /\ AckedStored /\ AckedListed

\* In one page, a promise is settled by the answer to its own call: also
\* when calls were given up meanwhile and their answers come late.
AnswersOnPage ==
  \A c \in Call :
    (answer[c] # None /\ msg[answer[c]].page = msg[c].page) => answer[c] = c

\* Why: the numbers of one page's calls differ.
IdsUnique ==
  \A c, d \in Call :
    (/\ msg[c] # None /\ msg[d] # None /\ msg[c].page # 0
     /\ msg[c].page = msg[d].page /\ msg[c].id = msg[d].id) => c = d
IdsBelowNext ==
  \A c \in Call : msg[c] # None =>
    /\ msg[c].page <= page
    /\ msg[c].page = page => msg[c].id < nextId
AnswersSent ==
  \A c \in Call : /\ answer[c] # None => msg[c] # None /\ msg[answer[c]] # None
                  /\ c \in Pending => msg[c] # None
IdInv == IdsUnique /\ IdsBelowNext /\ AnswersSent /\ AnswersOnPage

-----------------------------------------------------------------------------
(* What the repository says of the program and the code does not keep.     *)

\* "Each call sends a typed request with a unique ID and waits for a
\* LWID_RESULT message carrying the same ID" (lwid-sdk.js).
AnswersOwn == \A c \in Call : answer[c] \in {None, c}

=============================================================================
