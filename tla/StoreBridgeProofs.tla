-------------------------- MODULE StoreBridgeProofs --------------------------
(***************************************************************************)
(* What the clients of the key-value store may rely on, for any number of  *)
(* keys, calls, pages and failures.                                        *)
(***************************************************************************)
EXTENDS StoreBridge, TLAPS

-----------------------------------------------------------------------------
(* Type correctness.                                                       *)

LEMMA InitTypeOK == Init => TypeOK
BY BridgeType DEF Init, TypeOK, Pending

\* The fields of a call's message.
LEMMA MessageFields ==
  ASSUME TypeOK, NEW c \in Call, pc[c] # "unused"
  PROVE  /\ msg[c] # None /\ msg[c] \in Message
         /\ msg[c].op \in Op /\ msg[c].key \in Key
         /\ msg[c].page \in 0 .. MaxPages /\ msg[c].id \in Nat
BY DEF TypeOK, Message

\* A new call.
LEMMA StartTypeOK ==
  ASSUME TypeOK, NEW c \in Call, NEW op \in Op, NEW k \in Key,
         NEW p \in {0, page}, NEW id \in Nat, Start(c, op, k, p, id),
         nextId' \in Nat \ {0}
  PROVE  TypeOK'
<1> DEFINE m == [op |-> op, key |-> k, page |-> p, id |-> id]
<1>1. m \in Message /\ m.page = p
  BY BridgeType DEF Message, TypeOK
<1>2. pc[c] = "unused" /\ msg' = [msg EXCEPT ![c] = m]
  BY DEF Start
<1> HIDE DEF m
<1>3. m # None
  BY <1>1, NoneIsNoMessage
<1>4. /\ msg' \in [Call -> Message \cup {None}]
      /\ pc' \in [Call -> {"unused", "value", "load", "save", "done"}]
      /\ status' \in [Call -> {"unused", "pending", "ok", "error", "timeout", "gone"}]
      /\ UNCHANGED <<value, index, page, idx, answer, faults>>
  BY <1>1, <1>2 DEF Start, TypeOK
<1>5. /\ clashed' \subseteq crowded' /\ crowded' \subseteq Call
      /\ stored' \in [Key -> Call \cup {None, "gone"}]
      /\ listed' \in [Key -> {None, "set", "delete"}]
  BY DEF Start, Begun, TypeOK, Writers
<1>6. \A x \in Call : msg'[x] = None <=> pc'[x] = "unused"
  BY <1>2, <1>3 DEF Start, TypeOK
<1>7. \A x \in Pending' : msg'[x].page \in {0, page'}
  BY <1>1, <1>2, <1>4 DEF Start, TypeOK, Pending
<1> QED BY <1>4, <1>5, <1>6, <1>7 DEF TypeOK

\* The end of a call.
LEMMA AnswerTypeOK ==
  ASSUME TypeOK, NEW c \in Call, NEW outcome \in {"ok", "error"}, InFlight(c),
         Answer(c, outcome),
         value' \in [Key -> Call \cup {None}], index' \subseteq Key,
         idx' \in [Call -> SUBSET Key], faults' \in 0 .. MaxFaults
  PROVE  TypeOK'
<1>1. pc[c] # "unused"
  BY DEF InFlight
<1>2. msg[c].op \in Op /\ msg[c].key \in Key
  BY <1>1, MessageFields
<1>3. /\ pc' \in [Call -> {"unused", "value", "load", "save", "done"}]
      /\ status' \in [Call -> {"unused", "pending", "ok", "error", "timeout", "gone"}]
      /\ answer' \in [Call -> Call \cup {None}]
      /\ UNCHANGED <<page, nextId, msg, clashed, crowded>>
  BY DEF Answer, Ended, TypeOK
<1>4. stored' \in [Key -> Call \cup {None, "gone"}]
  BY <1>2 DEF Answer, Ended, TypeOK
<1>5. listed' \in [Key -> {None, "set", "delete"}]
  <2>1. CASE msg[c].op = "read"
    BY <2>1 DEF Answer, Ended, TypeOK, Writes
  <2>2. CASE msg[c].op # "read"
    BY <1>2, <2>2 DEF Answer, Ended, TypeOK, Op
  <2> QED BY <2>1, <2>2
<1>6. \A x \in Call : msg'[x] = None <=> pc'[x] = "unused"
  BY <1>1, <1>3 DEF Answer, TypeOK
<1>7. Pending' \subseteq Pending
  BY DEF Answer, Pending, TypeOK
<1>8. \A x \in Pending' : msg'[x].page \in {0, page'}
  BY <1>3, <1>7 DEF TypeOK
<1> QED BY <1>3, <1>4, <1>5, <1>6, <1>8 DEF TypeOK

\* A step of a handler that is not its last.
LEMMA ProceedTypeOK ==
  ASSUME TypeOK, NEW c \in Call, NEW next \in {"load", "save"}, InFlight(c),
         Proceed(c, next), UNCHANGED faults,
         value' \in [Key -> Call \cup {None}], index' \subseteq Key,
         idx' \in [Call -> SUBSET Key]
  PROVE  TypeOK'
<1>1. /\ pc' \in [Call -> {"unused", "value", "load", "save", "done"}]
      /\ UNCHANGED <<page, nextId, msg, status, answer, clashed, crowded, stored, listed>>
  BY DEF Proceed, history, TypeOK
<1>2. \A x \in Call : msg'[x] = None <=> pc'[x] = "unused"
  BY <1>1 DEF Proceed, InFlight, TypeOK
<1>3. Pending' = Pending
  BY <1>1 DEF Pending
<1> QED BY <1>1, <1>2, <1>3 DEF TypeOK

LEMMA NextTypeOK == TypeOK /\ [Next]_vars => TypeOK'
<1> SUFFICES ASSUME TypeOK, [Next]_vars PROVE TypeOK'
  OBVIOUS
<1>0. CASE UNCHANGED vars
  BY <1>0 DEF vars, TypeOK, Pending
<1>1. ASSUME NEW c \in Call, Send(c) PROVE TypeOK'
  <2>1. PICK op \in Op, k \in Key : Start(c, op, k, page, nextId)
    BY <1>1 DEF Send, FreshId
  <2>2. nextId \in Nat /\ nextId' \in Nat \ {0}
    BY <1>1 DEF Send, TypeOK
  <2> QED BY <2>1, <2>2, StartTypeOK
<1>2. ASSUME NEW c \in Call, CliSet(c) PROVE TypeOK'
  <2>1. PICK k \in Key : Start(c, "set", k, 0, 0)
    BY <1>2 DEF CliSet
  <2>2. nextId' \in Nat \ {0} /\ "set" \in Op
    BY <1>2 DEF CliSet, TypeOK, Op
  <2> QED BY <2>1, <2>2, StartTypeOK
<1>3. ASSUME NEW c \in Call, Timeout(c) PROVE TypeOK'
  <2>1. Pending' \subseteq Pending
    BY <1>3 DEF Timeout, Pending, TypeOK
  <2>2. status' \in [Call -> {"unused", "pending", "ok", "error", "timeout", "gone"}]
    BY <1>3 DEF Timeout, TypeOK
  <2> QED BY <1>3, <2>1, <2>2 DEF Timeout, history, TypeOK
<1>4. ASSUME Navigate PROVE TypeOK'
  <2>1. \A x \in Pending' : x \in Pending /\ msg[x].page = 0
    BY <1>4 DEF Navigate, Pending, TypeOK
  <2>2. status' \in [Call -> {"unused", "pending", "ok", "error", "timeout", "gone"}]
    BY <1>4 DEF Navigate, TypeOK
  <2>3. page' \in 1 .. MaxPages /\ nextId' \in Nat \ {0}
    BY <1>4, BridgeType DEF Navigate, TypeOK
  <2> QED BY <1>4, <2>1, <2>2, <2>3 DEF Navigate, history, TypeOK
<1>5. ASSUME NEW c \in Call, InFlight(c), SetValue(c) PROVE TypeOK'
  <2>1. value' \in [Key -> Call \cup {None}]
    BY <1>5 DEF SetValue, TypeOK
  <2> QED BY <1>5, <2>1, ProceedTypeOK DEF SetValue, TypeOK
<1>6. ASSUME NEW c \in Call, InFlight(c), DeleteValue(c) PROVE TypeOK'
  <2>1. value' \in [Key -> Call \cup {None}]
    BY <1>6 DEF DeleteValue, TypeOK
  <2>2. Answer(c, "error") \/ Proceed(c, "load")
    BY <1>6 DEF DeleteValue
  <2> QED BY <1>6, <2>1, <2>2, AnswerTypeOK, ProceedTypeOK DEF DeleteValue, TypeOK
<1>7. ASSUME NEW c \in Call, InFlight(c), Read(c) PROVE TypeOK'
  BY <1>7, AnswerTypeOK DEF Read, TypeOK
<1>8. ASSUME NEW c \in Call, InFlight(c), LoadIndex(c) PROVE TypeOK'
  <2>1. NewIndex(c) \subseteq Key
    BY <1>8, MessageFields DEF NewIndex, TypeOK, InFlight
  <2>2. idx' \in [Call -> SUBSET Key]
    BY <1>8, <2>1 DEF LoadIndex, TypeOK
  <2>3. Answer(c, "ok") \/ Proceed(c, "save")
    BY <1>8 DEF LoadIndex
  <2> QED BY <1>8, <2>2, <2>3, AnswerTypeOK, ProceedTypeOK DEF LoadIndex, TypeOK
<1>9. ASSUME NEW c \in Call, InFlight(c), SaveIndex(c) PROVE TypeOK'
  <2>1. index' \subseteq Key
    BY <1>9 DEF SaveIndex, TypeOK
  <2> QED BY <1>9, <2>1, AnswerTypeOK DEF SaveIndex, TypeOK
<1>10. ASSUME NEW c \in Call, InFlight(c), RequestFails(c) PROVE TypeOK'
  <2>1. index' \subseteq Key
    BY <1>10 DEF RequestFails, TypeOK
  <2>2. faults' \in 0 .. MaxFaults
    BY <1>10, BridgeType DEF RequestFails, TypeOK
  <2> QED BY <1>10, <2>1, <2>2, AnswerTypeOK DEF RequestFails, FailureOutcome, TypeOK
<1>11. \A c \in Call : Handle(c) \/ RequestFails(c) => InFlight(c)
  BY DEF Handle, SetValue, DeleteValue, Read, LoadIndex, SaveIndex, RequestFails, InFlight
<1> QED BY <1>0, <1>1, <1>2, <1>3, <1>4, <1>5, <1>6, <1>7, <1>8, <1>9, <1>10, <1>11
        DEF Next, Handle

\* Clients, server and handlers stay well typed, and only calls of the page
\* that is shown, or of the CLI, await an answer.
THEOREM TypeCorrect == Spec => []TypeOK
BY InitTypeOK, NextTypeOK, PTL DEF Spec

-----------------------------------------------------------------------------
(* Answers within a page.                                                  *)

LEMMA InitIdInv == Init => IdInv
BY DEF Init, IdInv, IdsUnique, IdsBelowNext, AnswersSent, AnswersOnPage, Pending

\* A new call has a number that no other call of its page has.
LEMMA StartIdInv ==
  ASSUME TypeOK, IdInv, NEW c \in Call, NEW op \in Op, NEW k \in Key,
         NEW p \in {0, page}, NEW id \in Nat, Start(c, op, k, p, id),
         nextId' \in Nat, nextId <= nextId',
         p = page => id = nextId /\ nextId < nextId'
  PROVE  IdInv'
<1> DEFINE m == [op |-> op, key |-> k, page |-> p, id |-> id]
<1>1. m.page = p /\ m.id = id /\ m \in Message
  BY BridgeType DEF Message, TypeOK
<1>2. /\ msg[c] = None
      /\ msg' = [msg EXCEPT ![c] = m]
      /\ status' = [status EXCEPT ![c] = "pending"]
      /\ page' = page /\ answer' = answer
  BY DEF Start, TypeOK
<1> HIDE DEF m
<1>3. m # None
  BY <1>1, NoneIsNoMessage
<1>4. msg'[c] = m /\ \A x \in Call : x # c => msg'[x] = msg[x]
  BY <1>2 DEF TypeOK
<1>5. page \in Nat /\ page # 0 /\ p \in Nat /\ nextId \in Nat
  BY BridgeType DEF TypeOK
<1>6. \A x \in Call : msg[x] # None => msg[x].page \in Nat /\ msg[x].id \in Nat
  BY DEF TypeOK, Message
<1>7. IdsUnique'
  <2>1. \A x \in Call : (msg[x] # None /\ p # 0 /\ msg[x].page = p) => msg[x].id # id
    BY <1>5, <1>6 DEF IdInv, IdsBelowNext
  <2> QED BY <1>1, <1>2, <1>4, <2>1 DEF IdInv, IdsUnique
<1>8. IdsBelowNext'
  BY <1>1, <1>2, <1>4, <1>5, <1>6 DEF IdInv, IdsBelowNext
<1>9. AnswersSent'
  <2>1. \A x \in Call : answer[x] # None => answer[x] \in Call
    BY DEF TypeOK
  <2>2. \A x \in Call : x \in Pending' => x = c \/ x \in Pending
    BY <1>2 DEF Pending, TypeOK
  <2> QED BY <1>2, <1>3, <1>4, <2>1, <2>2 DEF IdInv, AnswersSent
<1>10. AnswersOnPage'
  <2>1. \A x \in Call : answer[x] # None => answer[x] \in Call /\ x # c /\ answer[x] # c
    BY <1>2 DEF TypeOK, IdInv, AnswersSent
  <2> QED BY <1>2, <1>4, <2>1 DEF IdInv, AnswersOnPage
<1> QED BY <1>7, <1>8, <1>9, <1>10 DEF IdInv

\* An answer settles only its own call, or calls of another page.
LEMMA AnswerIdInv ==
  ASSUME TypeOK, IdInv, NEW c \in Call, NEW outcome \in {"ok", "error"},
         InFlight(c), Answer(c, outcome)
  PROVE  IdInv'
<1>1. msg' = msg /\ page' = page /\ nextId' = nextId
  BY DEF Answer
<1>2. msg[c] # None
  BY DEF TypeOK, InFlight
<1>3. \A x \in Call : /\ x \in Answered(c) => answer'[x] = c /\ status'[x] = outcome
                      /\ x \notin Answered(c) => /\ answer'[x] = answer[x]
                                                 /\ status'[x] = status[x]
  BY DEF Answer
<1>4. \A x \in Call : x \in Answered(c) =>
        msg[x] # None /\ (msg[c].page = msg[x].page => x = c)
  <2> SUFFICES ASSUME NEW x \in Call, x \in Answered(c)
               PROVE  msg[x] # None /\ (msg[c].page = msg[x].page => x = c)
    OBVIOUS
  <2>1. CASE msg[c].page = 0
    BY <1>2, <2>1 DEF Answered
  <2>2. CASE msg[c].page # 0
    <3>1. x \in Pending /\ msg[x].page = page /\ msg[x].id = msg[c].id
      BY <2>2 DEF Answered
    <3>2. msg[x] # None
      BY <3>1 DEF IdInv, AnswersSent
    <3> QED BY <1>2, <2>2, <3>1, <3>2 DEF IdInv, IdsUnique
  <2> QED BY <2>1, <2>2
<1>5. IdsUnique' /\ IdsBelowNext'
  BY <1>1 DEF IdInv, IdsUnique, IdsBelowNext
<1>6. AnswersSent'
  BY <1>1, <1>2, <1>3, <1>4 DEF IdInv, AnswersSent, Pending
<1>7. AnswersOnPage'
  BY <1>1, <1>3, <1>4 DEF IdInv, AnswersOnPage
<1> QED BY <1>5, <1>6, <1>7 DEF IdInv

LEMMA NextIdInv == TypeOK /\ IdInv /\ [Next]_vars => IdInv'
<1> SUFFICES ASSUME TypeOK, IdInv, [Next]_vars PROVE IdInv'
  OBVIOUS
<1>0. CASE UNCHANGED vars
  BY <1>0 DEF vars, IdInv, IdsUnique, IdsBelowNext, AnswersSent, AnswersOnPage, Pending
<1>1. ASSUME NEW c \in Call, Send(c) PROVE IdInv'
  <2>1. PICK op \in Op, k \in Key : Start(c, op, k, page, nextId)
    BY <1>1 DEF Send, FreshId
  <2>2. nextId \in Nat /\ nextId' = nextId + 1
    BY <1>1 DEF Send, TypeOK
  <2>3. nextId' \in Nat /\ nextId <= nextId' /\ nextId < nextId'
    BY <2>2
  <2> QED BY <2>1, <2>2, <2>3, StartIdInv
<1>2. ASSUME NEW c \in Call, CliSet(c) PROVE IdInv'
  <2>1. PICK k \in Key : Start(c, "set", k, 0, 0)
    BY <1>2 DEF CliSet
  <2>2. nextId \in Nat /\ nextId' = nextId /\ "set" \in Op /\ page # 0
    BY <1>2 DEF CliSet, TypeOK, Op
  <2> QED BY <2>1, <2>2, StartIdInv
<1>3. ASSUME NEW c \in Call, Timeout(c) PROVE IdInv'
  <2>1. Pending' \subseteq Pending
    BY <1>3 DEF Timeout, Pending, TypeOK
  <2> QED BY <1>3, <2>1 DEF Timeout, IdInv, IdsUnique, IdsBelowNext, AnswersSent, AnswersOnPage
<1>4. ASSUME Navigate PROVE IdInv'
  <2>1. Pending' \subseteq Pending
    BY <1>4 DEF Navigate, Pending, TypeOK
  <2>2. \A x \in Call : msg[x] # None => msg[x].page \in Nat
    BY DEF TypeOK, Message
  <2>3. page \in Nat /\ page' = page + 1
    BY <1>4 DEF Navigate, TypeOK
  <2>4. IdsBelowNext'
    BY <1>4, <2>2, <2>3 DEF Navigate, IdInv, IdsBelowNext
  <2> QED BY <1>4, <2>1, <2>4 DEF Navigate, IdInv, IdsUnique, AnswersSent, AnswersOnPage
<1>5. ASSUME NEW c \in Call, NEW next \in {"load", "save"}, Proceed(c, next)
      PROVE  IdInv'
  BY <1>5 DEF Proceed, IdInv, IdsUnique, IdsBelowNext, AnswersSent, AnswersOnPage, Pending
<1>6. ASSUME NEW c \in Call, Handle(c) \/ RequestFails(c)
      PROVE  /\ InFlight(c)
             /\ \/ \E outcome \in {"ok", "error"} : Answer(c, outcome)
                \/ \E next \in {"load", "save"} : Proceed(c, next)
  BY <1>6 DEF Handle, SetValue, DeleteValue, Read, LoadIndex, SaveIndex,
              RequestFails, FailureOutcome, InFlight
<1> QED BY <1>0, <1>1, <1>2, <1>3, <1>4, <1>5, <1>6, AnswerIdInv DEF Next

\* While a page is shown, an answer settles the call it answers, however many
\* calls timed out before: the numbers of a page are never used twice.
THEOREM AnswersOnPageHolds == Spec => []AnswersOnPage
<1>1. Init => TypeOK /\ IdInv
  BY InitTypeOK, InitIdInv
<1>2. (TypeOK /\ IdInv) /\ [Next]_vars => (TypeOK /\ IdInv)'
  BY NextTypeOK, NextIdInv
<1>3. (TypeOK /\ IdInv) => AnswersOnPage
  BY DEF IdInv
<1> QED BY <1>1, <1>2, <1>3, PTL DEF Spec

-----------------------------------------------------------------------------
(* What was stored and listed.                                             *)

LEMMA InitBridgeInv == Init => BridgeInv
BY BridgeType DEF Init, BridgeInv, MeetingsNoted, WrittenIsOpen, HandlerOK,
                  AckedStored, AckedListed, Writers, InFlight

\* What the invariant says of one call in flight that writes, and the others.
LEMMA WriterFacts ==
  ASSUME TypeOK, BridgeInv, NEW c \in Writers
  PROVE  /\ c \in Call /\ InFlight(c) /\ msg[c].key \in Key
         /\ msg[c].op \in {"set", "delete"}
         /\ stored[msg[c].key] = None /\ listed[msg[c].key] = None
         /\ \A x \in Writers : x # c =>
              /\ c \in crowded /\ x \in crowded
              /\ msg[x].key = msg[c].key => c \in clashed /\ x \in clashed
<1>1. c \in Call /\ InFlight(c) /\ Writes(msg[c].op)
  BY DEF Writers
<1>2. msg[c].key \in Key /\ msg[c].op \in Op
  BY <1>1, MessageFields DEF InFlight
<1>3. msg[c].op \in {"set", "delete"}
  BY <1>1, <1>2 DEF Op, Writes
<1> QED BY <1>1, <1>2, <1>3 DEF BridgeInv, WrittenIsOpen, MeetingsNoted

\* A handler past its value is one of a call that writes.
LEMMA HandlersWrite ==
  ASSUME BridgeInv
  PROVE  \A x \in Call : pc[x] \in {"load", "save"} => x \in Writers
BY DEF BridgeInv, HandlerOK, Writers, InFlight

\* A call that begins notes whom it meets.
LEMMA StartBridgeInv ==
  ASSUME TypeOK, BridgeInv, NEW c \in Call, NEW op \in Op, NEW k \in Key,
         NEW p \in {0, page}, NEW id \in Nat, Start(c, op, k, p, id)
  PROVE  BridgeInv'
<1> DEFINE m == [op |-> op, key |-> k, page |-> p, id |-> id]
<1>1. m.op = op /\ m.key = k
  OBVIOUS
<1>2. /\ msg' = [msg EXCEPT ![c] = m] /\ pc[c] = "unused"
      /\ pc' = [pc EXCEPT ![c] = "value"]
      /\ value' = value /\ index' = index /\ idx' = idx
  BY DEF Start
<1> HIDE DEF m
<1>3. /\ msg'[c] = m /\ pc'[c] = "value"
      /\ \A x \in Call : x # c => msg'[x] = msg[x] /\ pc'[x] = pc[x]
  BY <1>2 DEF TypeOK
<1>4. c \notin Writers
  BY <1>2 DEF Writers, InFlight
<1>5. \A x \in Call : x # c => (x \in Writers' <=> x \in Writers)
  BY <1>3 DEF Writers, InFlight
<1>6. c \in Writers' <=> Writes(op)
  BY <1>1, <1>3 DEF Writers, InFlight
<1>7. clashed \subseteq clashed' /\ crowded \subseteq crowded'
  BY DEF Start, Begun
<1>8. \A x \in Writers : Writes(op) =>
        /\ x \in crowded' /\ c \in crowded'
        /\ msg[x].key = k => x \in clashed' /\ c \in clashed'
  BY DEF Start, Begun
<1>9. /\ stored' \in [Key -> Call \cup {None, "gone"}]
      /\ Writes(op) => stored'[k] = None /\ listed'[k] = None
      /\ \A j \in Key : /\ stored'[j] \in {None, stored[j]}
                        /\ listed'[j] \in {None, listed[j]}
  BY DEF Start, Begun, TypeOK
<1>10. MeetingsNoted'
  <2> SUFFICES ASSUME NEW x \in Writers', NEW y \in Writers', x # y
               PROVE  x \in crowded' /\ (msg'[x].key = msg'[y].key => x \in clashed')
    BY DEF MeetingsNoted
  <2>1. x \in Call /\ y \in Call
    BY DEF Writers
  <2>2. CASE x # c /\ y # c
    BY <1>3, <1>5, <1>7, <2>1, <2>2 DEF BridgeInv, MeetingsNoted
  <2>3. CASE x = c \/ y = c
    BY <1>1, <1>3, <1>5, <1>6, <1>8, <2>1, <2>3
  <2> QED BY <2>2, <2>3
<1>11. WrittenIsOpen'
  <2> SUFFICES ASSUME NEW x \in Writers'
               PROVE  stored'[msg'[x].key] = None /\ listed'[msg'[x].key] = None
    BY DEF WrittenIsOpen
  <2>1. x \in Call
    BY DEF Writers
  <2>2. CASE x = c
    BY <1>1, <1>3, <1>6, <1>9, <2>2
  <2>3. CASE x # c
    BY <1>3, <1>5, <1>9, <2>1, <2>3, WriterFacts
  <2> QED BY <2>2, <2>3
<1>12. ASSUME NEW x \in Call PROVE HandlerOK(x)'
  <2>1. CASE x = c
    BY <1>3, <2>1 DEF HandlerOK
  <2>2. CASE x # c
    BY <1>2, <1>3, <1>7, <1>9, <2>2, BridgeType DEF BridgeInv, HandlerOK
  <2> QED BY <2>1, <2>2
<1>13. AckedStored' /\ AckedListed'
  BY <1>2, <1>9, BridgeType DEF BridgeInv, AckedStored, AckedListed
<1> QED BY <1>10, <1>11, <1>12, <1>13 DEF BridgeInv

\* A step of a handler that is not its last: its own call is open, so it may
\* change the value of its key.
LEMMA ProceedBridgeInv ==
  ASSUME TypeOK, BridgeInv, NEW c \in Writers, NEW next \in {"load", "save"},
         Proceed(c, next), index' = index,
         \A k \in Key : k # msg[c].key => value'[k] = value[k],
         \/ value'[msg[c].key] = (IF msg[c].op = "set" THEN c ELSE None)
         \/ pc[c] # "value" /\ value' = value,
         \A x \in Call : x # c => idx'[x] = idx[x],
         next = "save" =>
           /\ msg[c].key \in idx'[c] <=> msg[c].op = "set"
           /\ \A k \in Key : k # msg[c].key => (k \in idx'[c] <=> k \in index)
  PROVE  BridgeInv'
<1> DEFINE key == msg[c].key
<1>1. /\ UNCHANGED <<msg, clashed, crowded, stored, listed>>
      /\ pc' = [pc EXCEPT ![c] = next]
  BY DEF Proceed, history
<1>2. /\ c \in Call /\ InFlight(c) /\ key \in Key
      /\ stored[key] = None /\ listed[key] = None
  BY WriterFacts
<1>3. pc'[c] = next /\ \A x \in Call : x # c => pc'[x] = pc[x]
  BY <1>1, <1>2 DEF TypeOK
<1>4. Writers' = Writers
  BY <1>1, <1>2, <1>3 DEF Writers, InFlight
<1>5. MeetingsNoted' /\ WrittenIsOpen'
  BY <1>1, <1>4 DEF BridgeInv, MeetingsNoted, WrittenIsOpen
<1>6. HandlerOK(c)'
  <2>1. Writes(msg[c].op)
    BY DEF Writers
  <2>2. c \notin clashed => value'[key] = IF msg[c].op = "set" THEN c ELSE None
    BY <1>2 DEF BridgeInv, HandlerOK, InFlight
  <2>3. next = "save" => \A k \in Key : /\ listed[k] = "set" => k \in idx'[c]
                                        /\ listed[k] = "delete" => k \notin idx'[c]
    BY <1>2, BridgeType DEF BridgeInv, AckedListed
  <2> QED BY <1>1, <1>3, <2>1, <2>2, <2>3 DEF HandlerOK
<1>7. ASSUME NEW x \in Call, x # c PROVE HandlerOK(x)'
  <2>1. CASE pc[x] \in {"load", "save"}
    <3>1. x \in Writers
      BY <2>1, HandlersWrite
    <3>2. msg[x].key \in Key /\ (msg[x].key = key => x \in clashed)
      BY <1>7, <3>1, WriterFacts
    <3>3. x \notin clashed => value'[msg[x].key] = value[msg[x].key]
      BY <3>2
    <3> QED BY <1>1, <1>3, <1>7, <2>1, <3>3 DEF BridgeInv, HandlerOK
  <2>2. CASE pc[x] \notin {"load", "save"}
    BY <1>3, <1>7, <2>2 DEF HandlerOK
  <2> QED BY <2>1, <2>2
<1>8. AckedStored' /\ AckedListed'
  BY <1>1, <1>2, BridgeType DEF BridgeInv, AckedStored, AckedListed
<1> QED BY <1>5, <1>6, <1>7, <1>8 DEF BridgeInv

\* The end of a call: what is noted about its key is true, and nobody else is
\* writing there.
LEMMA AnswerBridgeInv ==
  ASSUME TypeOK, BridgeInv, NEW c \in Call, NEW outcome \in {"ok", "error"},
         InFlight(c), Answer(c, outcome), value' = value, idx' = idx,
         \A k \in Key : /\ listed[k] = "set" => k \in index'
                        /\ listed[k] = "delete" => k \notin index',
         (outcome = "ok" /\ Writes(msg[c].op)) =>
           /\ pc[c] \in {"load", "save"}
           /\ msg[c].key \in index' <=> msg[c].op = "set"
  PROVE  BridgeInv'
<1> DEFINE key == msg[c].key
           acked == outcome = "ok" /\ Writes(msg[c].op)
<1>1. /\ UNCHANGED <<msg, clashed, crowded>> /\ key \in Key
      /\ pc'[c] = "done" /\ \A x \in Call : x # c => pc'[x] = pc[x]
  BY MessageFields DEF Answer, Ended, InFlight, TypeOK
<1>2. \A j \in Key : stored'[j] # stored[j] =>
        /\ acked /\ c \notin clashed /\ j = key
        /\ stored'[j] = IF msg[c].op = "set" THEN c ELSE "gone"
  BY DEF Answer, Ended, TypeOK
<1>3. \A j \in Key : listed'[j] # listed[j] =>
        acked /\ c \notin crowded /\ j = key /\ listed'[j] = msg[c].op
  BY DEF Answer, Ended, TypeOK
<1>4. \A x \in Writers' : x \in Writers /\ x # c
  BY <1>1 DEF Writers, InFlight
<1>5. acked => c \in Writers
  BY DEF Writers
<1>6. \A x \in Writers' : acked =>
        c \in crowded /\ (msg[x].key = key => c \in clashed)
  BY <1>4, <1>5, WriterFacts
<1>7. MeetingsNoted'
  BY <1>1, <1>4 DEF BridgeInv, MeetingsNoted
<1>8. WrittenIsOpen'
  <2> SUFFICES ASSUME NEW x \in Writers'
               PROVE  stored'[msg[x].key] = None /\ listed'[msg[x].key] = None
    BY <1>1 DEF WrittenIsOpen
  <2>1. /\ msg[x].key \in Key
        /\ stored[msg[x].key] = None /\ listed[msg[x].key] = None
    BY <1>4, WriterFacts
  <2> QED BY <1>2, <1>3, <1>6, <2>1
<1>9. ASSUME NEW x \in Call PROVE HandlerOK(x)'
  <2>1. CASE x = c
    BY <1>1, <2>1 DEF HandlerOK
  <2>2. CASE x # c /\ pc[x] \in {"load", "save"}
    <3>1. x \in Writers'
      BY <1>1, <2>2, HandlersWrite DEF Writers, InFlight
    <3>2. \A j \in Key : listed'[j] = listed[j]
      BY <1>3, <1>6, <3>1
    <3> QED BY <1>1, <2>2, <3>2 DEF BridgeInv, HandlerOK
  <2>3. CASE x # c /\ pc[x] \notin {"load", "save"}
    BY <1>1, <2>3 DEF HandlerOK
  <2> QED BY <2>1, <2>2, <2>3
<1>10. AckedStored'
  <2>1. acked /\ c \notin clashed =>
          value[key] = IF msg[c].op = "set" THEN c ELSE None
    BY DEF BridgeInv, HandlerOK
  <2> QED BY <1>2, <2>1, BridgeType DEF BridgeInv, AckedStored
<1>11. AckedListed'
  BY <1>3 DEF AckedListed
<1> QED BY <1>7, <1>8, <1>9, <1>10, <1>11 DEF BridgeInv

LEMMA NextBridgeInv == TypeOK /\ BridgeInv /\ [Next]_vars => BridgeInv'
<1> SUFFICES ASSUME TypeOK, BridgeInv, [Next]_vars PROVE BridgeInv'
  OBVIOUS
<1>0. CASE UNCHANGED <<value, index, msg, pc, idx, history>>
  BY <1>0 DEF history, BridgeInv, MeetingsNoted, WrittenIsOpen, HandlerOK,
              AckedStored, AckedListed, Writers, InFlight
<1>1. ASSUME NEW c \in Call, Send(c) PROVE BridgeInv'
  <2>1. PICK op \in Op, k \in Key : Start(c, op, k, page, nextId)
    BY <1>1 DEF Send, FreshId
  <2>2. nextId \in Nat
    BY DEF TypeOK
  <2> QED BY <2>1, <2>2, StartBridgeInv
<1>2. ASSUME NEW c \in Call, CliSet(c) PROVE BridgeInv'
  <2>1. PICK k \in Key : Start(c, "set", k, 0, 0)
    BY <1>2 DEF CliSet
  <2>2. "set" \in Op
    BY DEF Op
  <2> QED BY <2>1, <2>2, StartBridgeInv
<1>3. ASSUME NEW c \in Call, SetValue(c) PROVE BridgeInv'
  <2>1. c \in Writers
    BY <1>3 DEF SetValue, Writers, InFlight, Writes
  <2>2. /\ value'[msg[c].key] = c
        /\ \A k \in Key : k # msg[c].key => value'[k] = value[k]
    BY <1>3, <2>1, WriterFacts DEF SetValue, TypeOK
  <2> QED BY <1>3, <2>1, <2>2, ProceedBridgeInv DEF SetValue
<1>4. ASSUME NEW c \in Call, DeleteValue(c) PROVE BridgeInv'
  <2>1. c \in Writers
    BY <1>4 DEF DeleteValue, Writers, InFlight, Writes
  <2>2. CASE value[msg[c].key] = None
    BY <1>4, <2>1, <2>2, WriterFacts, AnswerBridgeInv
       DEF DeleteValue, BridgeInv, AckedListed
  <2>3. CASE value[msg[c].key] # None
    <3>1. /\ value'[msg[c].key] = None
          /\ \A k \in Key : k # msg[c].key => value'[k] = value[k]
      BY <1>4, <2>1, <2>3, WriterFacts DEF DeleteValue, TypeOK
    <3> QED BY <1>4, <2>1, <2>3, <3>1, ProceedBridgeInv DEF DeleteValue
  <2> QED BY <2>2, <2>3
<1>5. ASSUME NEW c \in Call, Read(c) PROVE BridgeInv'
  <2>1. InFlight(c) /\ ~Writes(msg[c].op)
    BY <1>5 DEF Read, InFlight, Writes
  <2> QED BY <1>5, <2>1, AnswerBridgeInv DEF Read, BridgeInv, AckedListed
<1>6. ASSUME NEW c \in Call, LoadIndex(c) PROVE BridgeInv'
  <2>1. c \in Writers
    BY <1>6, HandlersWrite DEF LoadIndex
  <2>2. \A k \in Key : /\ k # msg[c].key => (k \in NewIndex(c) <=> k \in index)
                       /\ k = msg[c].key => (k \in NewIndex(c) <=> msg[c].op = "set")
    BY DEF NewIndex
  <2>3. CASE NewIndex(c) = index
    BY <1>6, <2>1, <2>2, <2>3, WriterFacts, AnswerBridgeInv
       DEF LoadIndex, BridgeInv, AckedListed
  <2>4. CASE NewIndex(c) # index
    <3>1. /\ idx'[c] = NewIndex(c)
          /\ \A x \in Call : x # c => idx'[x] = idx[x]
      BY <1>6, <2>4 DEF LoadIndex, TypeOK
    <3> QED BY <1>6, <2>1, <2>2, <2>4, <3>1, WriterFacts, ProceedBridgeInv
            DEF LoadIndex
  <2> QED BY <2>3, <2>4
<1>7. ASSUME NEW c \in Call, SaveIndex(c) PROVE BridgeInv'
  <2>1. InFlight(c) /\ HandlerOK(c)
    BY <1>7 DEF SaveIndex, InFlight, BridgeInv
  <2> QED BY <1>7, <2>1, AnswerBridgeInv DEF SaveIndex, HandlerOK
<1>8. ASSUME NEW c \in Call, RequestFails(c) PROVE BridgeInv'
  <2>1. InFlight(c) /\ HandlerOK(c) /\ AckedListed
    BY <1>8 DEF RequestFails, BridgeInv
  <2>2. \A k \in Key : /\ listed[k] = "set" => k \in index'
                       /\ listed[k] = "delete" => k \notin index'
    BY <1>8, <2>1 DEF RequestFails, HandlerOK, AckedListed
  <2> QED BY <1>8, <2>1, <2>2, AnswerBridgeInv DEF RequestFails, FailureOutcome
<1>9. \A c \in Call : Timeout(c) => UNCHANGED <<value, index, msg, pc, idx, history>>
  BY DEF Timeout
<1>10. Navigate => UNCHANGED <<value, index, msg, pc, idx, history>>
  BY DEF Navigate
<1>11. UNCHANGED vars => UNCHANGED <<value, index, msg, pc, idx, history>>
  BY DEF vars, history
<1> QED BY <1>0, <1>1, <1>2, <1>3, <1>4, <1>5, <1>6, <1>7, <1>8, <1>9, <1>10, <1>11
        DEF Next, Handle

LEMMA BridgeInvHolds == Spec => [](TypeOK /\ BridgeInv)
<1>1. Init => TypeOK /\ BridgeInv
  BY InitTypeOK, InitBridgeInv
<1>2. (TypeOK /\ BridgeInv) /\ [Next]_vars => (TypeOK /\ BridgeInv)'
  BY NextTypeOK, NextBridgeInv
<1> QED BY <1>1, <1>2, PTL DEF Spec

\* Whatever other keys, other pages, timeouts and failed requests do, the last
\* set or delete of a key that met no other on that key decides its value.
THEOREM AckedStoredHolds == Spec => []AckedStored
BY BridgeInvHolds, PTL DEF BridgeInv

\* And its entry in the index, if it met no other call that writes at all.
THEOREM AckedListedHolds == Spec => []AckedListed
BY BridgeInvHolds, PTL DEF BridgeInv

=============================================================================
