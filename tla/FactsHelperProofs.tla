--------------------------- MODULE FactsHelperProofs ---------------------------
(***************************************************************************)
(* Proofs about FactsHelper.  What carries them: while a worker holds the  *)
(* client only the latest request is open and only its answer bears its    *)
(* number; a question is loaded by one worker at a time, before the tables *)
(* know it; and a revision that was edited away never comes back.          *)
(***************************************************************************)
EXTENDS FactsHelper, TLAPS

Evidences ==
  [kind : {"evidence"}, about : Questions, bound : 0..MaxEdits, references : BOOLEAN]
Garbage == [kind |-> "garbage"]
Lines == [id : Nat, reply : Evidences \cup {Absent, Garbage}]
Requests == [id : Nat, about : Questions]

Elements(s) == {s[i] : i \in DOMAIN s}
OnTheWay == Elements(pipe) \cup Elements(answers)

Loading == {"load", "queued", "waiting", "store"}

(* A batch of references describes the planned text as long as the disk    *)
(* holds that.                                                             *)
Bound(e) ==
  e.kind = "evidence" /\ e.references =>
    e.about \in Files /\ (disk[e.about] = 0 => e.bound = 0)

ChannelTypes ==
  /\ disk \in [Files -> 0..MaxEdits] /\ psi \in [Files -> 0..MaxEdits]
  /\ edits \in 0..MaxEdits
  /\ helper \in {"starting", "serving", "gone"}
  /\ stdin \in Seq(Requests) /\ pipe \in Seq(Lines) /\ answers \in Seq(Lines)
  /\ nextId \in Nat /\ answered \in Nat

WorkerTypes ==
  /\ lock \in Workers \cup {None} /\ owners \in Workers \cup {None}
  /\ pc \in [Workers -> Locations]
  /\ question \in [Workers -> Questions \cup {None}]
  /\ wantsReference \in [Workers -> BOOLEAN]
  /\ pending \in [Workers -> Nat]
  /\ got \in [Workers -> Evidences \cup {Absent, Nothing}]
  /\ memo \in [Questions -> Evidences \cup {Unset, Nothing}]

Types == ChannelTypes /\ WorkerTypes

Control ==
  /\ \A w \in Workers :
       /\ lock = w <=> pc[w] = "waiting"
       /\ owners = w <=> pc[w] \in Loading /\ question[w] \in Owners
       /\ pc[w] # "idle" => question[w] \in Questions
       /\ pc[w] = "members" => question[w] \in Owners
       /\ question[w] \in Owners => ~ wantsReference[w]
  /\ \A v, w \in Workers :
       v # w /\ pc[v] # "idle" /\ pc[w] # "idle" /\ question[v] = question[w]
         => question[w] \in Owners

(* Requests and answers in step.                                           *)
Numbers ==
  /\ Len(stdin) <= 1 /\ Len(answers) <= 1
  /\ \A line \in OnTheWay : line.id < nextId
  /\ retired => /\ helper = "gone" /\ lock = None
                /\ stdin = << >> /\ OnTheWay = {}
                /\ nextId <= answered + 1
  /\ ~ retired /\ lock = None => stdin = << >> /\ nextId = answered
  /\ lock # None =>
       /\ pending[lock] + 1 = nextId /\ nextId = answered + 1
       /\ \A line \in OnTheWay :
            line.id = pending[lock] /\ line.reply.kind = "evidence"
              => line.reply.about = question[lock]
       /\ stdin # << >> =>
            /\ Head(stdin).id = pending[lock] /\ Head(stdin).about = question[lock]
            /\ \A line \in OnTheWay : line.id # pending[lock]

Tables ==
  /\ \A w \in Workers :
       /\ pc[w] # "store" => got[w] = Nothing
       /\ got[w].kind = "evidence" => got[w].about = question[w]
       /\ pc[w] \in Loading => memo[question[w]] = Unset
  /\ \A q \in Questions : memo[q].kind = "evidence" => memo[q].about = q

Descriptions ==
  /\ \A line \in OnTheWay : Bound(line.reply)
  /\ \A w \in Workers : Bound(got[w])
  /\ \A q \in Questions : Bound(memo[q])
  /\ ReferencesDescribePlannedText

Flag == retired \in BOOLEAN

IInv == Types /\ Flag /\ Control /\ Numbers /\ Tables /\ Descriptions

-------------------------------------------------------------------------------
(* Sequences as sets of lines.                                             *)

LEMMA TailElements ==
  ASSUME NEW S, NEW s \in Seq(S), s # << >>
  PROVE  /\ Tail(s) \in Seq(S) /\ Len(Tail(s)) = Len(s) - 1
         /\ Head(s) \in Elements(s) /\ Elements(Tail(s)) \subseteq Elements(s)
<1>1. \A i \in DOMAIN Tail(s) : Tail(s)[i] = s[i + 1] /\ i + 1 \in DOMAIN s
  OBVIOUS
<1>2. 1 \in DOMAIN s /\ Head(s) = s[1]
  OBVIOUS
<1>. QED BY <1>1, <1>2 DEF Elements

LEMMA ConcatElements ==
  ASSUME NEW S, NEW s \in Seq(S), NEW t \in Seq(S)
  PROVE  s \o t \in Seq(S) /\ Elements(s \o t) \subseteq Elements(s) \cup Elements(t)
<1>1. ASSUME NEW i \in DOMAIN (s \o t)
      PROVE  (s \o t)[i] \in Elements(s) \cup Elements(t)
  <2>1. CASE i <= Len(s)
    BY <2>1 DEF Elements
  <2>2. CASE i > Len(s)
    <3>1. i - Len(s) \in DOMAIN t /\ (s \o t)[i] = t[i - Len(s)]
      BY <2>2
    <3>. QED BY <3>1 DEF Elements
  <2>. QED BY <2>1, <2>2
<1>. QED BY <1>1 DEF Elements

LEMMA NoElements == Elements(<< >>) = {}
  BY DEF Elements

(* A line with one element.                                                *)
LEMMA OneElement == ASSUME NEW x PROVE Elements(<< x >>) = {x}
  BY DEF Elements

LEMMA ElementsTyped == ASSUME NEW S, NEW s \in Seq(S) PROVE Elements(s) \subseteq S
  BY DEF Elements

-------------------------------------------------------------------------------
LEMMA InitIInv == Init => IInv
<1>. SUFFICES ASSUME Init PROVE IInv
  OBVIOUS
<1>. USE FactsAssumption DEF Init
<1>1. Types
  <2>1. << >> \in Seq(Requests) /\ << >> \in Seq(Lines)
    OBVIOUS
  <2>2. 0 \in 0..MaxEdits /\ "idle" \in Locations
    BY DEF Locations
  <2>3. /\ pc \in [Workers -> Locations]
        /\ got \in [Workers -> Evidences \cup {Absent, Nothing}]
        /\ memo \in [Questions -> Evidences \cup {Unset, Nothing}]
    BY <2>2
  <2>. QED BY <2>1, <2>2, <2>3 DEF Types, ChannelTypes, WorkerTypes
<1>2. Control
  BY DEF Control, Loading
<1>3. OnTheWay = {}
  BY NoElements DEF OnTheWay
<1>4. Numbers
  BY <1>3 DEF Numbers
<1>5. Tables
  BY DEF Tables, Loading, Unset, Nothing
<1>6. Descriptions
  BY <1>3 DEF Descriptions, Bound, Unset, Nothing, ReferencesDescribePlannedText
<1>7. Flag
  BY Zenon DEF Flag
<1>. QED BY <1>1, <1>2, <1>4, <1>5, <1>6, <1>7 DEF IInv

LEMMA ReplyTyped ==
  ASSUME Types, NEW q \in Questions
  PROVE  Reply(q) \in Evidences /\ Reply(q).about = q /\ Reply(q).kind = "evidence" /\ Bound(Reply(q))
<1>. USE FactsAssumption
<1>1. CASE q \in Files
  BY <1>1 DEF Reply, Evidence, Evidences, Questions, Bound, Types, ChannelTypes, WorkerTypes
<1>2. CASE q \notin Files
  BY <1>2 DEF Reply, Evidence, Evidences, Questions, Bound, Types, ChannelTypes, WorkerTypes
<1>. QED BY <1>1, <1>2

(* What a working helper, and what a faulty one, writes for a request.     *)
Responses(request) ==
  LET line(reply) == [id |-> request.id, reply |-> reply]
  IN  { << line(Reply(request.about)) >>, << line(Absent) >>, << >>, << line(Garbage) >>,
        << line(Reply(request.about)), line(Reply(request.about)) >> }

LEMMA ResponsesTyped ==
  ASSUME Types, NEW request \in Requests, NEW lines \in Responses(request)
  PROVE  /\ lines \in Seq(Lines)
         /\ \A line \in Elements(lines) :
              /\ line.id = request.id
              /\ line.reply.kind = "evidence" => line.reply.about = request.about
              /\ Bound(line.reply)
<1>. DEFINE made(reply) == [id |-> request.id, reply |-> reply]
<1>1. request.id \in Nat /\ request.about \in Questions
  BY DEF Requests
<1>2. /\ Reply(request.about) \in Evidences /\ Reply(request.about).about = request.about
      /\ Bound(Reply(request.about))
  BY <1>1, ReplyTyped
<1>3. /\ made(Reply(request.about)) \in Lines /\ made(Absent) \in Lines /\ made(Garbage) \in Lines
  BY <1>1, <1>2 DEF Lines
<1>4. Bound(Absent) /\ Bound(Garbage) /\ Absent.kind # "evidence" /\ Garbage.kind # "evidence"
  BY DEF Bound, Absent, Garbage
<1>5. \A x \in {made(Reply(request.about)), made(Absent), made(Garbage)} :
        /\ x.id = request.id
        /\ x.reply.kind = "evidence" => x.reply.about = request.about
        /\ Bound(x.reply)
  <2>1. /\ made(Reply(request.about)).reply = Reply(request.about)
        /\ made(Absent).reply = Absent /\ made(Garbage).reply = Garbage
        /\ made(Reply(request.about)).id = request.id
        /\ made(Absent).id = request.id /\ made(Garbage).id = request.id
    OBVIOUS
  <2>. HIDE DEF made
  <2>. QED BY <1>2, <1>4, <2>1
<1>6. lines \in { << made(Reply(request.about)) >>, << made(Absent) >>, << >>, << made(Garbage) >>,
                  << made(Reply(request.about)), made(Reply(request.about)) >> }
  BY DEF Responses
<1>. HIDE DEF made
<1>7. lines \in Seq(Lines)
  <2>1. \A x \in Lines : << x >> \in Seq(Lines) /\ << x, x >> \in Seq(Lines)
    OBVIOUS
  <2>2. << >> \in Seq(Lines)
    OBVIOUS
  <2>. QED BY <1>3, <1>6, <2>1, <2>2
<1>8. Elements(lines) \subseteq {made(Reply(request.about)), made(Absent), made(Garbage)}
  BY <1>6 DEF Elements
<1>. QED BY <1>5, <1>7, <1>8

(* Every step of the helper process on a request is one of the responses.  *)
LEMMA ServeResponds ==
  ASSUME Types, Serve
  PROVE  /\ stdin # << >> /\ Head(stdin) \in Requests
         /\ \E lines \in Responses(Head(stdin)) : pipe' = pipe \o lines
<1>1. stdin # << >> /\ Head(stdin) \in Requests
  BY DEF Types, ChannelTypes, WorkerTypes, Serve
<1>. DEFINE request == Head(stdin)
            line(reply) == [id |-> request.id, reply |-> reply]
<1>2. \/ \E reply \in {Reply(request.about), Absent} : pipe' = pipe \o << line(reply) >>
      \/ \E lines \in { << >>, << line(Garbage) >>,
                        << line(Reply(request.about)), line(Reply(request.about)) >> } :
            pipe' = pipe \o lines
  BY DEF Serve, Writes, Garbage
<1>. QED BY <1>1, <1>2 DEF Responses

-------------------------------------------------------------------------------
(* The actions one by one.                                                 *)

LEMMA StepTypes == IInv /\ [Next]_vars => Types'
<1>. SUFFICES ASSUME IInv, [Next]_vars PROVE Types'
  OBVIOUS
<1>. USE FactsAssumption
<1>1. ASSUME NEW w \in Workers, NEW f \in Files, AskFile(w, f) PROVE Types'
  BY <1>1 DEF IInv, Types, ChannelTypes, WorkerTypes, AskFile, channel, tables, bounds, Locations, Questions
<1>2. ASSUME NEW w \in Workers, NEW o \in Owners, AskOwner(w, o) PROVE Types'
  BY <1>2 DEF IInv, Types, ChannelTypes, WorkerTypes, AskOwner, channel, tables, Locations, Questions
<1>3. ASSUME NEW w \in Workers, LockMembers(w) PROVE Types'
  BY <1>3 DEF IInv, Types, ChannelTypes, WorkerTypes, LockMembers, channel, bounds, Locations
<1>4. ASSUME NEW w \in Workers, Load(w) \/ TooLate(w) \/ Check(w) PROVE Types'
  BY <1>4 DEF IInv, Types, ChannelTypes, WorkerTypes, Load, TooLate, Check, channel, tables, bounds, Locations
<1>5. ASSUME NEW w \in Workers, Send(w) PROVE Types'
  <2>1. << >> \in Seq(Requests) /\ << >> \in Seq(Lines)
    OBVIOUS
  <2>2. [id |-> nextId, about |-> question[w]] \in Requests
    BY <1>5 DEF IInv, Types, ChannelTypes, Control, Send, Requests
  <2>3. Append(stdin, [id |-> nextId, about |-> question[w]]) \in Seq(Requests)
    BY <2>2 DEF IInv, Types, ChannelTypes
  <2>4. ChannelTypes'
    <3>1. CASE helper = "gone"
      BY <1>5, <2>1, <3>1 DEF IInv, Types, ChannelTypes, Send, Retire, bounds
    <3>2. CASE helper # "gone"
      <4>1. /\ stdin' = Append(stdin, [id |-> nextId, about |-> question[w]])
            /\ nextId' = nextId + 1
            /\ UNCHANGED <<disk, helper, psi, pipe, answers, answered, edits>>
        BY <1>5, <3>2 DEF Send, bounds
      <4>2. stdin' \in Seq(Requests)
        BY <2>3, <4>1
      <4>. QED BY <4>1, <4>2 DEF IInv, Types, ChannelTypes
    <3>. QED BY <3>1, <3>2
  <2>5. WorkerTypes'
    <3>1. nextId \in Nat /\ "store" \in Locations /\ "waiting" \in Locations
      BY DEF IInv, Types, ChannelTypes, Locations
    <3>2. CASE helper = "gone"
      BY <1>5, <3>1, <3>2 DEF IInv, Types, WorkerTypes, Send, tables
    <3>3. CASE helper # "gone"
      <4>1. /\ lock' = w /\ pending' = [pending EXCEPT ![w] = nextId]
            /\ pc' = [pc EXCEPT ![w] = "waiting"]
            /\ UNCHANGED <<owners, question, wantsReference, got, memo>>
        BY <1>5, <3>3 DEF Send, tables
      <4>. QED BY <3>1, <4>1 DEF IInv, Types, WorkerTypes
    <3>. QED BY <3>2, <3>3
  <2>. QED BY <2>4, <2>5 DEF Types
<1>6. ASSUME NEW w \in Workers, Receive(w) \/ Timeout(w) PROVE Types'
  <2>1. << >> \in Seq(Requests) /\ << >> \in Seq(Lines)
    OBVIOUS
  <2>2. answers # << >> => Head(answers) \in Lines /\ Tail(answers) \in Seq(Lines)
    BY DEF IInv, Types, ChannelTypes
  <2>3. ChannelTypes'
    <3>1. stdin' \in Seq(Requests) /\ pipe' \in Seq(Lines) /\ answers' \in Seq(Lines)
      BY <1>6, <2>1, <2>2 DEF IInv, Types, ChannelTypes, Receive, Timeout, Retire
    <3>2. helper' \in {"starting", "serving", "gone"} /\ answered' \in Nat /\ psi' = psi
      BY <1>6 DEF IInv, Types, ChannelTypes, Receive, Timeout, Retire
    <3>. QED BY <1>6, <3>1, <3>2 DEF IInv, Types, ChannelTypes, Receive, Timeout, bounds
  <2>4. Receive(w) /\ Accepted(w, Head(answers)) => Head(answers).reply \in Evidences \cup {Absent}
    BY <2>2 DEF Receive, Lines, Accepted, Garbage
  <2>5. got' \in [Workers -> Evidences \cup {Absent, Nothing}]
    BY <1>6, <2>4 DEF IInv, Types, WorkerTypes, Receive, Timeout
  <2>6. WorkerTypes'
    BY <1>6, <2>5 DEF IInv, Types, WorkerTypes, Receive, Timeout, tables, Locations
  <2>. QED BY <2>3, <2>6 DEF Types
<1>7. ASSUME NEW w \in Workers, Store(w) PROVE Types'
  <2>1. question[w] \in Questions
    BY <1>7 DEF IInv, Control, Store
  <2>2. Remembered(w) \in Evidences \cup {Unset, Nothing}
    BY <2>1 DEF IInv, Types, ChannelTypes, WorkerTypes, Remembered, Evidences, Absent, Nothing
  <2>3. owners' \in Workers \cup {None}
    BY <1>7 DEF IInv, Types, ChannelTypes, WorkerTypes, Store
  <2>. QED BY <1>7, <2>2, <2>3 DEF IInv, Types, ChannelTypes, WorkerTypes, Store, channel, bounds, Locations
<1>8. ASSUME OpenSession \/ Exit PROVE Types'
  BY <1>8 DEF IInv, Types, ChannelTypes, WorkerTypes, OpenSession, Exit, tables, bounds
<1>9. ASSUME Serve PROVE Types'
  <2>1. PICK lines \in Responses(Head(stdin)) : pipe' = pipe \o lines
    BY <1>9, ServeResponds DEF IInv
  <2>2. lines \in Seq(Lines)
    BY <1>9, ServeResponds, ResponsesTyped DEF IInv
  <2>3. pipe' \in Seq(Lines)
    BY <2>1, <2>2 DEF IInv, Types, ChannelTypes, WorkerTypes
  <2>4. stdin' \in Seq(Requests)
    BY <1>9 DEF IInv, Types, ChannelTypes, WorkerTypes, Serve
  <2>. QED BY <1>9, <2>3, <2>4 DEF IInv, Types, ChannelTypes, WorkerTypes, Serve, tables
<1>10. ASSUME Read PROVE Types'
  <2>1. Head(pipe) \in Lines /\ Tail(pipe) \in Seq(Lines)
    BY <1>10 DEF IInv, Types, ChannelTypes, WorkerTypes, Read
  <2>2. answers' \in Seq(Lines) /\ pipe' \in Seq(Lines)
    BY <1>10, <2>1 DEF Read
  <2>. QED BY <1>10, <2>2 DEF IInv, Types, ChannelTypes, WorkerTypes, Read, tables, bounds
<1>11. ASSUME UserEdit PROVE Types'
  BY <1>11 DEF IInv, Types, ChannelTypes, WorkerTypes, UserEdit, channel, tables
<1>12. CASE UNCHANGED vars
  BY <1>12 DEF IInv, Types, ChannelTypes, WorkerTypes, vars, channel, tables, bounds
<1>. QED BY <1>1, <1>2, <1>3, <1>4, <1>5, <1>6, <1>7, <1>8, <1>9, <1>10, <1>11, <1>12
         DEF Next, Work

LEMMA StepFlag == IInv /\ [Next]_vars => Flag'
<1>. SUFFICES ASSUME IInv, [Next]_vars PROVE Flag'
  OBVIOUS
<1>1. retired' = TRUE \/ retired' = retired
  <2>1. ASSUME NEW w \in Workers, NEW q, AskFile(w, q) \/ AskOwner(w, q)
        PROVE  retired' = retired
    BY <2>1, Zenon DEF AskFile, AskOwner
  <2>2. ASSUME NEW w \in Workers, Work(w) PROVE retired' = TRUE \/ retired' = retired
    BY <2>2, Zenon DEF Work, LockMembers, Load, TooLate, Send, Receive, Timeout, Retire, Store, Check
  <2>3. OpenSession \/ Serve \/ Exit \/ Read \/ UserEdit => retired' = retired
    BY Zenon DEF OpenSession, Serve, Exit, Read, UserEdit
  <2>4. UNCHANGED vars => retired' = retired
    BY Zenon DEF vars
  <2>. QED BY <2>1, <2>2, <2>3, <2>4, Zenon DEF Next
<1>. QED BY <1>1, Zenon DEF IInv, Flag

(* The steps of a worker with the variables Control is about.              *)
LEMMA StepControl == IInv /\ [Next]_vars => Control'
<1>. SUFFICES ASSUME IInv, [Next]_vars PROVE Control'
  OBVIOUS
<1>. USE FactsAssumption DEF Loading
<1>1. ASSUME NEW w \in Workers, NEW f \in Files, AskFile(w, f) PROVE Control'
  <2>1. f \in Questions /\ f \notin Owners
    BY DEF Questions
  <2>. QED BY <1>1, <2>1 DEF IInv, Types, WorkerTypes, Control, AskFile, tables
<1>2. ASSUME NEW w \in Workers, NEW o \in Owners, AskOwner(w, o) PROVE Control'
  BY <1>2 DEF IInv, Types, WorkerTypes, Control, AskOwner, tables, Questions
<1>3. ASSUME NEW w \in Workers, LockMembers(w) PROVE Control'
  BY <1>3 DEF IInv, Types, WorkerTypes, Control, LockMembers
<1>4. ASSUME NEW w \in Workers, Load(w) \/ TooLate(w) \/ Check(w) PROVE Control'
  BY <1>4 DEF IInv, Types, WorkerTypes, Control, Load, TooLate, Check, tables
<1>5. ASSUME NEW w \in Workers, Send(w) PROVE Control'
  <2>1. /\ pc[w] = "queued" /\ lock = None
        /\ UNCHANGED <<question, wantsReference, owners>>
        /\ \/ pc' = [pc EXCEPT ![w] = "store"] /\ lock' = lock
           \/ pc' = [pc EXCEPT ![w] = "waiting"] /\ lock' = w
    BY <1>5 DEF Send, tables
  <2>. QED BY <2>1 DEF IInv, Types, WorkerTypes, Control
<1>6. ASSUME NEW w \in Workers, Receive(w) \/ Timeout(w) PROVE Control'
  BY <1>6 DEF IInv, Types, WorkerTypes, Control, Receive, Timeout, tables
<1>7. ASSUME NEW w \in Workers, Store(w) PROVE Control'
  BY <1>7 DEF IInv, Types, WorkerTypes, Control, Store
<1>8. ASSUME OpenSession \/ Serve \/ Exit \/ Read \/ UserEdit \/ UNCHANGED vars PROVE Control'
  BY <1>8 DEF IInv, Control, OpenSession, Serve, Exit, Read, UserEdit, vars, tables
<1>. QED BY <1>1, <1>2, <1>3, <1>4, <1>5, <1>6, <1>7, <1>8 DEF Next, Work

(* Lines on the way, and the one request the helper may not have read.     *)
LEMMA StepNumbers == IInv /\ [Next]_vars => Numbers'
<1>. SUFFICES ASSUME IInv, [Next]_vars PROVE Numbers'
  OBVIOUS
<1>. USE FactsAssumption
<1>0. /\ stdin \in Seq(Requests) /\ pipe \in Seq(Lines) /\ answers \in Seq(Lines)
      /\ OnTheWay \subseteq Lines /\ nextId \in Nat /\ answered \in Nat
      /\ lock \in Workers \cup {None}
      /\ \A line \in OnTheWay : line.id \in Nat
  <2>1. OnTheWay \subseteq Lines
    BY ElementsTyped DEF IInv, Types, ChannelTypes, OnTheWay
  <2>. QED BY <2>1 DEF IInv, Types, ChannelTypes, WorkerTypes, Lines
<1>1. ASSUME NEW w \in Workers, NEW q, AskFile(w, q) \/ AskOwner(w, q) PROVE Numbers'
  <2>1. /\ pc[w] = "idle"
        /\ question' = [question EXCEPT ![w] = q]
        /\ UNCHANGED <<helper, stdin, pipe, answers, retired, lock, nextId, answered, pending>>
    BY <1>1 DEF AskFile, AskOwner, channel
  <2>2. lock # w /\ OnTheWay' = OnTheWay
    BY <2>1 DEF IInv, Control, OnTheWay
  <2>3. lock # None => question'[lock] = question[lock]
    BY <1>0, <2>1, <2>2 DEF IInv, Types, WorkerTypes
  <2>. QED BY <2>1, <2>2, <2>3 DEF IInv, Numbers
<1>2. ASSUME NEW w \in Workers, LockMembers(w) \/ Load(w) \/ TooLate(w) \/ Check(w) PROVE Numbers'
  <2>1. UNCHANGED <<helper, stdin, pipe, answers, retired, lock, nextId, answered, pending, question>>
    BY <1>2 DEF LockMembers, Load, TooLate, Check, channel
  <2>. QED BY <2>1 DEF IInv, Numbers, OnTheWay
<1>3. ASSUME NEW w \in Workers, Store(w) PROVE Numbers'
  <2>1. /\ pc[w] = "store" /\ pending' = [pending EXCEPT ![w] = 0]
        /\ UNCHANGED <<helper, stdin, pipe, answers, retired, lock, nextId, answered, question>>
    BY <1>3 DEF Store, channel
  <2>2. lock # w /\ OnTheWay' = OnTheWay
    BY <2>1 DEF IInv, Control, OnTheWay
  <2>3. lock # None => pending'[lock] = pending[lock]
    BY <1>0, <2>1, <2>2 DEF IInv, Types, WorkerTypes
  <2>. QED BY <2>1, <2>2, <2>3 DEF IInv, Numbers
<1>4. ASSUME NEW w \in Workers, Send(w) PROVE Numbers'
  <2>1. lock = None /\ ~ retired /\ nextId' = nextId + 1 /\ UNCHANGED <<answered, question>>
    BY <1>4 DEF Send
  <2>2. nextId = answered /\ stdin = << >>
    BY <2>1 DEF IInv, Numbers
  <2>3. CASE helper = "gone"
    <3>1. /\ helper' = "gone" /\ stdin' = << >> /\ pipe' = << >> /\ answers' = << >>
          /\ retired' = TRUE /\ lock' = lock
      BY <1>4, <2>3 DEF Send, Retire
    <3>2. OnTheWay' = {}
      BY <3>1, NoElements DEF OnTheWay
    <3>. QED BY <1>0, <2>1, <2>2, <3>1, <3>2 DEF Numbers
  <2>4. CASE helper # "gone"
    <3>. DEFINE request == [id |-> nextId, about |-> question[w]]
    <3>1. /\ stdin' = Append(stdin, request) /\ lock' = w
          /\ pending' = [pending EXCEPT ![w] = nextId]
          /\ UNCHANGED <<helper, psi, pipe, answers, retired>>
      BY <1>4, <2>4 DEF Send
    <3>2. stdin' = << request >>
      BY <2>2, <3>1
    <3>3. Len(stdin') = 1 /\ Head(stdin').id = nextId /\ Head(stdin').about = question[w]
      BY <3>2
    <3>4. OnTheWay' = OnTheWay /\ pending'[w] = nextId /\ w # None
      BY <3>1 DEF OnTheWay, IInv, Types, WorkerTypes
    <3>5. \A line \in OnTheWay' : line.id < nextId /\ line.id \in Nat
      BY <1>0, <3>4 DEF IInv, Numbers
    <3>6. Len(answers') <= 1 /\ ~ retired'
      BY <2>1, <3>1 DEF IInv, Numbers
    <3>. QED BY <1>0, <2>1, <2>2, <3>1, <3>3, <3>4, <3>5, <3>6 DEF Numbers
  <2>. QED BY <2>3, <2>4
<1>5. ASSUME NEW w \in Workers, Receive(w) \/ Timeout(w) PROVE Numbers'
  <2>1. lock = w /\ w # None /\ lock' = None /\ nextId' = nextId
    BY <1>5 DEF IInv, Control, Receive, Timeout
  <2>2. pending[w] + 1 = nextId /\ nextId = answered + 1
    BY <2>1 DEF IInv, Numbers
  <2>3. CASE Retire /\ answered' = answered
    <3>1. /\ helper' = "gone" /\ stdin' = << >> /\ pipe' = << >> /\ answers' = << >>
          /\ retired' = TRUE
      BY <2>3 DEF Retire
    <3>2. OnTheWay' = {}
      BY <3>1, NoElements DEF OnTheWay
    <3>. QED BY <1>0, <2>1, <2>2, <2>3, <3>1, <3>2 DEF Numbers
  <2>4. CASE /\ answers # << >> /\ Accepted(w, Head(answers))
             /\ answered' = answered + 1 /\ answers' = Tail(answers)
             /\ UNCHANGED <<helper, psi, stdin, pipe, retired>>
    <3>1. Head(answers) \in OnTheWay /\ OnTheWay' \subseteq OnTheWay
      BY <1>0, <2>4, TailElements DEF OnTheWay
    <3>2. stdin = << >>
      BY <2>1, <2>4, <3>1 DEF IInv, Numbers, Accepted
    <3>3. Len(answers') <= 1
      BY <1>0, <2>4, TailElements DEF IInv, Numbers
    <3>4. ~ retired
      BY <2>1 DEF IInv, Numbers
    <3>. QED BY <1>0, <2>1, <2>2, <2>4, <3>1, <3>2, <3>3, <3>4 DEF IInv, Numbers
  <2>. QED BY <1>5, <2>3, <2>4 DEF Receive, Timeout
<1>6. ASSUME Serve PROVE Numbers'
  <2>1. PICK lines \in Responses(Head(stdin)) : pipe' = pipe \o lines
    BY <1>6, ServeResponds DEF IInv
  <2>2. stdin # << >> /\ Head(stdin) \in Requests
    BY <1>6, ServeResponds DEF IInv
  <2>3. /\ lines \in Seq(Lines)
        /\ \A line \in Elements(lines) :
             /\ line.id = Head(stdin).id
             /\ line.reply.kind = "evidence" => line.reply.about = Head(stdin).about
    BY <2>2, ResponsesTyped DEF IInv
  <2>4. /\ stdin' = Tail(stdin)
        /\ UNCHANGED <<helper, answers, retired, lock, nextId, answered, pending, question>>
    BY <1>6 DEF Serve
  <2>5. ~ retired /\ lock # None
    BY <2>2 DEF IInv, Numbers
  <2>6. Head(stdin).id = pending[lock] /\ Head(stdin).about = question[lock]
    BY <2>2, <2>5 DEF IInv, Numbers
  <2>7. stdin' = << >>
    <3>1. Len(stdin) <= 1 /\ Tail(stdin) \in Seq(Requests) /\ Len(Tail(stdin)) = Len(stdin) - 1
      BY <1>0, <2>2, TailElements DEF IInv, Numbers
    <3>2. Len(Tail(stdin)) = 0
      BY <1>0, <3>1
    <3>3. \A s \in Seq(Requests) : Len(s) = 0 => s = << >>
      OBVIOUS
    <3>. QED BY <2>4, <3>1, <3>2, <3>3
  <2>8. OnTheWay' \subseteq OnTheWay \cup Elements(lines)
    BY <1>0, <2>1, <2>3, <2>4, ConcatElements DEF OnTheWay
  <2>9. pending[lock] + 1 = nextId /\ nextId = answered + 1 /\ pending[lock] \in Nat
    BY <1>0, <2>5 DEF IInv, Numbers, Types, WorkerTypes
  <2>10. \A line \in OnTheWay' : line.id < nextId
    BY <1>0, <2>3, <2>6, <2>8, <2>9 DEF IInv, Numbers
  <2>11. \A line \in OnTheWay' :
           line.id = pending[lock] /\ line.reply.kind = "evidence"
             => line.reply.about = question[lock]
    BY <2>3, <2>5, <2>6, <2>8 DEF IInv, Numbers
  <2>12. Len(answers') <= 1
    BY <2>4 DEF IInv, Numbers
  <2>13. Len(stdin') <= 1
    BY <2>7
  <2>. QED BY <2>4, <2>5, <2>7, <2>9, <2>10, <2>11, <2>12, <2>13 DEF Numbers
<1>7. ASSUME Read PROVE Numbers'
  <2>1. /\ pipe # << >> /\ answers = << >> /\ answers' = << Head(pipe) >> /\ pipe' = Tail(pipe)
        /\ UNCHANGED <<helper, stdin, retired, lock, nextId, answered, pending, question>>
    BY <1>7 DEF Read
  <2>2. OnTheWay' \subseteq OnTheWay /\ Len(answers') <= 1
    BY <1>0, <2>1, TailElements, OneElement DEF OnTheWay
  <2>. QED BY <2>1, <2>2 DEF IInv, Numbers
<1>8. ASSUME Exit \/ OpenSession PROVE Numbers'
  <2>1. UNCHANGED <<stdin, pipe, answers, retired, lock, nextId, answered, pending, question>>
    BY <1>8 DEF Exit, OpenSession
  <2>2. retired => helper' = "gone"
    BY <1>8 DEF Exit, OpenSession, IInv, Numbers
  <2>. QED BY <2>1, <2>2 DEF IInv, Numbers, OnTheWay
<1>9. ASSUME UserEdit \/ UNCHANGED vars PROVE Numbers'
  <2>1. UNCHANGED <<helper, stdin, pipe, answers, retired, lock, nextId, answered, pending, question>>
    BY <1>9 DEF UserEdit, vars, channel
  <2>. QED BY <2>1 DEF IInv, Numbers, OnTheWay
<1>. QED BY <1>1, <1>2, <1>3, <1>4, <1>5, <1>6, <1>7, <1>8, <1>9 DEF Next, Work

LEMMA StepTables == IInv /\ [Next]_vars => Tables'
<1>. SUFFICES ASSUME IInv, [Next]_vars PROVE Tables'
  OBVIOUS
<1>. USE FactsAssumption DEF Loading
<1>1. ASSUME NEW w \in Workers, NEW f \in Files, AskFile(w, f) PROVE Tables'
  <2>1. /\ question' = [question EXCEPT ![w] = f] /\ UNCHANGED <<got, memo>>
        /\ \/ pc' = [pc EXCEPT ![w] = "load"] /\ memo[f] = Unset
           \/ pc' = [pc EXCEPT ![w] = "check"]
        /\ pc[w] = "idle"
    BY <1>1 DEF AskFile, tables
  <2>2. got[w] = Nothing /\ Nothing.kind # "evidence"
    BY <2>1 DEF IInv, Tables, Nothing
  <2>. QED BY <2>1, <2>2 DEF IInv, Types, WorkerTypes, Tables
<1>2. ASSUME NEW w \in Workers, NEW o \in Owners, AskOwner(w, o) PROVE Tables'
  <2>1. /\ question' = [question EXCEPT ![w] = o] /\ UNCHANGED <<got, memo>>
        /\ pc' = [pc EXCEPT ![w] = "members"] /\ pc[w] = "idle"
    BY <1>2 DEF AskOwner, tables
  <2>2. got[w] = Nothing /\ Nothing.kind # "evidence"
    BY <2>1 DEF IInv, Tables, Nothing
  <2>. QED BY <2>1, <2>2 DEF IInv, Types, WorkerTypes, Tables
<1>3. ASSUME NEW w \in Workers, LockMembers(w) PROVE Tables'
  BY <1>3 DEF IInv, Types, WorkerTypes, Tables, LockMembers
<1>4. ASSUME NEW w \in Workers, Load(w) \/ TooLate(w) \/ Check(w) PROVE Tables'
  BY <1>4 DEF IInv, Types, WorkerTypes, Tables, Load, TooLate, Check, tables
<1>5. ASSUME NEW w \in Workers, Send(w) PROVE Tables'
  <2>1. /\ pc[w] = "queued" /\ UNCHANGED <<question, got, memo>>
        /\ \/ pc' = [pc EXCEPT ![w] = "store"]
           \/ pc' = [pc EXCEPT ![w] = "waiting"]
    BY <1>5 DEF Send, tables
  <2>. QED BY <2>1 DEF IInv, Types, WorkerTypes, Tables
<1>6. ASSUME NEW w \in Workers, Timeout(w) PROVE Tables'
  BY <1>6 DEF IInv, Types, WorkerTypes, Tables, Timeout, tables
<1>7. ASSUME NEW w \in Workers, Receive(w) PROVE Tables'
  <2>1. /\ pc[w] = "waiting" /\ pc' = [pc EXCEPT ![w] = "store"] /\ answers # << >>
        /\ UNCHANGED <<question, memo>>
        /\ \/ got' = got
           \/ /\ Accepted(w, Head(answers))
              /\ got' = [got EXCEPT ![w] = Head(answers).reply]
    BY <1>7 DEF Receive, tables
  <2>2. Head(answers) \in OnTheWay
    BY <2>1, TailElements DEF IInv, Types, ChannelTypes, OnTheWay
  <2>3. lock = w /\ w # None
    BY <2>1 DEF IInv, Control
  <2>4. Accepted(w, Head(answers)) /\ Head(answers).reply.kind = "evidence"
          => Head(answers).reply.about = question[w]
    BY <2>2, <2>3 DEF IInv, Numbers, Accepted
  <2>. QED BY <2>1, <2>4 DEF IInv, Types, WorkerTypes, Tables
<1>8. ASSUME NEW w \in Workers, Store(w) PROVE Tables'
  <2>1. /\ pc[w] = "store" /\ question[w] \in Questions
        /\ memo' = [memo EXCEPT ![question[w]] = Remembered(w)]
        /\ got' = [got EXCEPT ![w] = Nothing] /\ question' = question
        /\ \/ pc' = [pc EXCEPT ![w] = "check"] \/ pc' = [pc EXCEPT ![w] = "idle"]
    BY <1>8 DEF Store, IInv, Control
  <2>2. Remembered(w).kind = "evidence" => Remembered(w).about = question[w]
    BY <2>1 DEF IInv, Tables, Remembered, Nothing
  <2>3. \A v \in Workers : v # w /\ pc[v] \in Loading => question[v] # question[w]
    <3>1. ASSUME NEW v \in Workers, v # w, pc[v] \in Loading, question[v] = question[w]
          PROVE  FALSE
      <4>1. question[w] \in Owners
        BY <2>1, <3>1 DEF IInv, Control
      <4>2. owners = v /\ owners = w
        BY <2>1, <3>1, <4>1 DEF IInv, Control
      <4>. QED BY <3>1, <4>2
    <3>. QED BY <3>1
  <2>4. \A q \in Questions : memo'[q] = IF q = question[w] THEN Remembered(w) ELSE memo[q]
    BY <2>1 DEF IInv, Types, WorkerTypes
  <2>5. \A v \in Workers : /\ got'[v] = IF v = w THEN Nothing ELSE got[v]
                           /\ v # w => pc'[v] = pc[v]
    BY <2>1 DEF IInv, Types, WorkerTypes
  <2>6. pc'[w] \notin Loading /\ Nothing.kind # "evidence"
    BY <2>1 DEF IInv, Types, WorkerTypes, Nothing
  <2>7. \A v \in Workers : pc[v] \in Loading => question[v] \in Questions
    BY DEF IInv, Control
  <2>. QED BY <2>1, <2>2, <2>3, <2>4, <2>5, <2>6, <2>7 DEF IInv, Tables
<1>9. ASSUME OpenSession \/ Serve \/ Exit \/ Read \/ UserEdit \/ UNCHANGED vars PROVE Tables'
  BY <1>9 DEF IInv, Tables, OpenSession, Serve, Exit, Read, UserEdit, vars, tables
<1>. QED BY <1>1, <1>2, <1>3, <1>4, <1>5, <1>6, <1>7, <1>8, <1>9 DEF Next, Work

(* What describes the planned text goes on doing so: an edit never brings  *)
(* a revision back.                                                        *)
LEMMA BoundStays ==
  ASSUME NEW e, Bound(e), \A f \in Files : disk'[f] = 0 => disk[f] = 0
  PROVE  Bound(e)'
  BY DEF Bound

LEMMA StepDescriptions == IInv /\ [Next]_vars => Descriptions'
<1>. SUFFICES ASSUME IInv, [Next]_vars PROVE Descriptions'
  OBVIOUS
<1>. USE FactsAssumption
<1>1. \A f \in Files : disk'[f] = 0 => disk[f] = 0
  <2>1. CASE UserEdit
    BY <2>1 DEF IInv, Types, ChannelTypes, UserEdit
  <2>2. CASE disk' = disk
    BY <2>2
  <2>3. UserEdit \/ disk' = disk
    BY DEF Next, Work, AskFile, AskOwner, LockMembers, Load, TooLate, Send, Receive, Timeout,
           Store, Check, OpenSession, Serve, Exit, Read, vars
  <2>. QED BY <2>1, <2>2, <2>3
<1>2. \A line \in OnTheWay' : Bound(line.reply)'
  <2>1. OnTheWay' \subseteq OnTheWay \/ Serve
    <3>1. CASE pipe' = << >> /\ answers' = << >>
      BY <3>1, NoElements DEF OnTheWay
    <3>2. CASE answers # << >> /\ answers' = Tail(answers) /\ pipe' = pipe
      BY <3>2, TailElements DEF OnTheWay, IInv, Types, ChannelTypes
    <3>3. CASE UNCHANGED <<pipe, answers>>
      BY <3>3 DEF OnTheWay
    <3>4. CASE Read
      BY <3>4, TailElements, OneElement DEF Read, OnTheWay, IInv, Types, ChannelTypes
    <3>5. ASSUME NEW w \in Workers, Send(w) \/ Receive(w) \/ Timeout(w)
          PROVE  \/ pipe' = << >> /\ answers' = << >>
                 \/ answers # << >> /\ answers' = Tail(answers) /\ pipe' = pipe
                 \/ UNCHANGED <<pipe, answers>>
      BY <3>5 DEF Send, Receive, Timeout, Retire
    <3>6. ASSUME NEW w \in Workers,
                 \/ LockMembers(w) \/ Load(w) \/ TooLate(w) \/ Store(w) \/ Check(w)
                 \/ \E q : AskFile(w, q) \/ AskOwner(w, q)
          PROVE  UNCHANGED <<pipe, answers>>
      BY <3>6 DEF LockMembers, Load, TooLate, Store, Check, AskFile, AskOwner, channel
    <3>7. OpenSession \/ Exit \/ UserEdit \/ UNCHANGED vars => UNCHANGED <<pipe, answers>>
      BY DEF OpenSession, Exit, UserEdit, vars, channel
    <3>. QED BY <3>1, <3>2, <3>3, <3>4, <3>5, <3>6, <3>7 DEF Next, Work
  <2>2. ASSUME Serve, NEW line \in OnTheWay' PROVE line \in OnTheWay \/ Bound(line.reply)
    <3>1. PICK lines \in Responses(Head(stdin)) : pipe' = pipe \o lines
      BY <2>2, ServeResponds DEF IInv
    <3>2. /\ lines \in Seq(Lines)
          /\ \A l \in Elements(lines) : Bound(l.reply)
      BY <2>2, ServeResponds, ResponsesTyped DEF IInv
    <3>3. OnTheWay' \subseteq OnTheWay \cup Elements(lines)
      BY <2>2, <3>1, <3>2, ConcatElements DEF OnTheWay, Serve, IInv, Types, ChannelTypes
    <3>. QED BY <3>2, <3>3
  <2>. QED BY <1>1, <2>1, <2>2, BoundStays DEF IInv, Descriptions
<1>3. \A w \in Workers : Bound(got'[w])
  <2>1. Bound(Nothing)
    BY DEF Bound, Nothing
  <2>2. ASSUME NEW v \in Workers, Receive(v) PROVE \A w \in Workers : Bound(got'[w])
    <3>1. answers # << >> => Head(answers) \in OnTheWay
      BY TailElements DEF IInv, Types, ChannelTypes, OnTheWay
    <3>. QED BY <2>2, <3>1 DEF Receive, IInv, Descriptions, Types, WorkerTypes
  <2>3. ASSUME NEW v \in Workers, Store(v) PROVE \A w \in Workers : Bound(got'[w])
    BY <2>1, <2>3 DEF Store, IInv, Descriptions, Types, WorkerTypes
  <2>4. \/ \E v \in Workers : Receive(v) \/ Store(v)
        \/ got' = got
    BY DEF Next, Work, AskFile, AskOwner, LockMembers, Load, TooLate, Send, Timeout, Check,
           OpenSession, Serve, Exit, Read, UserEdit, vars
  <2>. QED BY <2>2, <2>3, <2>4 DEF IInv, Descriptions
<1>4. \A q \in Questions : Bound(memo'[q])
  <2>1. ASSUME NEW v \in Workers, Store(v) PROVE \A q \in Questions : Bound(memo'[q])
    <3>1. question[v] \in Questions
      BY <2>1 DEF Store, IInv, Control
    <3>2. Bound(Nothing)
      BY DEF Bound, Nothing
    <3>3. Bound(Remembered(v))
      BY <3>1, <3>2 DEF Remembered, IInv, Descriptions
    <3>. QED BY <2>1, <3>1, <3>3 DEF Store, IInv, Descriptions, Types, WorkerTypes
  <2>2. (\E v \in Workers : Store(v)) \/ memo' = memo
    BY DEF Next, Work, AskFile, AskOwner, LockMembers, Load, TooLate, Send, Receive, Timeout, Check,
           OpenSession, Serve, Exit, Read, UserEdit, vars, tables
  <2>. QED BY <2>1, <2>2 DEF IInv, Descriptions
<1>5. ReferencesDescribePlannedText'
  <2>1. ASSUME NEW w \in Workers, Check(w) PROVE ReferencesDescribePlannedText'
    <3>1. question[w] \in Questions
      BY <2>1 DEF Check, IInv, Control
    <3>2. memo[question[w]].kind = "evidence" => memo[question[w]].about = question[w]
      BY <3>1 DEF IInv, Tables
    <3>3. StillPlanned(w) => memo[question[w]].bound = 0
      BY <3>1, <3>2 DEF StillPlanned, IInv, Descriptions, Bound
    <3>. QED BY <2>1, <3>3 DEF Check, IInv, Descriptions, ReferencesDescribePlannedText
  <2>2. (\E w \in Workers : Check(w)) \/ trusted' = trusted
    BY DEF Next, Work, AskFile, AskOwner, LockMembers, Load, TooLate, Send, Receive, Timeout, Store,
           OpenSession, Serve, Exit, Read, UserEdit, vars
  <2>. QED BY <2>1, <2>2 DEF IInv, Descriptions, ReferencesDescribePlannedText
<1>6. /\ \A w \in Workers : Bound(got[w])'
      /\ \A q \in Questions : Bound(memo[q])'
  BY <1>1, <1>3, <1>4 DEF Bound
<1>. QED BY <1>2, <1>5, <1>6 DEF Descriptions

-------------------------------------------------------------------------------
LEMMA Exchange == Spec => []IInv
<1>1. IInv /\ [Next]_vars => IInv'
  BY StepTypes, StepFlag, StepControl, StepNumbers, StepTables, StepDescriptions DEF IInv
<1>. QED BY InitIInv, <1>1, PTL DEF Spec

(* Requests and answers stay in step whatever the helper repeats, delays,  *)
(* garbles or omits and however many workers ask: what a worker takes and  *)
(* the tables keep answers the question, and at most one request is in     *)
(* vain.                                                                   *)
THEOREM ExchangeStaysConsistent == Spec => []ExchangeConsistent
<1>1. IInv => ExchangeConsistent
  <2>. SUFFICES ASSUME IInv PROVE ExchangeConsistent
    OBVIOUS
  <2>1. AnswersMatchQuestions
    BY DEF IInv, Tables, AnswersMatchQuestions
  <2>2. OneRequestInVain
    <3>1. CASE retired
      BY <3>1 DEF IInv, Numbers, OneRequestInVain
    <3>2. CASE ~ retired /\ lock = None
      BY <3>2 DEF IInv, Numbers, OneRequestInVain, Types, ChannelTypes
    <3>3. CASE lock # None
      BY <3>3 DEF IInv, Numbers, OneRequestInVain, Types, ChannelTypes
    <3>. QED BY <3>1, <3>2, <3>3
  <2>3. \A q \in Questions : memo[q].kind \in {"unset", "none", "evidence"}
    BY DEF IInv, Types, WorkerTypes, Evidences, Unset, Nothing
  <2>4. TypeOK
    <3>1. retired => helper = "gone"
      BY DEF IInv, Numbers
    <3>2. \A w \in Workers :
            /\ pc[w] \in Locations /\ question[w] \in Questions \cup {None}
            /\ lock = w <=> pc[w] = "waiting"
            /\ owners = w <=> pc[w] \in {"load", "queued", "waiting", "store"} /\ question[w] \in Owners
      BY DEF IInv, Types, WorkerTypes, Control, Loading
    <3>3. /\ disk \in [Files -> 0..MaxEdits] /\ psi \in [Files -> 0..MaxEdits]
          /\ helper \in {"starting", "serving", "gone"}
          /\ Len(stdin) <= 1 /\ Len(answers) <= 1
      BY DEF IInv, Types, ChannelTypes, Numbers
    <3>. QED BY <2>3, <3>1, <3>2, <3>3, Zenon DEF TypeOK, IInv, Flag
  <2>. QED BY <2>1, <2>2, <2>4 DEF ExchangeConsistent
<1>. QED BY <1>1, Exchange, PTL

(* A question is loaded by one worker at a time and only while the tables  *)
(* know nothing, so nothing learned is ever replaced.                      *)
THEOREM EvidenceIsKept == Spec => EvidenceStays
<1>. DEFINE Learned(q) == memo[q].kind = "evidence" \/ (q \in Owners /\ memo[q] # Unset)
            Kept == \A q \in Questions : Learned(q) => memo'[q] = memo[q]
<1>1. IInv /\ [Next]_vars => [Kept]_vars
  <2>. SUFFICES ASSUME IInv, [Next]_vars PROVE Kept
    OBVIOUS
  <2>1. ASSUME NEW w \in Workers, Store(w) PROVE Kept
    <3>1. question[w] \in Questions /\ memo[question[w]] = Unset
      BY <2>1 DEF Store, IInv, Control, Tables, Loading
    <3>2. ~ Learned(question[w])
      BY <3>1 DEF Unset
    <3>3. \A q \in Questions : q # question[w] => memo'[q] = memo[q]
      BY <2>1 DEF Store, IInv, Types, WorkerTypes
    <3>. QED BY <3>2, <3>3
  <2>2. (\E w \in Workers : Store(w)) \/ memo' = memo
    BY DEF Next, Work, AskFile, AskOwner, LockMembers, Load, TooLate, Send, Receive, Timeout, Check,
           OpenSession, Serve, Exit, Read, UserEdit, vars, tables
  <2>. QED BY <2>1, <2>2
<1>2. EvidenceStays <=> [][Kept]_vars
  BY DEF EvidenceStays
<1>. HIDE DEF Kept
<1>. QED BY <1>1, <1>2, Exchange, PTL DEF Spec

(* The window between the hash and the session is closed for references: a *)
(* revision that was edited away never comes back, so what the last look   *)
(* finds on disk was there when the helper compared.                       *)
THEOREM ReferencesStayPlanned == Spec => []ReferencesDescribePlannedText
<1>1. IInv => ReferencesDescribePlannedText
  BY DEF IInv, Descriptions
<1>. QED BY <1>1, Exchange, PTL

=================================================================================
