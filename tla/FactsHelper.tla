------------------------------ MODULE FactsHelper ------------------------------
(***************************************************************************)
(* The JVM facts of a run (facts/runtime.rs, client.rs, classpath.rs): one *)
(* helper process behind a mutex, a reader thread that turns its output    *)
(* into a queue with a deadline, and two memo tables.  Planning workers    *)
(* ask it for the call sites and property references of a Kotlin file and  *)
(* for the members of a class, while the user may edit files on disk.  The *)
(* text being planned is revision 0 of every file.                         *)
(***************************************************************************)
EXTENDS Naturals, Sequences

CONSTANTS
  Workers,      \* threads that plan files
  Files,        \* Kotlin files of the run
  Owners,       \* classes of the class path
  None,
  MaxAsks,      \* bound on questions the memo tables do not answer
  MaxFaults,    \* bound on what the helper does wrong
  MaxEdits      \* bound on edits of the user; an edit never restores a text

ASSUME FactsAssumption ==
  /\ Files \cap Owners = {}
  /\ None \notin Workers \cup Files \cup Owners
  /\ MaxAsks \in Nat /\ MaxFaults \in Nat /\ MaxEdits \in Nat

Questions == Files \cup Owners

VARIABLES
  disk,         \* file -> the revision on disk
  helper,       \* "starting", "serving" or "gone"
  psi,          \* file -> the revision the helper's session was built from
  stdin,        \* requests the helper has not read
  pipe,         \* lines the reader thread has not read
  answers,      \* the queue between the reader and the client
  retired,      \* the client is dropped and `dead` is set
  lock,         \* worker that holds the client
  owners,       \* worker that holds the member table
  nextId,
  answered,     \* requests whose answer was accepted
  memo,         \* question -> Unset or what the run knows
  pc, question, wantsReference, pending, got,    \* of each worker
  trusted,      \* <<file, revision>>: the property references handed out
  asks, faults, edits

channel == <<helper, psi, stdin, pipe, answers>>
tables == <<memo, owners>>
bounds == <<asks, faults, edits>>
vars == <<disk, channel, retired, lock, tables, nextId, answered, pc, question, wantsReference,
          pending, got, trusted, bounds>>

Unset == [kind |-> "unset"]
Nothing == [kind |-> "none"]
Absent == [kind |-> "absent"]
Evidence(q, bound, references) ==
  [kind |-> "evidence", about |-> q, bound |-> bound, references |-> references]

Init ==
  /\ disk = [f \in Files |-> 0]
  /\ helper = "starting"
  /\ psi = [f \in Files |-> 0]
  /\ stdin = << >> /\ pipe = << >> /\ answers = << >>
  /\ retired = FALSE
  /\ lock = None /\ owners = None
  /\ nextId = 0 /\ answered = 0
  /\ memo = [q \in Questions |-> Unset]
  /\ pc = [w \in Workers |-> "idle"]
  /\ question = [w \in Workers |-> None]
  /\ wantsReference = [w \in Workers |-> FALSE]
  /\ pending = [w \in Workers |-> 0]
  /\ got = [w \in Workers |-> Nothing]
  /\ trusted = {}
  /\ asks = 0 /\ faults = 0 /\ edits = 0

-------------------------------------------------------------------------------
(* The questions of a worker.                                              *)

(* call_site_at and source_property_reference_at refuse when the text is   *)
(* not the one on disk; a file is planned by one worker at a time.  Asks   *)
(* that a recorded answer meets at once are left out.                      *)
AskFile(w, f) ==
  /\ pc[w] = "idle"
  /\ \A v \in Workers : pc[v] # "idle" => question[v] # f
  /\ disk[f] = 0
  /\ \E reference \in BOOLEAN :
       /\ wantsReference' = [wantsReference EXCEPT ![w] = reference]
       /\ \/ /\ memo[f] = Unset
             /\ asks < MaxAsks
             /\ asks' = asks + 1
             /\ pc' = [pc EXCEPT ![w] = "load"]
          \/ /\ memo[f] # Unset
             /\ reference
             /\ UNCHANGED asks
             /\ pc' = [pc EXCEPT ![w] = "check"]
  /\ question' = [question EXCEPT ![w] = f]
  /\ UNCHANGED <<disk, channel, retired, lock, tables, nextId, answered, pending, got, trusted,
                 faults, edits>>

AskOwner(w, o) ==
  /\ pc[w] = "idle"
  /\ asks < MaxAsks
  /\ asks' = asks + 1
  /\ pc' = [pc EXCEPT ![w] = "members"]
  /\ question' = [question EXCEPT ![w] = o]
  /\ wantsReference' = [wantsReference EXCEPT ![w] = FALSE]
  /\ UNCHANGED <<disk, channel, retired, lock, tables, nextId, answered, pending, got, trusted,
                 faults, edits>>

MutantLoadUnlocked(w) ==
  /\ pc[w] = "members"
  /\ owners = None
  /\ pc' = [pc EXCEPT ![w] = IF memo[question[w]] = Unset THEN "load" ELSE "idle"]
  /\ UNCHANGED <<disk, channel, retired, lock, tables, nextId, answered, question, wantsReference,
                 pending, got, trusted, bounds>>

(* ClasspathFacts::members keeps its table locked while it loads.          *)
LockMembers(w) ==
  /\ pc[w] = "members"
  /\ owners = None
  /\ IF memo[question[w]] = Unset
     THEN owners' = w /\ pc' = [pc EXCEPT ![w] = "load"]
     ELSE owners' = owners /\ pc' = [pc EXCEPT ![w] = "idle"]
  /\ UNCHANGED <<disk, channel, retired, lock, memo, nextId, answered, question, wantsReference,
                 pending, got, trusted, bounds>>

(* The flag is read before the client is locked; it may be stale by then.  *)
Load(w) ==
  /\ pc[w] = "load"
  /\ pc' = [pc EXCEPT ![w] = IF retired THEN "store" ELSE "queued"]
  /\ UNCHANGED <<disk, channel, retired, lock, tables, nextId, answered, question, wantsReference,
                 pending, got, trusted, bounds>>

(* The client is dropped with its queue, and the child killed.             *)
Retire ==
  /\ retired' = TRUE
  /\ helper' = "gone"
  /\ stdin' = << >> /\ pipe' = << >> /\ answers' = << >>
  /\ UNCHANGED psi

(* The client lock was taken after another worker had dropped the client.  *)
TooLate(w) ==
  /\ pc[w] = "queued"
  /\ lock = None
  /\ retired
  /\ pc' = [pc EXCEPT ![w] = "store"]
  /\ UNCHANGED <<disk, channel, retired, lock, tables, nextId, answered, question, wantsReference,
                 pending, got, trusted, bounds>>

Send(w) ==
  /\ pc[w] = "queued"
  /\ lock = None
  /\ ~ retired
  /\ nextId' = nextId + 1
  /\ IF helper = "gone"
     THEN /\ Retire
          /\ pc' = [pc EXCEPT ![w] = "store"]
          /\ UNCHANGED <<lock, pending>>
     ELSE /\ stdin' = Append(stdin, [id |-> nextId, about |-> question[w]])
          /\ lock' = w
          /\ pending' = [pending EXCEPT ![w] = nextId]
          /\ pc' = [pc EXCEPT ![w] = "waiting"]
          /\ UNCHANGED <<helper, psi, pipe, answers, retired>>
  /\ UNCHANGED <<disk, tables, answered, question, wantsReference, got, trusted, bounds>>

MutantAnyIdAccepted(w, line) == line.reply.kind # "garbage"

(* accept: a version-1 response with the id of the request.                *)
Accepted(w, line) == line.reply.kind # "garbage" /\ line.id = pending[w]

(* One line within the deadline.  Anything but an acceptable one retires   *)
(* the helper for the rest of the run.                                     *)
Receive(w) ==
  /\ pc[w] = "waiting"
  /\ answers # << >>
  /\ IF Accepted(w, Head(answers))
     THEN /\ got' = [got EXCEPT ![w] = Head(answers).reply]
          /\ answered' = answered + 1
          /\ answers' = Tail(answers)
          /\ UNCHANGED <<helper, psi, stdin, pipe, retired>>
     ELSE Retire /\ UNCHANGED <<got, answered>>
  /\ lock' = None
  /\ pc' = [pc EXCEPT ![w] = "store"]
  /\ UNCHANGED <<disk, tables, nextId, question, wantsReference, pending, trusted, bounds>>

MutantOnlyDisconnected(w) ==
  /\ pc[w] = "waiting"
  /\ answers = << >> /\ pipe = << >> /\ helper = "gone"
  /\ Retire
  /\ lock' = None
  /\ pc' = [pc EXCEPT ![w] = "store"]
  /\ UNCHANGED <<disk, tables, nextId, answered, question, wantsReference, pending, got, trusted, bounds>>

(* recv_timeout: nothing arrived in time, or the reader saw the end of the *)
(* output and hung up.                                                     *)
Timeout(w) ==
  /\ pc[w] = "waiting"
  /\ answers = << >>
  /\ Retire
  /\ lock' = None
  /\ pc' = [pc EXCEPT ![w] = "store"]
  /\ UNCHANGED <<disk, tables, nextId, answered, question, wantsReference, pending, got, trusted, bounds>>

(* What the tables keep: a batch of call sites or the failure to get one,  *)
(* but not the absence of evidence; of members whatever came.  A batch for *)
(* another file is a failure.                                              *)
Remembered(w) ==
  LET q == question[w]
  IN IF got[w].kind = "evidence" THEN IF q \in Files /\ got[w].about # q THEN Nothing ELSE got[w]
     ELSE IF got[w].kind = "absent" /\ q \in Files THEN memo[q]
     ELSE Nothing

Store(w) ==
  /\ pc[w] = "store"
  /\ memo' = [memo EXCEPT ![question[w]] = Remembered(w)]
  /\ owners' = IF question[w] \in Owners THEN None ELSE owners
  /\ pc' = [pc EXCEPT ![w] = IF wantsReference[w] THEN "check" ELSE "idle"]
  /\ got' = [got EXCEPT ![w] = Nothing]
  /\ pending' = [pending EXCEPT ![w] = 0]
  /\ UNCHANGED <<disk, channel, retired, lock, nextId, answered, question, wantsReference,
                 trusted, bounds>>

MutantUnchecked(w) ==
  memo[question[w]].kind = "evidence" /\ memo[question[w]].references

(* The file is read once more before a reference is handed out.            *)
StillPlanned(w) ==
  /\ memo[question[w]].kind = "evidence"
  /\ memo[question[w]].references
  /\ disk[question[w]] = 0

Check(w) ==
  /\ pc[w] = "check"
  /\ trusted' = IF StillPlanned(w)
                THEN trusted \cup { <<question[w], memo[question[w]].bound>> } ELSE trusted
  /\ pc' = [pc EXCEPT ![w] = "idle"]
  /\ UNCHANGED <<disk, channel, retired, lock, tables, nextId, answered, question, wantsReference,
                 pending, got, bounds>>

-------------------------------------------------------------------------------
(* The helper process.  Its session is built from the files as they are    *)
(* when it gets there; a batch of references additionally needs the bytes  *)
(* on disk to be those, the call sites do not.                             *)
OpenSession ==
  /\ helper = "starting"
  /\ helper' = "serving"
  /\ psi' = disk
  /\ UNCHANGED <<disk, stdin, pipe, answers, retired, lock, tables, nextId, answered, pc, question,
                 wantsReference, pending, got, trusted, bounds>>

Reply(q) ==
  IF q \in Files THEN Evidence(q, psi[q], disk[q] = psi[q]) ELSE Evidence(q, 0, FALSE)

Writes(lines) == pipe' = pipe \o lines

Serve ==
  /\ helper = "serving"
  /\ stdin # << >>
  /\ LET request == Head(stdin)
         line(reply) == [id |-> request.id, reply |-> reply]
     IN \/ /\ \E reply \in {Reply(request.about), Absent} : Writes(<< line(reply) >>)
           /\ UNCHANGED faults
        \/ /\ faults < MaxFaults
           /\ faults' = faults + 1
           /\ \E lines \in { << >>, << line([kind |-> "garbage"]) >>,
                             << line(Reply(request.about)), line(Reply(request.about)) >> } :
                Writes(lines)
  /\ stdin' = Tail(stdin)
  /\ UNCHANGED <<disk, helper, psi, answers, retired, lock, tables, nextId, answered, pc, question,
                 wantsReference, pending, got, trusted, asks, edits>>

Exit ==
  /\ helper # "gone"
  /\ faults < MaxFaults
  /\ faults' = faults + 1
  /\ helper' = "gone"
  /\ UNCHANGED <<disk, psi, stdin, pipe, answers, retired, lock, tables, nextId, answered, pc, question,
                 wantsReference, pending, got, trusted, asks, edits>>

(* read_answers: the queue holds one line.                                 *)
Read ==
  /\ pipe # << >>
  /\ answers = << >>
  /\ answers' = << Head(pipe) >>
  /\ pipe' = Tail(pipe)
  /\ UNCHANGED <<disk, helper, psi, stdin, retired, lock, tables, nextId, answered, pc, question,
                 wantsReference, pending, got, trusted, bounds>>

UserEdit ==
  /\ edits < MaxEdits
  /\ edits' = edits + 1
  /\ \E f \in Files : disk' = [disk EXCEPT ![f] = edits + 1]
  /\ UNCHANGED <<channel, retired, lock, tables, nextId, answered, pc, question, wantsReference,
                 pending, got, trusted, asks, faults>>

Work(w) ==
  \/ LockMembers(w) \/ Load(w) \/ TooLate(w) \/ Send(w)
  \/ Receive(w) \/ Timeout(w) \/ Store(w) \/ Check(w)

Next ==
  \/ \E w \in Workers : (\E f \in Files : AskFile(w, f)) \/ (\E o \in Owners : AskOwner(w, o))
  \/ \E w \in Workers : Work(w)
  \/ OpenSession \/ Serve \/ Exit \/ Read \/ UserEdit

Spec == Init /\ [][Next]_vars

(* Workers run and deadlines expire; of the helper nothing is assumed.     *)
FairSpec == Spec /\ \A w \in Workers : WF_vars(Work(w))

-------------------------------------------------------------------------------
Locations == {"idle", "members", "load", "queued", "waiting", "store", "check"}

(* The variables have their types; the client is locked by the worker that *)
(* waits for an answer, the member table by the one that loads.            *)
TypeOK ==
  /\ disk \in [Files -> 0..MaxEdits] /\ psi \in [Files -> 0..MaxEdits]
  /\ helper \in {"starting", "serving", "gone"} /\ retired \in BOOLEAN
  /\ retired => helper = "gone"
  /\ Len(stdin) <= 1 /\ Len(answers) <= 1
  /\ \A w \in Workers :
       /\ pc[w] \in Locations /\ question[w] \in Questions \cup {None}
       /\ lock = w <=> pc[w] = "waiting"
       /\ owners = w <=> pc[w] \in {"load", "queued", "waiting", "store"} /\ question[w] \in Owners
  /\ \A q \in Questions : memo[q].kind \in {"unset", "none", "evidence"}

(* Whatever lines the helper repeats, delays or garbles, the answer a      *)
(* worker takes and the tables keep is the one to its own question.        *)
AnswersMatchQuestions ==
  /\ \A w \in Workers : pc[w] = "store" /\ got[w].kind = "evidence" => got[w].about = question[w]
  /\ \A q \in Questions : memo[q].kind = "evidence" => memo[q].about = q

(* A broken helper costs the run one request: only the latest request can  *)
(* be unanswered, and nothing is sent after one that failed, even by a     *)
(* worker that saw the helper alive before it waited for the client.       *)
OneRequestInVain == nextId <= answered + 1

(* What the run has learned it keeps: evidence is never replaced, neither  *)
(* by a later failure nor by another batch, and of a class not even the    *)
(* failure to learn anything ("load runs at most once per owner").         *)
EvidenceStays ==
  [][ \A q \in Questions :
        memo[q].kind = "evidence" \/ (q \in Owners /\ memo[q] # Unset) => memo'[q] = memo[q] ]_vars

(* A property reference that is handed out was bound in the text being     *)
(* planned: a session built from an edited file is noticed, whenever the   *)
(* edit comes, by the helper's comparison or by the last look at the disk. *)
ReferencesDescribePlannedText == \A reference \in trusted : reference[2] = 0

(* No question waits for ever: the helper may be silent, every worker gets *)
(* an answer or does without.                                              *)
EveryQuestionReturns == \A w \in Workers : pc[w] # "idle" ~> pc[w] = "idle"

(* Requests and answers stay in step: every answer is to its own question, *)
(* and after one that failed nothing is asked any more.                    *)
ExchangeConsistent == TypeOK /\ AnswersMatchQuestions /\ OneRequestInVain
=================================================================================
