---------------------- MODULE ResumeWorkspacesProofs ----------------------
(***************************************************************************)
(* Proofs about ResumeWorkspaces for every set of workspaces, requests and *)
(* jobs and every bound.  HistoryOK is not inductive: a request or a task  *)
(* carries a number it computed earlier, so IInv adds what that number     *)
(* still says about the rows when it is used (RequestsKnow, TasksKnow).    *)
(***************************************************************************)
EXTENDS ResumeWorkspaces, Sequences, TLAPS

(* The number save_document reads for a live workspace is the number of    *)
(* one of its revisions, so the next one leaves no gap.                    *)
LEMMA NewestIsNumber ==
  ASSUME TypeOK, HistoryOK, NEW w \in Workspace, Live(w)
  PROVE  \E v \in RevisionsOf(w) : Newest(w) = v.number
<1> DEFINE S == {0} \cup {v.number : v \in RevisionsOf(w)}
           P(n) == \A v \in RevisionsOf(w) : v.number <= n
<1>1. PICK m \in revs : m.ws = w /\ P(m.number)
  BY DEF HistoryOK, CurrentIsNewest
<1>2. m.number \in S /\ P(m.number)
  BY <1>1 DEF RevisionsOf
<1>3. Newest(w) \in S /\ P(Newest(w))
  <2>1. Newest(w) = CHOOSE n \in S : P(n)
    BY DEF Newest
  <2> HIDE DEF S, P
  <2> QED BY <1>2, <2>1
<1>4. m \in RevisionsOf(w) /\ m.number \in Nat \ {0}
  BY <1>1 DEF TypeOK, Revision, RevisionsOf
<1>5. Newest(w) # 0
  BY <1>3, <1>4
<1> QED BY <1>3, <1>5

(* Also for a workspace that was deleted under the request it is a number. *)
LEMMA NewestType ==
  ASSUME TypeOK, HistoryOK, NoOrphans, NEW w \in Workspace
  PROVE  Newest(w) \in Nat
<1>1. CASE Live(w)
  <2>1. PICK v \in RevisionsOf(w) : Newest(w) = v.number
    BY <1>1, NewestIsNumber
  <2> QED BY <2>1 DEF TypeOK, Revision, RevisionsOf
<1>2. CASE ~Live(w)
  <2>1. RevisionsOf(w) = {}
    BY <1>2 DEF NoOrphans, RevisionsOf
  <2>2. Newest(w) = CHOOSE n \in {0} : TRUE
    BY <2>1 DEF Newest
  <2> QED BY <2>2
<1> QED BY <1>1, <1>2

(* A revision that is inserted with the number after an existing one keeps *)
(* the history of every workspace and becomes the newest of its own.       *)
LEMMA InsertKeepsHistory ==
  ASSUME TypeOK, HistoryOK, IdsBelowNext, NoOrphans,
         NEW w \in Workspace, NEW n \in Nat \ {0}, NEW ok \in BOOLEAN,
         NEW by \in Origin, NEW basis \in Nat, NEW j \in Job \cup {None},
         CanInsert(w, n),
         \E v \in RevisionsOf(w) : n = v.number + 1,
         Insert(w, n, ok, by, basis, j),
         status' = status
  PROVE  /\ HistoryOK'
         /\ IdsBelowNext'
         /\ \A v \in revs' : Live(v.ws)'
         /\ revs' \subseteq Revision
         /\ \A v \in revs : v \in revs'
<1> DEFINE new == [id |-> nextId, ws |-> w, number |-> n, valid |-> ok,
                   by |-> by, basis |-> basis, job |-> j]
<1>1. /\ revs' = revs \cup {new}
      /\ current' = [current EXCEPT ![w] = nextId]
      /\ nextId' = nextId + 1
  BY DEF Insert
<1>2. new \in Revision
  BY DEF TypeOK, Revision
<1>3. /\ new.id = nextId /\ new.ws = w /\ new.number = n
      /\ \A v \in RevisionsOf(w) : v.number # n
      /\ Live(w)
  BY DEF CanInsert
<1>4. \A v \in revs : v.id \in Nat /\ v.number \in Nat \ {0} /\ v.id < nextId
  BY DEF TypeOK, Revision, IdsBelowNext
<1>5. PICK p \in revs : p.ws = w /\ n = p.number + 1
  BY DEF RevisionsOf
<1>6. \A v \in revs : v.ws = w => v.number < n
  <2> SUFFICES ASSUME NEW v \in revs, v.ws = w, ~(v.number < n)
               PROVE  FALSE
    OBVIOUS
  <2>1. n \in 1..v.number
    BY <1>4
  <2>2. PICK u \in revs : u.ws = w /\ u.number = n
    BY <2>1 DEF HistoryOK, NumbersContiguous
  <2> QED BY <2>2, <1>3 DEF RevisionsOf
<1> HIDE DEF new
<1>7. IdsUnique'
  BY <1>1, <1>3, <1>4 DEF HistoryOK, IdsUnique, TypeOK
<1>8. NumbersUnique'
  BY <1>1, <1>3 DEF HistoryOK, NumbersUnique, RevisionsOf
<1>9. NumbersContiguous'
  <2> SUFFICES ASSUME NEW v \in revs', NEW k \in 1..v.number
               PROVE  \E u \in revs' : u.ws = v.ws /\ u.number = k
    BY DEF NumbersContiguous
  <2>1. CASE v \in revs
    BY <2>1, <1>1 DEF HistoryOK, NumbersContiguous
  <2>2. CASE v = new /\ k = n
    BY <2>2, <1>1, <1>3
  <2>3. CASE v = new /\ k # n
    <3>1. k \in 1..p.number
      BY <2>3, <1>3, <1>4, <1>5
    <3>2. PICK u \in revs : u.ws = w /\ u.number = k
      BY <3>1, <1>5 DEF HistoryOK, NumbersContiguous
    <3> QED BY <3>2, <2>3, <1>1, <1>3
  <2> QED BY <2>1, <2>2, <2>3, <1>1
<1>10. CurrentIsNewest'
  <2> SUFFICES ASSUME NEW x \in Workspace, Live(x)'
               PROVE  \E v \in revs' :
                        /\ v.ws = x /\ v.id = current'[x]
                        /\ \A u \in RevisionsOf(x)' : u.number <= v.number
    BY DEF CurrentIsNewest
  <2>0. RevisionsOf(x)' = {v \in revs' : v.ws = x}
    BY DEF RevisionsOf
  <2>1. CASE x = w
    <3>1. current'[x] = nextId
      BY <2>1, <1>1 DEF TypeOK
    <3>2. \A u \in RevisionsOf(x)' : u.number <= new.number
      BY <2>0, <2>1, <1>1, <1>3, <1>4, <1>6
    <3> QED BY <3>1, <3>2, <2>1, <1>1, <1>3
  <2>2. CASE x # w
    <3>1. current'[x] = current[x] /\ Live(x)
      BY <2>2, <1>1 DEF TypeOK, Live
    <3>2. PICK v \in revs : /\ v.ws = x /\ v.id = current[x]
                            /\ \A u \in RevisionsOf(x) : u.number <= v.number
      BY <3>1 DEF HistoryOK, CurrentIsNewest
    <3>3. RevisionsOf(x)' = RevisionsOf(x)
      BY <2>0, <2>2, <1>1, <1>3 DEF RevisionsOf
    <3> QED BY <3>1, <3>2, <3>3, <1>1
  <2> QED BY <2>1, <2>2
<1>11. IdsBelowNext'
  BY <1>1, <1>3, <1>4 DEF IdsBelowNext, TypeOK
<1>12. \A v \in revs' : Live(v.ws)'
  BY <1>1, <1>3 DEF NoOrphans, Live
<1> QED
  BY <1>1, <1>2, <1>7, <1>8, <1>9, <1>10, <1>11, <1>12
     DEF HistoryOK, TypeOK

(* Steps that write no workspace and no revision keep what is said of them *)
LEMMA RowsUnchanged ==
  ASSUME IInv, UNCHANGED <<status, current, revs, nextId>>
  PROVE  /\ HistoryOK' /\ IdsBelowNext' /\ JobNeverOverwrites'
         /\ \A v \in revs' : Live(v.ws)'
BY DEF IInv, HistoryOK, IdsUnique, NumbersUnique, NumbersContiguous,
       CurrentIsNewest, RevisionsOf, Live, IdsBelowNext, JobNeverOverwrites,
       NoOrphans

(* ... and those that also keep the job rows keep all row invariants.      *)
LEMMA RequestOnly ==
  ASSUME IInv, UNCHANGED <<status, current, revs, nextId, job>>
  PROVE  /\ HistoryOK' /\ IdsBelowNext' /\ JobNeverOverwrites' /\ NoOrphans'
BY RowsUnchanged DEF IInv, NoOrphans, Live

(* RequestsKnow survives every step that starts, ends or leaves alone the  *)
(* requests, as long as workspaces stay created and revisions stay with    *)
(* their live workspace.                                                   *)
LEMMA RequestsStillKnow ==
  ASSUME IInv, UNCHANGED req,
         \A w \in Workspace : status[w] # "absent" => status'[w] # "absent",
         \A w \in Workspace : status[w] # "absent" /\ Live(w)' =>
            Live(w) /\ \A v \in RevisionsOf(w) : v \in revs'
  PROVE  RequestsKnow'
<1> SUFFICES ASSUME NEW r \in Request, req[r].phase # "idle"
             PROVE  RequestKnows(req[r])'
  BY DEF RequestsKnow
<1>1. RequestKnows(req[r])
  BY DEF IInv, RequestsKnow
<1> QED BY <1>1 DEF RequestKnows, RevisionsOf, Live

(* The same for tasks, when the step leaves them and their job rows alone. *)
LEMMA TasksStillKnow ==
  ASSUME IInv, UNCHANGED <<run, job>>, \A v \in revs : v \in revs'
  PROVE  TasksKnow'
BY DEF IInv, TasksKnow, RevisionsOf

---------------------------------------------------------------------------

(* The initial state has no rows and nothing in flight.                    *)
LEMMA InitIInv == Init => IInv
<1> SUFFICES ASSUME Init PROVE IInv
  OBVIOUS
<1>1. TypeOK
  BY DEF Init, TypeOK, RequestState, TaskState, IdleReq, IdleRun, NoJobRow, Origin, JobRow
<1>2. HistoryOK
  BY DEF Init, HistoryOK, IdsUnique, NumbersUnique, NumbersContiguous,
         CurrentIsNewest, Live
<1>3. NoOrphans /\ IdsBelowNext /\ JobNeverOverwrites
  BY DEF Init, NoOrphans, IdsBelowNext, JobNeverOverwrites, NoJobRow
<1>4. RequestsKnow /\ TasksKnow
  BY DEF Init, RequestsKnow, TasksKnow, IdleReq, IdleRun
<1> QED BY <1>1, <1>2, <1>3, <1>4 DEF IInv

(* Creating a workspace: number 1 is the first of an empty history.        *)
LEMMA CreateIInv ==
  ASSUME IInv, NEW w \in Workspace, CreateWorkspace(w)
  PROVE  IInv'
<1> DEFINE new == [id |-> nextId, ws |-> w, number |-> 1, valid |-> TRUE,
                   by |-> "create", basis |-> 0, job |-> None]
<1>1. /\ revs' = revs \cup {new}
      /\ current' = [current EXCEPT ![w] = nextId]
      /\ nextId' = nextId + 1
      /\ status[w] = "absent"
      /\ status' = [status EXCEPT ![w] = "draft"]
      /\ UNCHANGED <<job, queue, req, run>>
  BY DEF CreateWorkspace, Insert
<1>2. new \in Revision
  BY DEF IInv, TypeOK, Revision, Origin
<1>3. new.id = nextId /\ new.ws = w /\ new.number = 1 /\ new.job = None
  OBVIOUS
<1>4. \A v \in revs : /\ v.ws # w /\ Live(v.ws) /\ v.id < nextId
                      /\ v.id \in Nat /\ v.number \in Nat \ {0}
  BY <1>1 DEF IInv, TypeOK, Revision, NoOrphans, Live, IdsBelowNext
<1>5. \A x \in Workspace : x # w => (Live(x)' <=> Live(x))
  BY <1>1 DEF IInv, TypeOK, Live
<1> HIDE DEF new
<1>6. TypeOK'
  BY <1>1, <1>2 DEF IInv, TypeOK
<1>7. IdsUnique'
  BY <1>1, <1>3, <1>4 DEF IInv, TypeOK, HistoryOK, IdsUnique
<1>8. NumbersUnique'
  BY <1>1, <1>3, <1>4 DEF IInv, HistoryOK, NumbersUnique
<1>9. NumbersContiguous'
  <2> SUFFICES ASSUME NEW v \in revs', NEW k \in 1..v.number
               PROVE  \E u \in revs' : u.ws = v.ws /\ u.number = k
    BY DEF NumbersContiguous
  <2>1. CASE v \in revs
    BY <2>1, <1>1 DEF IInv, HistoryOK, NumbersContiguous
  <2>2. CASE v = new
    BY <2>2, <1>1, <1>3
  <2> QED BY <2>1, <2>2, <1>1
<1>10. CurrentIsNewest'
  <2> SUFFICES ASSUME NEW x \in Workspace, Live(x)'
               PROVE  \E v \in revs' :
                        /\ v.ws = x /\ v.id = current'[x]
                        /\ \A u \in RevisionsOf(x)' : u.number <= v.number
    BY DEF CurrentIsNewest
  <2>0. RevisionsOf(x)' = {v \in revs' : v.ws = x}
    BY DEF RevisionsOf
  <2>1. CASE x = w
    <3>1. current'[x] = nextId
      BY <2>1, <1>1 DEF IInv, TypeOK
    <3>2. \A u \in RevisionsOf(x)' : u.number <= new.number
      BY <2>0, <2>1, <1>1, <1>3, <1>4
    <3> QED BY <3>1, <3>2, <2>1, <1>1, <1>3
  <2>2. CASE x # w
    <3>1. current'[x] = current[x] /\ Live(x)
      BY <2>2, <1>1, <1>5 DEF IInv, TypeOK
    <3>2. PICK v \in revs : /\ v.ws = x /\ v.id = current[x]
                            /\ \A u \in RevisionsOf(x) : u.number <= v.number
      BY <3>1 DEF IInv, HistoryOK, CurrentIsNewest
    <3>3. RevisionsOf(x)' = RevisionsOf(x)
      BY <2>0, <2>2, <1>1, <1>3 DEF RevisionsOf
    <3> QED BY <3>1, <3>2, <3>3, <1>1
  <2> QED BY <2>1, <2>2
<1>11. IdsBelowNext'
  BY <1>1, <1>3, <1>4 DEF IInv, IdsBelowNext, TypeOK
<1>12. NoOrphans'
  <2>1. Live(w)'
    BY <1>1 DEF IInv, TypeOK, Live
  <2>2. \A v \in revs' : Live(v.ws)'
    <3> SUFFICES ASSUME NEW v \in revs' PROVE Live(v.ws)'
      OBVIOUS
    <3>1. CASE v \in revs
      <4>1. v.ws \in Workspace
        BY <3>1 DEF IInv, TypeOK, Revision
      <4> QED BY <4>1, <3>1, <1>4, <1>5 DEF Live
    <3>2. CASE v = new
      BY <3>2, <2>1, <1>3 DEF Live
    <3> QED BY <3>1, <3>2, <1>1
  <2>3. \A i \in Job : job[i].status # "none" =>
                         job[i].ws \in Workspace /\ Live(job[i].ws)'
    BY <2>1, <1>1, <1>5 DEF IInv, NoOrphans, Live
  <2> QED BY <2>2, <2>3, <1>1 DEF NoOrphans, Live
<1>13. RequestsKnow'
  BY <1>1, <1>4, <1>5, RequestsStillKnow DEF IInv, TypeOK, RevisionsOf
<1>14. TasksKnow'
  BY <1>1, TasksStillKnow
<1>15. JobNeverOverwrites'
  BY <1>1, <1>3 DEF IInv, JobNeverOverwrites
<1> QED
  BY <1>6, <1>7, <1>8, <1>9, <1>10, <1>11, <1>12, <1>13, <1>14, <1>15
     DEF IInv, HistoryOK

(* Deleting removes a whole history and its job rows, and nothing else.    *)
LEMMA DeleteIInv ==
  ASSUME IInv, NEW w \in Workspace, DeleteWorkspace(w)
  PROVE  IInv'
<1>1. /\ Live(w)
      /\ status' = [status EXCEPT ![w] = "deleted"]
      /\ current' = [current EXCEPT ![w] = 0]
      /\ revs' = {v \in revs : v.ws # w}
      /\ job' = [j \in Job |-> IF job[j].ws = w THEN NoJobRow ELSE job[j]]
      /\ UNCHANGED <<nextId, queue, req, run>>
  BY DEF DeleteWorkspace, RevisionsOf
<1>2. /\ status'[w] = "deleted"
      /\ \A x \in Workspace : x # w => /\ status'[x] = status[x]
                                       /\ current'[x] = current[x]
  BY <1>1 DEF IInv, TypeOK
<1>3. \A x \in Workspace : Live(x)' <=> Live(x) /\ x # w
  BY <1>2 DEF Live
<1>4. TypeOK'
  BY <1>1 DEF IInv, TypeOK, NoJobRow, JobRow
<1>5. IdsUnique' /\ NumbersUnique'
  BY <1>1 DEF IInv, HistoryOK, IdsUnique, NumbersUnique
<1>6. NumbersContiguous'
  BY <1>1 DEF IInv, HistoryOK, NumbersContiguous
<1>7. CurrentIsNewest'
  <2> SUFFICES ASSUME NEW x \in Workspace, Live(x)'
               PROVE  \E v \in revs' :
                        /\ v.ws = x /\ v.id = current'[x]
                        /\ \A u \in RevisionsOf(x)' : u.number <= v.number
    BY DEF CurrentIsNewest
  <2>1. x # w /\ Live(x) /\ current'[x] = current[x]
    BY <1>2, <1>3
  <2>2. RevisionsOf(x)' \subseteq RevisionsOf(x)
    BY <1>1 DEF RevisionsOf
  <2>3. PICK v \in revs : /\ v.ws = x /\ v.id = current[x]
                          /\ \A u \in RevisionsOf(x) : u.number <= v.number
    BY <2>1 DEF IInv, HistoryOK, CurrentIsNewest
  <2> QED BY <2>1, <2>2, <2>3, <1>1
<1>8. IdsBelowNext'
  BY <1>1 DEF IInv, IdsBelowNext
<1>9. NoOrphans'
  <2>1. \A v \in revs' : Live(v.ws)'
    BY <1>1, <1>3 DEF IInv, TypeOK, Revision, NoOrphans, Live
  <2>2. \A i \in Job : job[i].ws \in Workspace /\ job[i].ws # w /\ Live(job[i].ws)
                         => status'[job[i].ws] \in {"draft", "approved"}
    BY <1>3 DEF Live
  <2>3. \A i \in Job : job'[i].status # "none" =>
                         /\ job'[i] = job[i]
                         /\ job[i].ws # w
    BY <1>1 DEF NoJobRow
  <2>4. \A i \in Job : job'[i].status # "none" =>
                         /\ job'[i].ws \in Workspace
                         /\ status'[job'[i].ws] \in {"draft", "approved"}
    BY <2>2, <2>3 DEF IInv, NoOrphans
  <2> QED BY <2>1, <2>4 DEF NoOrphans, Live
<1>10. RequestsKnow'
  BY <1>1, <1>2, <1>3, RequestsStillKnow DEF IInv, TypeOK, RevisionsOf
<1>11. TasksKnow'
  <2> SUFFICES ASSUME NEW j \in Job, run[j].phase = "asking",
                      job'[j].status = "running"
               PROVE  \E v \in RevisionsOf(job[j].ws)' :
                        v.id = run[j].basis /\ run[j].number = v.number + 1
    BY <1>1 DEF TasksKnow
  <2>1. job'[j] = job[j] /\ job[j].ws # w
    BY <1>1 DEF NoJobRow
  <2>2. PICK v \in RevisionsOf(job[j].ws) : /\ v.id = run[j].basis
                                            /\ run[j].number = v.number + 1
    BY <2>1 DEF IInv, TasksKnow
  <2> QED BY <2>1, <2>2, <1>1 DEF RevisionsOf
<1>12. JobNeverOverwrites'
  BY <1>1 DEF IInv, JobNeverOverwrites
<1> QED
  BY <1>4, <1>5, <1>6, <1>7, <1>8, <1>9, <1>10, <1>11, <1>12
     DEF IInv, HistoryOK

(* A request or a task commits its revision.                               *)
LEMMA SaveIInv ==
  ASSUME IInv, NEW r \in Request, SaveCommits(r)
  PROVE  IInv'
<1> DEFINE w == req[r].ws
           n == req[r].number
<1>1. /\ req[r].phase = "numbered"
      /\ CanInsert(w, n)
      /\ Insert(w, n, TRUE, req[r].op, req[r].basis, None)
      /\ req' = [req EXCEPT ![r] = IdleReq]
      /\ UNCHANGED <<status, job, queue, run>>
  BY DEF SaveCommits, Answer
<1>2. /\ w \in Workspace /\ req[r].op \in Origin /\ req[r].basis \in Nat
      /\ n \in Nat
  BY <1>1 DEF IInv, RequestsKnow, RequestKnows, TypeOK, RequestState
<1>3. \E v \in RevisionsOf(w) : n = v.number + 1
  BY <1>1 DEF IInv, RequestsKnow, RequestKnows, CanInsert
<1>4. n \in Nat \ {0}
  BY <1>2, <1>3 DEF IInv, TypeOK, Revision, RevisionsOf
<1> HIDE DEF w, n
<1>5. /\ HistoryOK' /\ IdsBelowNext' /\ \A v \in revs' : Live(v.ws)'
      /\ revs' \subseteq Revision /\ \A v \in revs : v \in revs'
  BY <1>1, <1>2, <1>3, <1>4, InsertKeepsHistory DEF IInv
<1>6. TypeOK'
  BY <1>1, <1>2, <1>5 DEF IInv, TypeOK, RequestState, Insert, IdleReq, Origin
<1>7. NoOrphans'
  BY <1>1, <1>5 DEF IInv, NoOrphans, Live
<1>8. RequestsKnow'
  <2> SUFFICES ASSUME NEW s \in Request, req'[s].phase # "idle"
               PROVE  RequestKnows(req[s])'
    BY DEF RequestsKnow
  <2>1. s # r /\ req'[s] = req[s]
    BY <1>1 DEF IInv, TypeOK, IdleReq
  <2>2. RequestKnows(req[s])
    BY <2>1 DEF IInv, RequestsKnow
  <2> QED BY <2>1, <2>2, <1>1, <1>5 DEF RequestKnows, RevisionsOf, Live
<1>9. TasksKnow'
  BY <1>1, <1>5, TasksStillKnow
<1>10. JobNeverOverwrites'
  BY <1>1, <1>5 DEF IInv, JobNeverOverwrites, Insert
<1> QED BY <1>5, <1>6, <1>7, <1>8, <1>9, <1>10 DEF IInv

(* A task's revision takes the number after the base it read, which is    *)
(* still free, and its row reports it: the same insert, made by the worker. *)
LEMMA JobIInv ==
  ASSUME IInv, NEW j \in Job, NEW ok \in BOOLEAN, JobSucceeds(j, ok)
  PROVE  IInv'
<1> DEFINE w == job[j].ws
           n == run[j].number
<1>1. /\ run[j].phase = "asking" /\ job[j].status = "running"
      /\ CanInsert(w, n)
      /\ Insert(w, n, ok, "job", run[j].basis, j)
      /\ job' = [job EXCEPT ![j].status = "succeeded", ![j].result = nextId]
      /\ run' = [run EXCEPT ![j].phase = "over"]
      /\ UNCHANGED <<status, queue, req>>
  BY DEF JobSucceeds, EndRun
<1>2. PICK b \in RevisionsOf(w) : b.id = run[j].basis /\ n = b.number + 1
  BY <1>1 DEF IInv, TasksKnow
<1>3. /\ w \in Workspace /\ run[j].basis \in Nat /\ "job" \in Origin
      /\ n \in Nat \ {0}
  BY <1>1, <1>2 DEF IInv, NoOrphans, TypeOK, Revision, RevisionsOf, Origin
<1> HIDE DEF w, n
<1>4. /\ HistoryOK' /\ IdsBelowNext' /\ \A v \in revs' : Live(v.ws)'
      /\ revs' \subseteq Revision /\ \A v \in revs : v \in revs'
  BY <1>1, <1>2, <1>3, InsertKeepsHistory DEF IInv
<1>5. TypeOK'
  <2>1. /\ current' \in [Workspace -> Nat]
        /\ nextId' \in Nat \ {0}
    BY <1>1, <1>3 DEF IInv, TypeOK, Insert
  <2>2. job' \in [Job -> JobRow]
    <3>1. job'[j] = [status |-> "succeeded", ws |-> job[j].ws,
                     result |-> nextId]
      BY <1>1 DEF IInv, TypeOK, JobRow
    <3>2. \A i \in Job : i # j => job'[i] = job[i]
      BY <1>1 DEF IInv, TypeOK
    <3>3. job' = [i \in Job |-> job'[i]]
      BY <1>1 DEF IInv, TypeOK
    <3> QED BY <3>1, <3>2, <3>3 DEF IInv, TypeOK, JobRow
  <2>3. run' \in [Job -> TaskState]
    BY <1>1 DEF IInv, TypeOK, TaskState
  <2> QED BY <2>1, <2>2, <2>3, <1>1, <1>4 DEF IInv, TypeOK
<1>6. \A i \in Job : /\ job'[i].ws = job[i].ws
                     /\ job'[i].status # "none" <=> job[i].status # "none"
                     /\ run'[i].phase = "asking" => i # j /\ run'[i] = run[i]
                                                    /\ job'[i] = job[i]
  BY <1>1 DEF IInv, TypeOK
<1>7. NoOrphans'
  BY <1>1, <1>4, <1>6 DEF IInv, NoOrphans, Live
<1>8. RequestsKnow'
  BY <1>1, <1>4, RequestsStillKnow DEF RevisionsOf, Live
<1>9. TasksKnow'
  BY <1>4, <1>6 DEF IInv, TasksKnow, RevisionsOf
<1>10. JobNeverOverwrites'
  <2> SUFFICES ASSUME NEW v \in revs', v.job # None
               PROVE  \E u \in revs' : /\ u.ws = v.ws /\ u.id = v.basis
                                       /\ u.number = v.number - 1
    BY DEF JobNeverOverwrites
  <2>1. CASE v \in revs
    BY <2>1, <1>4 DEF IInv, JobNeverOverwrites
  <2>2. CASE v \notin revs
    <3>1. v.ws = w /\ v.basis = run[j].basis /\ v.number = n
      BY <2>2, <1>1 DEF Insert
    <3>2. b \in revs' /\ b.ws = w /\ b.number = n - 1
      BY <1>2, <1>4 DEF RevisionsOf, IInv, TypeOK, Revision
    <3> QED BY <3>1, <3>2, <1>2
  <2> QED BY <2>1, <2>2
<1> QED BY <1>4, <1>5, <1>7, <1>8, <1>9, <1>10 DEF IInv

---------------------------------------------------------------------------
(* The other steps write no revision; what is left is their own bookkeeping *)

(* A request that moves keeps RequestsKnow when its own new state does.    *)
LEMMA OneRequestMoves ==
  ASSUME IInv, UNCHANGED <<status, revs>>, NEW r \in Request,
         \A s \in Request : s # r => req'[s] = req[s],
         req'[r].phase # "idle" => RequestKnows(req'[r])
  PROVE  RequestsKnow'
BY DEF IInv, RequestsKnow, RequestKnows, RevisionsOf, Live

(* Requests that start, advance or end without touching any row.           *)
LEMMA RequestIInv ==
  ASSUME IInv, NEW r \in Request,
         UNCHANGED <<status, current, revs, nextId, job, run>>,
         \/ \E w \in Workspace :
              \/ \E named \in BOOLEAN : SaveRead(r, w, named)
              \/ AskModel(r, w)
              \/ RestoreRead(r, w)
              \/ QueueRead(r, w)
         \/ ModelAnswers(r)
         \/ SelectNumber(r)
         \/ SaveConflicts(r)
         \/ RequestEnds(r)
         \/ DeferJob(r)
  PROVE  IInv'
<1>1. HistoryOK' /\ IdsBelowNext' /\ JobNeverOverwrites' /\ NoOrphans'
  BY RequestOnly
<1>2. TasksKnow'
  BY TasksStillKnow
<1>3. TypeOK' /\ RequestsKnow'
  <2>1. ASSUME NEW w \in Workspace,
               \/ \E named \in BOOLEAN : SaveRead(r, w, named)
               \/ AskModel(r, w)
               \/ RestoreRead(r, w)
               \/ QueueRead(r, w)
        PROVE  TypeOK' /\ RequestsKnow'
    <3>1. PICK phase \in {"asking", "checked", "queuing"}, op \in Origin,
               basis \in Nat :
                 /\ Start(r, phase, op, w, basis)
                 /\ status[w] = "draft"
                 /\ UNCHANGED queue
      BY <2>1 DEF SaveRead, AskModel, RestoreRead, QueueRead, Origin,
                  IInv, TypeOK
    <3>2. TypeOK'
      BY <3>1 DEF IInv, TypeOK, RequestState, Start
    <3>3. RequestsKnow'
      <4>1. /\ \A s \in Request : s # r => req'[s] = req[s]
            /\ req'[r].ws = w /\ req'[r].phase = phase
        BY <3>1 DEF IInv, TypeOK, Start
      <4> QED BY <3>1, <4>1, OneRequestMoves DEF RequestKnows
    <3> QED BY <3>2, <3>3
  <2>2. CASE ModelAnswers(r)
    <3>1. TypeOK'
      BY <2>2 DEF ModelAnswers, IInv, TypeOK, RequestState
    <3>2. RequestsKnow'
      <4>1. /\ req[r].phase = "asking" /\ RequestKnows(req[r])
            /\ \A s \in Request : s # r => req'[s] = req[s]
            /\ req'[r].ws = req[r].ws /\ req'[r].phase = "checked"
        BY <2>2 DEF ModelAnswers, IInv, TypeOK, RequestsKnow
      <4> QED BY <4>1, OneRequestMoves DEF RequestKnows
    <3> QED BY <3>1, <3>2
  <2>3. CASE SelectNumber(r)
    <3>1. /\ req[r].phase = "checked"
          /\ req[r].ws \in Workspace /\ status[req[r].ws] # "absent"
          /\ req' = [req EXCEPT ![r].phase = "numbered",
                                ![r].number = Newest(req[r].ws) + 1]
          /\ UNCHANGED queue
      BY <2>3 DEF SelectNumber, IInv, RequestsKnow, RequestKnows
    <3>2. Newest(req[r].ws) \in Nat
      BY <3>1, NewestType DEF IInv
    <3>3. Live(req[r].ws) => \E v \in RevisionsOf(req[r].ws) :
                                Newest(req[r].ws) = v.number
      BY <3>1, NewestIsNumber DEF IInv
    <3>4. /\ req'[r] = [req[r] EXCEPT !.phase = "numbered",
                                      !.number = Newest(req[r].ws) + 1]
          /\ \A s \in Request : s # r => req'[s] = req[s]
          /\ req' = [s \in Request |-> req'[s]]
      BY <3>1 DEF IInv, TypeOK
    <3>5. /\ req'[r].phase = "numbered" /\ req'[r].ws = req[r].ws
          /\ req'[r].number = Newest(req[r].ws) + 1
      BY <3>4 DEF IInv, TypeOK
    <3>6. TypeOK'
      <4>1. req'[r] \in RequestState
        <5> DEFINE n == Newest(req[r].ws) + 1
        <5>1. n \in Nat
          BY <3>2
        <5>2. req[r] \in RequestState
          BY DEF IInv, TypeOK
        <5>3. req'[r] = [req[r] EXCEPT !.phase = "numbered", !.number = n]
          BY <3>4
        <5> HIDE DEF n
        <5> QED BY <5>1, <5>2, <5>3 DEF RequestState
      <4> QED BY <4>1, <3>1, <3>4 DEF IInv, TypeOK
    <3>7. RequestKnows(req'[r])
      BY <3>1, <3>3, <3>5 DEF RequestKnows
    <3>8. RequestsKnow'
      BY <3>4, <3>7, OneRequestMoves, <2>3 DEF SelectNumber
    <3> QED BY <3>6, <3>8
  <2>4. CASE SaveConflicts(r) \/ RequestEnds(r) \/ DeferJob(r)
    <3>1. /\ req' = [req EXCEPT ![r] = IdleReq]
          /\ \/ UNCHANGED queue
             \/ req[r].phase = "queued" /\ queue' = queue \cup {req[r].job}
      BY <2>4 DEF SaveConflicts, RequestEnds, DeferJob, Answer
    <3>2. req' \in [Request -> RequestState]
      BY <3>1 DEF IInv, TypeOK, RequestState, IdleReq, Origin
    <3>3. queue' \subseteq Job
      BY <3>1 DEF IInv, TypeOK, RequestsKnow, RequestKnows
    <3>4. RequestsKnow'
      BY <3>1, OneRequestMoves DEF IInv, TypeOK, IdleReq
    <3> QED BY <3>2, <3>3, <3>4 DEF IInv, TypeOK
  <2> QED BY <2>1, <2>2, <2>3, <2>4
<1> QED BY <1>1, <1>2, <1>3 DEF IInv

(* Approving changes a status, not whether the workspace is there.         *)
LEMMA ApproveIInv ==
  ASSUME IInv, NEW w \in Workspace, ApproveWorkspace(w)
  PROVE  IInv'
<1>1. /\ status[w] = "draft"
      /\ status' = [status EXCEPT ![w] = "approved"]
      /\ UNCHANGED <<current, revs, nextId, job, queue, req, run>>
  BY DEF ApproveWorkspace
<1>2. \A x \in Workspace : /\ Live(x)' <=> Live(x)
                           /\ status[x] # "absent" => status'[x] # "absent"
  BY <1>1 DEF IInv, TypeOK, Live
<1>3. TypeOK'
  BY <1>1 DEF IInv, TypeOK
<1>4. IdsUnique' /\ NumbersUnique' /\ NumbersContiguous'
  BY <1>1 DEF IInv, HistoryOK, IdsUnique, NumbersUnique, NumbersContiguous
<1>5. CurrentIsNewest'
  BY <1>1, <1>2 DEF IInv, HistoryOK, CurrentIsNewest, RevisionsOf
<1>6. NoOrphans'
  <2>1. \A v \in revs : Live(v.ws)'
    BY <1>2 DEF IInv, TypeOK, Revision, NoOrphans, Live
  <2>2. \A j \in Job : job[j].status # "none" =>
                         job[j].ws \in Workspace /\ Live(job[j].ws)'
    BY <1>1, <1>2 DEF IInv, NoOrphans, Live
  <2> QED BY <2>1, <2>2, <1>1 DEF NoOrphans, Live
<1>7. IdsBelowNext' /\ JobNeverOverwrites'
  BY <1>1 DEF IInv, IdsBelowNext, JobNeverOverwrites
<1>8. RequestsKnow'
  BY <1>1, <1>2, RequestsStillKnow DEF RevisionsOf
<1>9. TasksKnow'
  BY <1>1, TasksStillKnow
<1> QED
  BY <1>3, <1>4, <1>5, <1>6, <1>7, <1>8, <1>9 DEF IInv, HistoryOK

(* The job row appears with the workspace still there.                     *)
LEMMA QueueIInv ==
  ASSUME IInv, NEW r \in Request, NEW j \in Job, QueueCommits(r, j)
  PROVE  IInv'
<1>1. /\ req[r].phase = "queuing" /\ Live(req[r].ws)
      /\ job[j].status = "none" /\ run[j].phase = "idle"
      /\ job' = [job EXCEPT ![j] = [status |-> "queued", ws |-> req[r].ws,
                                    result |-> 0]]
      /\ run' = [run EXCEPT ![j].phase = "deferring"]
      /\ UNCHANGED <<status, current, revs, nextId, queue>>
  BY DEF QueueCommits
<1>2. req[r].ws \in Workspace /\ RequestKnows(req[r])
  BY <1>1 DEF IInv, RequestsKnow, RequestKnows
<1>3. /\ \A s \in Request : s # r => req'[s] = req[s]
      /\ req'[r].phase = "queued" /\ req'[r].job = j
      /\ req'[r].ws = req[r].ws
      /\ req' \in [Request -> RequestState]
  BY DEF QueueCommits, IInv, TypeOK, RequestState
<1>4. TypeOK'
  <2>1. job' \in [Job -> JobRow]
    BY <1>1, <1>2 DEF IInv, TypeOK, JobRow
  <2>2. run' \in [Job -> TaskState]
    BY <1>1 DEF IInv, TypeOK, TaskState
  <2> QED BY <2>1, <2>2, <1>1, <1>3 DEF IInv, TypeOK
<1>5. /\ HistoryOK' /\ IdsBelowNext' /\ JobNeverOverwrites'
      /\ \A v \in revs' : Live(v.ws)'
  BY <1>1, RowsUnchanged
<1>6. NoOrphans'
  BY <1>1, <1>2, <1>5 DEF IInv, TypeOK, NoOrphans, Live
<1>7. RequestsKnow'
  <2>1. RequestKnows(req'[r])
    BY <1>2, <1>3 DEF RequestKnows
  <2> QED BY <2>1, <1>1, <1>3, OneRequestMoves
<1>8. TasksKnow'
  <2>1. \A i \in Job : run'[i].phase = "asking" /\ job'[i].status = "running"
                         => run'[i] = run[i] /\ job'[i] = job[i]
    BY <1>1 DEF IInv, TypeOK
  <2> QED BY <2>1, <1>1 DEF IInv, TasksKnow, RevisionsOf
<1> QED BY <1>4, <1>5, <1>6, <1>7, <1>8 DEF IInv

(* Steps of a task that write no revision: a row keeps its workspace, and  *)
(* the only task that begins to ask is the one that has just read its base. *)
LEMMA TaskIInv ==
  ASSUME IInv, NEW j \in Job,
         \/ ClaimJob(j) \/ LoadJob(j) \/ JobConflicts(j) \/ JobFails(j)
         \/ JobRowGone(j) \/ WorkerDies(j)
  PROVE  IInv'
<1>1. UNCHANGED <<status, current, revs, nextId, req>>
  BY DEF ClaimJob, LoadJob, JobConflicts, JobFails, JobRowGone, WorkerDies
<1>2. /\ HistoryOK' /\ IdsBelowNext' /\ JobNeverOverwrites'
      /\ \A v \in revs' : Live(v.ws)'
  BY <1>1, RowsUnchanged
<1>3. \A i \in Job : /\ job'[i].ws = job[i].ws
                     /\ job'[i].status # "none" => job[i].status # "none"
  BY DEF ClaimJob, LoadJob, JobConflicts, JobFails, JobRowGone, WorkerDies,
         IInv, TypeOK, JobRow
<1>4. NoOrphans'
  BY <1>1, <1>2, <1>3 DEF IInv, NoOrphans, Live
<1>5. RequestsKnow'
  BY <1>1, RequestsStillKnow DEF RevisionsOf, Live
<1>6. CASE LoadJob(j)
  <2>1. PICK v \in revs :
          /\ v.id = current[job[j].ws]
          /\ run' = [run EXCEPT ![j] = [phase |-> "asking", basis |-> v.id,
                                        number |-> v.number + 1]]
    BY <1>6 DEF LoadJob
  <2>2. job[j].status = "running" /\ UNCHANGED <<job, queue>>
    BY <1>6 DEF LoadJob
  <2>3. v.id \in Nat /\ v.number \in Nat
    BY DEF IInv, TypeOK, Revision
  <2>4. run' \in [Job -> TaskState]
    BY <2>1, <2>3 DEF IInv, TypeOK, TaskState
  <2>5. TypeOK'
    BY <2>2, <2>4, <1>1 DEF IInv, TypeOK
  <2>6. v \in RevisionsOf(job[j].ws)
    <3>1. job[j].ws \in Workspace /\ Live(job[j].ws)
      BY <2>2 DEF IInv, NoOrphans
    <3>2. PICK u \in revs : u.ws = job[j].ws /\ u.id = current[job[j].ws]
      BY <3>1 DEF IInv, HistoryOK, CurrentIsNewest
    <3> QED BY <2>1, <3>2 DEF IInv, HistoryOK, IdsUnique, RevisionsOf
  <2>7. TasksKnow'
    <3> SUFFICES ASSUME NEW i \in Job, run'[i].phase = "asking",
                        job[i].status = "running"
                 PROVE  \E u \in RevisionsOf(job[i].ws) :
                          /\ u.id = run'[i].basis
                          /\ run'[i].number = u.number + 1
      BY <2>2, <1>1 DEF TasksKnow, RevisionsOf
    <3>1. CASE i = j
      BY <3>1, <2>1, <2>6 DEF IInv, TypeOK
    <3>2. CASE i # j
      <4>1. run'[i] = run[i]
        BY <3>2, <2>1 DEF IInv, TypeOK
      <4> QED BY <4>1 DEF IInv, TasksKnow
    <3> QED BY <3>1, <3>2
  <2> QED BY <2>5, <2>7, <1>2, <1>4, <1>5 DEF IInv
<1>7. CASE ~LoadJob(j)
  <2>1. \/ ClaimJob(j) \/ JobConflicts(j) \/ JobFails(j)
        \/ JobRowGone(j) \/ WorkerDies(j)
    BY <1>7
  <2>2. TypeOK'
    <3>1. job' \in [Job -> JobRow] /\ run' \in [Job -> TaskState]
      <4>1. \E phase \in {"claimed", "over", "conflict", "died"} :
              run' = [run EXCEPT ![j].phase = phase]
        BY <2>1 DEF ClaimJob, JobConflicts, JobFails, JobRowGone, WorkerDies,
                    EndRun
      <4>2. \/ UNCHANGED job
            \/ \E st \in {"running", "failed"} :
                 job' = [job EXCEPT ![j].status = st]
        BY <2>1 DEF ClaimJob, JobConflicts, JobFails, JobRowGone, WorkerDies
      <4>3. run' \in [Job -> TaskState]
        BY <4>1 DEF IInv, TypeOK, TaskState
      <4>4. job' \in [Job -> JobRow]
        BY <4>2 DEF IInv, TypeOK, JobRow
      <4> QED BY <4>3, <4>4
    <3>2. queue' \subseteq Job
      BY <2>1 DEF ClaimJob, JobConflicts, JobFails, JobRowGone, WorkerDies,
                  IInv, TypeOK
    <3> QED BY <3>1, <3>2, <1>1 DEF IInv, TypeOK
  <2>3. \A i \in Job : run'[i].phase = "asking" /\ job'[i].status = "running"
                         => run'[i] = run[i] /\ job'[i] = job[i]
    BY <2>1 DEF ClaimJob, JobConflicts, JobFails, JobRowGone, WorkerDies,
                EndRun, IInv, TypeOK, JobRow, TaskState
  <2>4. TasksKnow'
    BY <2>3, <1>1 DEF IInv, TasksKnow, RevisionsOf
  <2> QED BY <2>2, <2>4, <1>2, <1>4, <1>5 DEF IInv
<1> QED BY <1>6, <1>7

(* A step that changes nothing.                                            *)
LEMMA StutterIInv ==
  ASSUME IInv, UNCHANGED vars
  PROVE  IInv'
<1>1. UNCHANGED <<status, current, revs, nextId, job, queue, req, run>>
  BY DEF vars
<1>2. /\ HistoryOK' /\ IdsBelowNext' /\ JobNeverOverwrites' /\ NoOrphans'
  BY <1>1, RequestOnly
<1>3. TypeOK'
  BY <1>1 DEF IInv, TypeOK
<1>4. RequestsKnow'
  BY <1>1, RequestsStillKnow DEF RevisionsOf, Live
<1>5. TasksKnow'
  BY <1>1, TasksStillKnow
<1> QED BY <1>2, <1>3, <1>4, <1>5 DEF IInv

---------------------------------------------------------------------------

(* IInv is inductive: one step of the proof per action of Next.            *)
LEMMA NextIInv == IInv /\ [Next]_vars => IInv'
<1> SUFFICES ASSUME IInv, [Next]_vars PROVE IInv'
  OBVIOUS
<1>1. ASSUME NEW w \in Workspace, CreateWorkspace(w) PROVE IInv'
  BY <1>1, CreateIInv
<1>2. ASSUME NEW w \in Workspace, ApproveWorkspace(w) PROVE IInv'
  BY <1>2, ApproveIInv
<1>3. ASSUME NEW w \in Workspace, DeleteWorkspace(w) PROVE IInv'
  BY <1>3, DeleteIInv
<1>4. ASSUME NEW r \in Request, RequestStep(r) PROVE IInv'
  <2>1. ASSUME NEW w \in Workspace,
               \/ \E named \in BOOLEAN : SaveRead(r, w, named)
               \/ AskModel(r, w)
               \/ RestoreRead(r, w)
               \/ QueueRead(r, w)
        PROVE  IInv'
    <3>1. UNCHANGED <<status, current, revs, nextId, job, run>>
      BY <2>1 DEF SaveRead, AskModel, RestoreRead, QueueRead
    <3> QED BY <2>1, <3>1, RequestIInv
  <2>2. ASSUME \/ ModelAnswers(r) \/ SelectNumber(r) \/ SaveConflicts(r)
               \/ RequestEnds(r) \/ DeferJob(r)
        PROVE  IInv'
    <3>1. UNCHANGED <<status, current, revs, nextId, job, run>>
      BY <2>2 DEF ModelAnswers, SelectNumber, SaveConflicts, RequestEnds,
                  DeferJob
    <3> QED BY <2>2, <3>1, RequestIInv
  <2>3. CASE SaveCommits(r)
    BY <2>3, SaveIInv
  <2>4. ASSUME NEW j \in Job, QueueCommits(r, j) PROVE IInv'
    BY <2>4, QueueIInv
  <2> QED BY <2>1, <2>2, <2>3, <2>4, <1>4 DEF RequestStep
<1>5. ASSUME NEW j \in Job, TaskStep(j) \/ WorkerDies(j) PROVE IInv'
  <2>1. ASSUME NEW ok \in BOOLEAN, JobSucceeds(j, ok) PROVE IInv'
    BY <2>1, JobIInv
  <2>2. CASE \/ ClaimJob(j) \/ LoadJob(j) \/ JobConflicts(j) \/ JobFails(j)
             \/ JobRowGone(j) \/ WorkerDies(j)
    BY <2>2, TaskIInv
  <2> QED BY <2>1, <2>2, <1>5 DEF TaskStep
<1>6. CASE UNCHANGED vars
  BY <1>6, StutterIInv
<1> QED BY <1>1, <1>2, <1>3, <1>4, <1>5, <1>6 DEF Next

(* Every reachable state satisfies the inductive invariant.                *)
THEOREM IInvAlways == Spec => []IInv
<1>1. Init => IInv
  BY InitIInv
<1>2. IInv /\ [Next]_vars => IInv'
  BY NextIInv
<1> QED BY <1>1, <1>2, PTL DEF Spec

(* All variables keep their types.                                         *)
THEOREM TypeCorrect == Spec => []TypeOK
<1>1. IInv => TypeOK
  BY DEF IInv
<1> QED BY <1>1, IInvAlways, PTL

(* However requests, tasks, approvals and deletions interleave, the        *)
(* revisions of a live workspace are numbered 1..n without gaps or         *)
(* duplicates and the newest is the current one.                           *)
THEOREM HistoryAlways == Spec => []HistoryOK
<1>1. IInv => HistoryOK
  BY DEF IInv
<1> QED BY <1>1, IInvAlways, PTL

(* Deletion leaves neither revisions nor job rows behind.                  *)
THEOREM NoOrphansEver == Spec => []NoOrphans
<1>1. IInv => NoOrphans
  BY DEF IInv
<1> QED BY <1>1, IInvAlways, PTL

(* The revision a job writes follows the very revision the job read.       *)
THEOREM JobsNeverOverwrite == Spec => []JobNeverOverwrites
<1>1. IInv => JobNeverOverwrites
  BY DEF IInv
<1> QED BY <1>1, IInvAlways, PTL

(* Whoever replaces the current revision of a live workspace appends the   *)
(* number after it: InsertKeepsHistory made the inserted revision newest.  *)
LEMMA InsertAppends ==
  ASSUME IInv, NEW w \in Workspace, NEW n \in Nat, NEW ok \in BOOLEAN,
         NEW by, NEW basis, NEW j,
         CanInsert(w, n), \E v \in RevisionsOf(w) : n = v.number + 1,
         Insert(w, n, ok, by, basis, j),
         NEW x \in Workspace, current'[x] # current[x]
  PROVE  Precedes(x)
<1>1. x = w /\ current'[w] = nextId
  BY DEF Insert, IInv, TypeOK
<1>2. PICK new \in revs' : new.id = nextId /\ new.ws = w /\ new.number = n
  <2> DEFINE row == [id |-> nextId, ws |-> w, number |-> n, valid |-> ok,
                     by |-> by, basis |-> basis, job |-> j]
  <2>1. row \in revs'
    BY DEF Insert
  <2>2. row.id = nextId /\ row.ws = w /\ row.number = n
    OBVIOUS
  <2> HIDE DEF row
  <2> QED BY <2>1, <2>2
<1>3. PICK p \in RevisionsOf(w) : n = p.number + 1
  OBVIOUS
<1>4. PICK top \in revs : /\ top.ws = w /\ top.id = current[w]
                          /\ \A u \in RevisionsOf(w) : u.number <= top.number
  BY DEF CanInsert, IInv, HistoryOK, CurrentIsNewest
<1>5. top.number \in Nat /\ p.number \in Nat /\ p.number <= top.number
  BY <1>3, <1>4 DEF IInv, TypeOK, Revision, RevisionsOf
<1>6. top.number = p.number
  <2> SUFFICES ASSUME n \in 1..top.number PROVE FALSE
    BY <1>3, <1>5
  <2>1. PICK u \in revs : u.ws = w /\ u.number = n
    BY <1>4 DEF IInv, HistoryOK, NumbersContiguous
  <2> QED BY <2>1 DEF CanInsert, RevisionsOf
<1> QED BY <1>1, <1>2, <1>3, <1>4, <1>6 DEF Precedes

(* The current revision of a live workspace never goes back, skips a       *)
(* number or is replaced by one of the same number.                        *)
THEOREM HistoryOnlyAppends == Spec => HistoryAppends
<1>1. IInv /\ [Next]_vars =>
        [\A w \in Workspace :
           Live(w) /\ Live(w)' /\ current'[w] # current[w]
             => Precedes(w)]_vars
  <2> SUFFICES ASSUME IInv, Next, NEW x \in Workspace,
                      Live(x), Live(x)', current'[x] # current[x]
               PROVE  Precedes(x)
    OBVIOUS
  <2>1. ASSUME NEW w \in Workspace, CreateWorkspace(w) PROVE FALSE
    BY <2>1 DEF CreateWorkspace, Insert, Live, IInv, TypeOK
  <2>2. ASSUME NEW w \in Workspace, DeleteWorkspace(w) PROVE FALSE
    BY <2>2 DEF DeleteWorkspace, Live, IInv, TypeOK
  <2>3. ASSUME NEW r \in Request, SaveCommits(r) PROVE Precedes(x)
    <3>1. /\ req[r].ws \in Workspace /\ CanInsert(req[r].ws, req[r].number)
          /\ \E v \in RevisionsOf(req[r].ws) : req[r].number = v.number + 1
      BY <2>3 DEF SaveCommits, IInv, RequestsKnow, RequestKnows, CanInsert
    <3>2. req[r].number \in Nat
      BY DEF IInv, TypeOK, RequestState
    <3> QED BY <3>1, <3>2, <2>3, InsertAppends DEF SaveCommits
  <2>4. ASSUME NEW j \in Job, NEW ok \in BOOLEAN, JobSucceeds(j, ok)
        PROVE  Precedes(x)
    <3>1. /\ job[j].ws \in Workspace /\ CanInsert(job[j].ws, run[j].number)
          /\ \E v \in RevisionsOf(job[j].ws) : run[j].number = v.number + 1
      BY <2>4 DEF JobSucceeds, IInv, NoOrphans, TasksKnow
    <3>2. run[j].number \in Nat
      BY DEF IInv, TypeOK, TaskState
    <3> QED BY <3>1, <3>2, <2>4, InsertAppends DEF JobSucceeds
  <2>5. \/ UNCHANGED current
        \/ \E w \in Workspace : CreateWorkspace(w)
        \/ \E w \in Workspace : DeleteWorkspace(w)
        \/ \E r \in Request : SaveCommits(r)
        \/ \E j \in Job : \E ok \in BOOLEAN : JobSucceeds(j, ok)
    <3>1. ASSUME NEW r \in Request, RequestStep(r)
          PROVE  SaveCommits(r) \/ UNCHANGED current
      BY <3>1 DEF RequestStep, SaveRead, AskModel, RestoreRead, QueueRead,
                  ModelAnswers, SelectNumber, SaveConflicts, RequestEnds,
                  QueueCommits, DeferJob
    <3>2. ASSUME NEW j \in Job, TaskStep(j) \/ WorkerDies(j)
          PROVE  \/ \E ok \in BOOLEAN : JobSucceeds(j, ok)
                 \/ UNCHANGED current
      BY <3>2 DEF TaskStep, ClaimJob, LoadJob, JobConflicts, JobFails,
                  JobRowGone, WorkerDies
    <3> QED BY <3>1, <3>2 DEF Next, ApproveWorkspace
  <2> QED BY <2>1, <2>2, <2>3, <2>4, <2>5
<1> QED BY <1>1, IInvAlways, PTL DEF Spec, HistoryAppends
---------------------------------------------------------------------------
(* Jobs take effect once *)

JobInv == JobRunsOnce /\ JobEffectOnce

MadeBy(j) == {v \in revs : v.job = j}

(* Revisions that no job writes, and steps of requests that are not at the *)
(* point of deferring a task, leave every job as it was.                   *)
LEMMA JobsUntouched ==
  ASSUME JobInv, UNCHANGED <<job, queue, run>>,
         \A j \in Job : MadeBy(j)' = MadeBy(j),
         \A r \in Request : req'[r].phase = "queued" => req'[r] = req[r]
  PROVE  JobInv'
<1>1. JobRunsOnce'
  BY DEF JobInv, JobRunsOnce
<1>2. JobEffectOnce'
  BY DEF JobInv, JobEffectOnce, MadeBy
<1> QED BY <1>1, <1>2 DEF JobInv

(* An insert that names no job makes nothing for any job.                  *)
LEMMA InsertForNobody ==
  ASSUME NEW w, NEW n, NEW ok, NEW by, NEW basis, Insert(w, n, ok, by, basis, None),
         NEW j \in Job
  PROVE  MadeBy(j)' = MadeBy(j)
BY NoneAssumption DEF Insert, MadeBy

(* Steps of one job's task or row, whose revisions stay.                   *)
LEMMA OneJobMoves ==
  ASSUME IInv, JobInv, NEW j \in Job, UNCHANGED <<revs, req>>,
         queue' \subseteq queue, j \notin queue',
         \A i \in Job : i # j => run'[i] = run[i] /\ job'[i] = job[i],
         \A r \in Request : req[r].phase = "queued" => req[r].job # j,
         job[j].status # "succeeded" => job'[j].status # "succeeded",
         job[j].status = "succeeded" => job'[j] = job[j],
         run'[j].phase \in {"idle", "deferring", "claimed", "asking"} =>
            job'[j].status # "succeeded"
  PROVE  JobInv'
<1>1. /\ queue \subseteq Job
      /\ \A r \in Request : req[r].phase = "queued" => req[r].job \in Job
  BY DEF IInv, TypeOK, RequestsKnow, RequestKnows
<1>2. JobRunsOnce'
  BY <1>1 DEF JobInv, JobRunsOnce
<1>3. JobEffectOnce'
  <2> SUFFICES ASSUME NEW i \in Job
               PROVE  LET made == {v \in revs : v.job = i}
                      IN  /\ \A u, v \in made : u = v
                          /\ job'[i].status = "succeeded" =>
                               \E v \in made : v.id = job'[i].result /\ v.ws = job'[i].ws
                          /\ job'[i].status # "succeeded" => made = {}
    BY DEF JobEffectOnce
  <2> QED BY DEF JobInv, JobEffectOnce
<1> QED BY <1>2, <1>3 DEF JobInv

LEMMA DeleteJobInv ==
  ASSUME IInv, JobInv, NEW w \in Workspace, DeleteWorkspace(w)
  PROVE  JobInv'
<1>1. /\ \A v : v \in revs' <=> v \in revs /\ v.ws # w
      /\ \A j \in Job : job'[j] = IF job[j].ws = w THEN NoJobRow ELSE job[j]
      /\ UNCHANGED <<queue, req, run>>
  BY DEF DeleteWorkspace, RevisionsOf
<1>2. NoJobRow.status # "succeeded"
  BY DEF NoJobRow
<1>3. JobRunsOnce'
  BY <1>1, <1>2 DEF JobInv, JobRunsOnce
<1>4. JobEffectOnce'
  BY <1>1, <1>2 DEF JobInv, JobEffectOnce
<1> QED BY <1>3, <1>4 DEF JobInv

(* A job that is queued was never run: its phase leaves "idle" here only.  *)
LEMMA QueueJobInv ==
  ASSUME IInv, JobInv, NEW r \in Request, NEW j \in Job, QueueCommits(r, j)
  PROVE  JobInv'
<1>1. /\ run[j].phase = "idle" /\ job[j].status = "none"
      /\ revs' = revs /\ queue' = queue
      /\ \A i \in Job : i # j => run'[i] = run[i] /\ job'[i] = job[i]
      /\ run'[j].phase = "deferring" /\ job'[j].status = "queued"
      /\ \A q \in Request : q # r => req'[q] = req[q]
      /\ req'[r].phase = "queued" /\ req'[r].job = j
  BY DEF QueueCommits, IInv, TypeOK, JobRow, RequestState, TaskState
<1>2. /\ j \notin queue
      /\ \A q \in Request : req[q].phase = "queued" => req[q].job # j
  BY <1>1 DEF JobInv, JobRunsOnce
<1>3. JobRunsOnce'
  BY <1>1, <1>2 DEF JobInv, JobRunsOnce, IInv, TypeOK, RequestsKnow, RequestKnows
<1>4. JobEffectOnce'
  BY <1>1 DEF JobInv, JobEffectOnce
<1> QED BY <1>3, <1>4 DEF JobInv

LEMMA DeferJobInv ==
  ASSUME IInv, JobInv, NEW r \in Request, DeferJob(r)
  PROVE  JobInv'
<1>1. /\ req[r].phase = "queued" /\ queue' = queue \cup {req[r].job}
      /\ UNCHANGED <<revs, job, run>>
      /\ \A q \in Request : q # r => req'[q] = req[q]
      /\ req'[r].phase = "idle"
  BY DEF DeferJob, Answer, IdleReq, IInv, TypeOK
<1>2. JobRunsOnce'
  BY <1>1 DEF JobInv, JobRunsOnce
<1>3. JobEffectOnce'
  BY <1>1 DEF JobInv, JobEffectOnce
<1> QED BY <1>2, <1>3 DEF JobInv

(* The one revision of a job and its "succeeded" are one commit.           *)
LEMMA SuccessJobInv ==
  ASSUME IInv, JobInv, NEW j \in Job, NEW ok \in BOOLEAN, JobSucceeds(j, ok)
  PROVE  JobInv'
<1> DEFINE new == [id |-> nextId, ws |-> job[j].ws, number |-> run[j].number,
                   valid |-> ok, by |-> "job", basis |-> run[j].basis, job |-> j]
<1>1. /\ revs' = revs \cup {new} /\ UNCHANGED <<queue, req>>
      /\ run[j].phase = "asking" /\ job[j].status = "running"
  BY DEF JobSucceeds, Insert
<1>2. new.id = nextId /\ new.ws = job[j].ws /\ new.job = j
  OBVIOUS
<1>3. /\ \A i \in Job : i # j => run'[i] = run[i] /\ job'[i] = job[i]
      /\ run'[j].phase = "over" /\ job'[j].status = "succeeded"
      /\ job'[j].result = nextId /\ job'[j].ws = job[j].ws
  BY DEF JobSucceeds, EndRun, IInv, TypeOK, JobRow, TaskState
<1> HIDE DEF new
<1>4. JobRunsOnce'
  <2>1. j \notin queue
    BY <1>1 DEF JobInv, JobRunsOnce
  <2>2. \A r \in Request : req[r].phase = "queued" => req[r].job # j
    BY <1>1 DEF JobInv, JobRunsOnce
  <2>3. queue \subseteq Job /\ \A r \in Request : req[r].phase = "queued" => req[r].job \in Job
    BY DEF IInv, TypeOK, RequestsKnow, RequestKnows
  <2> QED BY <1>1, <1>3, <2>1, <2>2, <2>3 DEF JobInv, JobRunsOnce
<1>5. JobEffectOnce'
  <2>1. {v \in revs : v.job = j} = {}
    BY <1>1 DEF JobInv, JobEffectOnce
  <2>2. \A v \in revs' : v.job = j => v = new
    BY <1>1, <2>1
  <2> QED BY <1>1, <1>2, <1>3, <2>2 DEF JobInv, JobEffectOnce
<1> QED BY <1>4, <1>5 DEF JobInv

(* The other steps of a task.                                              *)
LEMMA TaskJobInv ==
  ASSUME IInv, JobInv, NEW j \in Job,
         \/ ClaimJob(j) \/ LoadJob(j) \/ JobConflicts(j) \/ JobFails(j)
         \/ JobRowGone(j) \/ WorkerDies(j)
  PROVE  JobInv'
<1>1. /\ UNCHANGED <<revs, req>> /\ queue' \subseteq queue
      /\ \A i \in Job : i # j => run'[i] = run[i] /\ job'[i] = job[i]
  BY DEF ClaimJob, LoadJob, JobConflicts, JobFails, JobRowGone, WorkerDies,
         EndRun, IInv, TypeOK
<1>2. CASE ClaimJob(j)
  <2>1. j \notin queue' /\ \A r \in Request : req[r].phase = "queued" => req[r].job # j
    BY <1>2 DEF ClaimJob, JobInv, JobRunsOnce
  <2>2. job[j].status # "succeeded"
    BY <1>2 DEF ClaimJob, JobInv, JobRunsOnce
  <2>3. job'[j].status # "succeeded"
    BY <1>2, <2>2 DEF ClaimJob, IInv, TypeOK, JobRow
  <2> QED BY <1>1, <2>1, <2>2, <2>3, OneJobMoves
<1>3. CASE \/ LoadJob(j) \/ JobConflicts(j) \/ JobFails(j)
           \/ JobRowGone(j) \/ WorkerDies(j)
  <2>1. run[j].phase \in {"claimed", "asking"} /\ queue' = queue
    BY <1>3 DEF LoadJob, JobConflicts, JobFails, JobRowGone, WorkerDies
  <2>2. /\ j \notin queue' /\ job[j].status # "succeeded"
        /\ \A r \in Request : req[r].phase = "queued" => req[r].job # j
    BY <2>1 DEF JobInv, JobRunsOnce
  <2>3. job'[j].status # "succeeded"
    BY <1>3, <2>2 DEF LoadJob, JobConflicts, JobFails, JobRowGone, WorkerDies,
                      IInv, TypeOK, JobRow
  <2> QED BY <1>1, <2>2, <2>3, OneJobMoves
<1> QED BY <1>2, <1>3

LEMMA NextJobInv == IInv /\ JobInv /\ [Next]_vars => JobInv'
<1> SUFFICES ASSUME IInv, JobInv, [Next]_vars PROVE JobInv'
  OBVIOUS
<1>1. ASSUME NEW w \in Workspace, CreateWorkspace(w) PROVE JobInv'
  BY <1>1, InsertForNobody, JobsUntouched DEF CreateWorkspace
<1>2. ASSUME NEW w \in Workspace, ApproveWorkspace(w) PROVE JobInv'
  BY <1>2, JobsUntouched DEF ApproveWorkspace, MadeBy
<1>3. ASSUME NEW w \in Workspace, DeleteWorkspace(w) PROVE JobInv'
  BY <1>3, DeleteJobInv
<1>4. ASSUME NEW r \in Request, RequestStep(r) PROVE JobInv'
  <2>1. CASE SaveCommits(r)
    <3>1. /\ UNCHANGED <<job, queue, run>>
          /\ \A q \in Request : req'[q].phase = "queued" => req'[q] = req[q]
          /\ \A j \in Job : MadeBy(j)' = MadeBy(j)
      BY <2>1, InsertForNobody DEF SaveCommits, Answer, IdleReq, IInv, TypeOK
    <3> QED BY <3>1, JobsUntouched
  <2>2. CASE \/ \E w \in Workspace :
                 \/ \E named \in BOOLEAN : SaveRead(r, w, named)
                 \/ AskModel(r, w) \/ RestoreRead(r, w) \/ QueueRead(r, w)
             \/ ModelAnswers(r) \/ SelectNumber(r) \/ SaveConflicts(r)
             \/ RequestEnds(r)
    <3>1. UNCHANGED <<revs, job, queue, run>>
      BY <2>2 DEF SaveRead, AskModel, RestoreRead, QueueRead, ModelAnswers,
                  SelectNumber, SaveConflicts, RequestEnds
    <3>2. /\ \A q \in Request : q # r => req'[q] = req[q]
          /\ req'[r].phase \in {"idle", "asking", "checked", "numbered", "queuing"}
      BY <2>2 DEF SaveRead, AskModel, RestoreRead, QueueRead, ModelAnswers,
                  SelectNumber, SaveConflicts, RequestEnds, Start, Answer,
                  IdleReq, IInv, TypeOK, RequestState
    <3> QED BY <3>1, <3>2, JobsUntouched DEF MadeBy
  <2>3. ASSUME NEW j \in Job, QueueCommits(r, j) PROVE JobInv'
    BY <2>3, QueueJobInv
  <2>4. CASE DeferJob(r)
    BY <2>4, DeferJobInv
  <2> QED BY <2>1, <2>2, <2>3, <2>4, <1>4 DEF RequestStep
<1>5. ASSUME NEW j \in Job, TaskStep(j) \/ WorkerDies(j) PROVE JobInv'
  BY <1>5, TaskJobInv, SuccessJobInv DEF TaskStep
<1>6. CASE UNCHANGED vars
  BY <1>6, JobsUntouched DEF vars, MadeBy
<1> QED BY <1>1, <1>2, <1>3, <1>4, <1>5, <1>6 DEF Next

LEMMA InitJobInv == Init => JobInv
BY DEF Init, JobInv, JobRunsOnce, JobEffectOnce, IdleReq, IdleRun, NoJobRow

LEMMA JobInvAlways == Spec => []JobInv
BY InitJobInv, NextJobInv, IInvAlways, PTL DEF Spec

(* A job is queued by one request and its task deferred, claimed and run   *)
(* at most once, whatever crashes or is deleted in between.                *)
THEOREM JobsRunOnce == Spec => []JobRunsOnce
<1>1. JobInv => JobRunsOnce
  BY DEF JobInv
<1> QED BY <1>1, JobInvAlways, PTL

(* A job reports success exactly when it wrote one revision of its own     *)
(* workspace: row and revision are one commit.                             *)
THEOREM JobsTakeEffectOnce == Spec => []JobEffectOnce
<1>1. JobInv => JobEffectOnce
  BY DEF JobInv
<1> QED BY <1>1, JobInvAlways, PTL

---------------------------------------------------------------------------
(* The implementation of ResumeHistory *)

(* The newest of some revisions is the largest number among them.          *)
LEMMA LargestIs ==
  ASSUME NEW R \in SUBSET Revision, NEW v \in R,
         \A u \in R : u.number <= v.number
  PROVE  v.number = CHOOSE n \in {0} \cup {u.number : u \in R} :
                      \A u \in R : u.number <= n
<1> DEFINE S == {0} \cup {u.number : u \in R}
           P(n) == \A u \in R : u.number <= n
<1>1. v.number \in S /\ P(v.number)
  OBVIOUS
<1>2. \A n \in S : P(n) => n = v.number
  BY DEF Revision
<1> SUFFICES v.number = CHOOSE n \in S : P(n)
  OBVIOUS
<1> HIDE DEF S, P
<1> QED BY <1>1, <1>2

(* A number names at most one revision of a workspace.                     *)
LEMMA NumberedIs ==
  ASSUME NEW R, NEW v \in R, \A u \in R : u.number = v.number => u = v
  PROVE  v = CHOOSE u \in R : u.number = v.number
OBVIOUS

(* Deleted and absent workspaces have an empty history.                    *)
LEMMA NoHistory ==
  ASSUME NEW w, RevisionsOf(w) = {}
  PROVE  Newest(w) = 0 /\ HistoryOf(w) = <<>>
<1>1. Newest(w) = CHOOSE n \in {0} : TRUE
  BY DEF Newest
<1>2. Newest(w) = 0
  BY <1>1
<1>3. 1..Newest(w) = {}
  BY <1>2
<1> QED BY <1>2, <1>3 DEF HistoryOf

LEMMA NoHistoryNow ==
  ASSUME NEW w, RevisionsOf(w)' = {}
  PROVE  HistoryOf(w)' = <<>>
<1>1. Newest(w)' = CHOOSE n \in {0} : TRUE
  BY DEF Newest
<1>2. Newest(w)' = 0
  BY <1>1
<1>3. 1..Newest(w)' = {}
  BY <1>2
<1> QED BY <1>3 DEF HistoryOf

(* A history with no gap is a list of ids, as long as its newest number.   *)
LEMMA HistoryIsList ==
  ASSUME IInv, NEW w \in Workspace
  PROVE  /\ Newest(w) \in Nat
         /\ \A n \in 1..Newest(w) : \E v \in RevisionsOf(w) : v.number = n
         /\ \A v \in RevisionsOf(w) : v.number <= Newest(w)
         /\ HistoryOf(w) \in Seq(Nat)
         /\ Len(HistoryOf(w)) = Newest(w)
<1>1. Newest(w) \in Nat
  BY NewestType DEF IInv
<1>2. /\ \A n \in 1..Newest(w) : \E v \in RevisionsOf(w) : v.number = n
      /\ \A v \in RevisionsOf(w) : v.number <= Newest(w)
  <2>1. CASE Live(w)
    <3>1. PICK top \in RevisionsOf(w) : \A u \in RevisionsOf(w) : u.number <= top.number
      BY <2>1 DEF IInv, HistoryOK, CurrentIsNewest, RevisionsOf
    <3>2. Newest(w) = top.number
      BY <3>1, LargestIs DEF IInv, TypeOK, RevisionsOf, Newest
    <3> QED BY <3>1, <3>2 DEF IInv, HistoryOK, NumbersContiguous, RevisionsOf
  <2>2. CASE ~Live(w)
    <3>1. RevisionsOf(w) = {}
      BY <2>2 DEF IInv, NoOrphans, RevisionsOf
    <3> QED BY <3>1, NoHistory
  <2> QED BY <2>1, <2>2
<1>3. \A n \in 1..Newest(w) : HistoryOf(w)[n] \in Nat
  <2> SUFFICES ASSUME NEW n \in 1..Newest(w) PROVE HistoryOf(w)[n] \in Nat
    OBVIOUS
  <2>1. PICK v \in RevisionsOf(w) : v.number = n
    BY <1>2
  <2>2. v = CHOOSE u \in RevisionsOf(w) : u.number = n
    BY <2>1, NumberedIs DEF IInv, HistoryOK, NumbersUnique, RevisionsOf
  <2>3. HistoryOf(w)[n] = v.id
    BY <2>2 DEF HistoryOf
  <2> QED BY <2>3 DEF IInv, TypeOK, Revision, RevisionsOf
<1>4. HistoryOf(w) \in [1..Newest(w) -> Nat]
  BY <1>3 DEF HistoryOf
<1> HIDE DEF HistoryOf
<1> QED BY <1>1, <1>2, <1>4

(* The next number is one more than the newest: nothing was written since  *)
(* it was computed, or the unique index would refuse it.                   *)
LEMMA NumberIsNext ==
  ASSUME IInv, NEW w \in Workspace, NEW n, CanInsert(w, n),
         \E v \in RevisionsOf(w) : n = v.number + 1
  PROVE  n = Newest(w) + 1
<1>1. PICK p \in RevisionsOf(w) : n = p.number + 1
  OBVIOUS
<1>2. p.number \in Nat \ {0} /\ Newest(w) \in Nat /\ p.number <= Newest(w)
  BY HistoryIsList DEF IInv, TypeOK, Revision, RevisionsOf
<1>3. ~(n \in 1..Newest(w))
  BY HistoryIsList DEF CanInsert
<1> QED BY <1>1, <1>2, <1>3

(* A step that keeps the rows of a workspace keeps its history.            *)
LEMMA SameHistory ==
  ASSUME NEW w, RevisionsOf(w)' = RevisionsOf(w)
  PROVE  HistoryOf(w)' = HistoryOf(w)
BY DEF HistoryOf, Newest

(* A step that inserts the next number extends its history by its id.      *)
LEMMA InsertExtends ==
  ASSUME IInv, HistoryOK', revs' \subseteq Revision,
         NEW w \in Workspace, NEW row,
         revs' = revs \cup {row}, row.ws = w, row.number = Newest(w) + 1
  PROVE  /\ HistoryOf(w)' = Append(HistoryOf(w), row.id)
         /\ \A x \in Workspace : x # w => HistoryOf(x)' = HistoryOf(x)
<1>1. RevisionsOf(w)' = RevisionsOf(w) \cup {row}
  BY DEF RevisionsOf
<1>2. PICK len \in Nat : len = Newest(w)
  BY HistoryIsList
<1>3. Newest(w)' = len + 1
  <2>1. \A u \in RevisionsOf(w)' : u.number <= row.number
    BY <1>1, <1>2, HistoryIsList DEF IInv, TypeOK, Revision, RevisionsOf
  <2>2. RevisionsOf(w)' \in SUBSET Revision
    BY DEF RevisionsOf
  <2>3. row \in RevisionsOf(w)'
    BY <1>1
  <2> QED BY <2>1, <2>2, <2>3, <1>2, LargestIs DEF Newest
<1>4. \A u, v \in RevisionsOf(w)' : u.number = v.number => u = v
  BY DEF HistoryOK, NumbersUnique, RevisionsOf
<1>5. HistoryOf(w)' = [k \in 1..(len + 1) |->
                        IF k = len + 1 THEN row.id ELSE HistoryOf(w)[k]]
  <2>1. ASSUME NEW k \in 1..(len + 1)
        PROVE  (CHOOSE v \in RevisionsOf(w)' : v.number = k).id
                 = IF k = len + 1 THEN row.id ELSE HistoryOf(w)[k]
    <3>1. CASE k = len + 1
      <4>1. row = CHOOSE v \in RevisionsOf(w)' : v.number = k
        BY <3>1, <1>1, <1>2, <1>4, NumberedIs
      <4> QED BY <4>1, <3>1
    <3>2. CASE k # len + 1
      <4>1. k \in 1..len
        BY <3>2
      <4>2. PICK v \in RevisionsOf(w) : v.number = k
        BY <4>1, <1>2, HistoryIsList
      <4>3. v = CHOOSE u \in RevisionsOf(w)' : u.number = k
        BY <4>2, <1>1, <1>4, NumberedIs
      <4>4. v = CHOOSE u \in RevisionsOf(w) : u.number = k
        BY <4>2, <1>1, <1>4, NumberedIs
      <4>5. HistoryOf(w)[k] = v.id
        BY <4>1, <4>4, <1>2 DEF HistoryOf
      <4> QED BY <4>3, <4>5, <3>2
    <3> QED BY <3>1, <3>2
  <2>2. HistoryOf(w)' = [k \in 1..Newest(w)' |->
                          (CHOOSE v \in RevisionsOf(w)' : v.number = k).id]
    BY DEF HistoryOf
  <2> QED BY <2>1, <2>2, <1>3
<1>6. HistoryOf(w)' = Append(HistoryOf(w), row.id)
  <2>1. PICK old \in Seq(Nat) : old = HistoryOf(w) /\ Len(old) = len
    BY <1>2, HistoryIsList
  <2>2. Append(old, row.id) = [k \in 1..(len + 1) |->
                                IF k = len + 1 THEN row.id ELSE old[k]]
    BY <2>1
  <2> QED BY <2>1, <2>2, <1>5
<1>7. \A x \in Workspace : x # w => HistoryOf(x)' = HistoryOf(x)
  BY SameHistory DEF RevisionsOf
<1> QED BY <1>6, <1>7

(* What an insert does to the lists, the current revision and the ids.     *)
HistoryAdds(w) ==
  \E id \in 1..MaxRevision : History!Add(w, id)

LEMMA InsertAdds ==
  ASSUME IInv, IInv', NEW w \in Workspace, NEW row,
         revs' = revs \cup {row}, row.ws = w, row.number = Newest(w) + 1,
         row.id = nextId, nextId <= MaxRevision, nextId' = nextId + 1,
         current' = [current EXCEPT ![w] = nextId]
  PROVE  HistoryAdds(w)
<1>1. /\ HistoryOf(w)' = Append(HistoryOf(w), nextId)
      /\ \A x \in Workspace : x # w => HistoryOf(x)' = HistoryOf(x)
  BY InsertExtends DEF IInv, TypeOK
<1>2. [x \in Workspace |-> HistoryOf(x)]'
        = [[x \in Workspace |-> HistoryOf(x)] EXCEPT
             ![w] = Append(HistoryOf(w), nextId)]
  BY <1>1
<1>3. /\ nextId \in (1..MaxRevision) \ (1..(nextId - 1))
      /\ 1..(nextId' - 1) = (1..(nextId - 1)) \cup {nextId}
  BY MaxRevisionAssumption DEF IInv, TypeOK
<1> QED BY <1>2, <1>3 DEF HistoryAdds, History!Add

(* A step that writes neither revisions nor ids keeps every history.       *)
LEMMA HistoryKept ==
  ASSUME UNCHANGED <<revs, nextId>>
  PROVE  /\ [w \in Workspace |-> HistoryOf(w)]' = [w \in Workspace |-> HistoryOf(w)]
         /\ (1..(nextId - 1))' = 1..(nextId - 1)
<1>1. \A w \in Workspace : HistoryOf(w)' = HistoryOf(w)
  BY SameHistory DEF RevisionsOf
<1> QED BY <1>1

(* A commit of a save or of a job's task revises the workspace's history.  *)
LEMMA InsertRevises ==
  ASSUME IInv, IInv', NEW w \in Workspace, NEW n,
         NEW ok, NEW by, NEW basis, NEW j,
         CanInsert(w, n), \E v \in RevisionsOf(w) : n = v.number + 1,
         Insert(w, n, ok, by, basis, j), UNCHANGED status
  PROVE  History!Revise(w)
<1>1. n = Newest(w) + 1
  BY NumberIsNext
<1>2. PICK row : row = [id |-> nextId, ws |-> w, number |-> n, valid |-> ok,
                        by |-> by, basis |-> basis, job |-> j]
  OBVIOUS
<1>3. row.id = nextId /\ row.ws = w /\ row.number = n
  BY <1>2
<1>4. revs' = revs \cup {row}
  BY <1>2 DEF Insert
<1>5. HistoryAdds(w)
  BY <1>1, <1>3, <1>4, InsertAdds DEF Insert, IInv, TypeOK
<1> QED BY <1>5 DEF History!Revise, HistoryAdds, CanInsert, Live

(* Every step of the handlers and the worker is a step of the history, or  *)
(* none of its business.                                                   *)
LEMMA StepOfHistory ==
  IInv /\ IInv' /\ [Next]_vars => [History!Next]_(History!vars)
<1> SUFFICES ASSUME IInv, IInv', [Next]_vars
             PROVE  [History!Next]_(History!vars)
  OBVIOUS
<1>1. ASSUME NEW w \in Workspace, CreateWorkspace(w) PROVE History!Create(w)
  <2>1. RevisionsOf(w) = {}
    BY <1>1 DEF CreateWorkspace, IInv, NoOrphans, RevisionsOf, Live
  <2>2. PICK row : row = [id |-> nextId, ws |-> w, number |-> 1,
                          valid |-> TRUE, by |-> "create", basis |-> 0,
                          job |-> None]
    OBVIOUS
  <2>3. row.id = nextId /\ row.ws = w /\ row.number = 1
    BY <2>2
  <2>4. revs' = revs \cup {row} /\ current' = [current EXCEPT ![w] = nextId]
          /\ nextId' = nextId + 1 /\ nextId <= MaxRevision
    BY <1>1, <2>2 DEF CreateWorkspace, Insert
  <2>5. row.number = Newest(w) + 1
    BY <2>1, <2>3, NoHistory
  <2>6. HistoryAdds(w)
    BY <2>3, <2>4, <2>5, InsertAdds
  <2> QED BY <1>1, <2>6 DEF CreateWorkspace, History!Create, HistoryAdds
<1>2. ASSUME NEW w \in Workspace, ApproveWorkspace(w) PROVE History!Approve(w)
  <2>1. UNCHANGED <<current, revs, nextId>>
    BY <1>2 DEF ApproveWorkspace
  <2> QED BY <1>2, <2>1, HistoryKept DEF ApproveWorkspace, History!Approve
<1>3. ASSUME NEW w \in Workspace, DeleteWorkspace(w) PROVE History!Delete(w)
  <2>1. revs' = revs \ RevisionsOf(w) /\ UNCHANGED nextId
    BY <1>3 DEF DeleteWorkspace
  <2>2. RevisionsOf(w)' = {} /\ HistoryOf(w)' = <<>>
    BY <2>1, NoHistoryNow DEF RevisionsOf
  <2>3. \A x \in Workspace : x # w => HistoryOf(x)' = HistoryOf(x)
    BY <2>1, SameHistory DEF RevisionsOf
  <2>4. [x \in Workspace |-> HistoryOf(x)]'
          = [[x \in Workspace |-> HistoryOf(x)] EXCEPT ![w] = <<>>]
    BY <2>2, <2>3
  <2> QED BY <1>3, <2>1, <2>4 DEF DeleteWorkspace, History!Delete, Live
<1>4. ASSUME NEW r \in Request, RequestStep(r)
      PROVE  [History!Next]_(History!vars)
  <2>1. CASE SaveCommits(r)
    <3>1. CanInsert(req[r].ws, req[r].number) /\ req[r].phase = "numbered"
      BY <2>1 DEF SaveCommits
    <3>2. req[r].ws \in Workspace
            /\ \E v \in RevisionsOf(req[r].ws) : req[r].number = v.number + 1
      BY <3>1 DEF IInv, RequestsKnow, RequestKnows, CanInsert
    <3>3. History!Revise(req[r].ws)
      BY <2>1, <3>1, <3>2, InsertRevises DEF SaveCommits
    <3> QED BY <3>2, <3>3 DEF History!Next
  <2>2. CASE ~SaveCommits(r)
    <3>1. UNCHANGED <<status, current, revs, nextId>>
      BY <1>4, <2>2 DEF RequestStep, SaveRead, AskModel, RestoreRead, QueueRead,
           ModelAnswers, SelectNumber, SaveConflicts, RequestEnds,
           QueueCommits, DeferJob
    <3> QED BY <3>1, HistoryKept DEF History!vars
  <2> QED BY <2>1, <2>2
<1>5. ASSUME NEW j \in Job, TaskStep(j) \/ WorkerDies(j)
      PROVE  [History!Next]_(History!vars)
  <2>1. ASSUME NEW ok \in BOOLEAN, JobSucceeds(j, ok)
        PROVE  [History!Next]_(History!vars)
    <3>1. /\ CanInsert(job[j].ws, run[j].number)
          /\ run[j].phase = "asking" /\ job[j].status = "running"
      BY <2>1 DEF JobSucceeds
    <3>2. job[j].ws \in Workspace
            /\ \E v \in RevisionsOf(job[j].ws) : run[j].number = v.number + 1
      BY <3>1 DEF IInv, NoOrphans, TasksKnow
    <3>3. History!Revise(job[j].ws)
      BY <2>1, <3>1, <3>2, InsertRevises DEF JobSucceeds
    <3> QED BY <3>2, <3>3 DEF History!Next
  <2>2. CASE \A ok \in BOOLEAN : ~JobSucceeds(j, ok)
    <3>1. UNCHANGED <<status, current, revs, nextId>>
      BY <1>5, <2>2 DEF TaskStep, ClaimJob, LoadJob, JobConflicts, JobFails,
                        JobRowGone, WorkerDies
    <3> QED BY <3>1, HistoryKept DEF History!vars
  <2> QED BY <2>1, <2>2
<1>6. CASE UNCHANGED vars
  <2>1. UNCHANGED <<status, current, revs, nextId>>
    BY <1>6 DEF vars
  <2> QED BY <2>1, HistoryKept DEF History!vars
<1> QED BY <1>1, <1>2, <1>3, <1>4, <1>5, <1>6 DEF Next, History!Next

(* No workspace has been created: every history is empty.                  *)
LEMMA InitOfHistory == Init => History!Init
<1> SUFFICES ASSUME Init PROVE History!Init
  OBVIOUS
<1>1. \A w \in Workspace : HistoryOf(w) = <<>>
  BY NoHistory DEF Init, RevisionsOf
<1>2. 1..(nextId - 1) = {}
  BY DEF Init
<1> QED BY <1>1, <1>2 DEF Init, History!Init

(* For every number of workspaces, requests and jobs: a history is a list  *)
(* that only grows at its end, its last entry current, no id used twice.   *)
THEOREM HistoryImplemented == Spec => ImplementsHistory
<1>1. Init => History!Init
  BY InitOfHistory
<1>2. IInv /\ IInv' /\ [Next]_vars => [History!Next]_(History!vars)
  BY StepOfHistory
<1>3. Spec => []IInv
  BY IInvAlways
<1> QED BY <1>1, <1>2, <1>3, PTL DEF Spec, ImplementsHistory, History!Spec
===========================================================================
