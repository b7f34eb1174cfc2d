-------------------------------- MODULE Root --------------------------------
(***************************************************************************)
(* The Root protection domain: Supervisor's steps together with what every *)
(* callback also does, publishing the status page the BEAM reads and       *)
(* serving the BEAM's command channel. src/pd/root/main.c over status.c    *)
(* and command.c.                                                          *)
(*                                                                         *)
(* Left out as data: counter stamps, fault words, the reply tallies and    *)
(* the event ring, whose head counter may reach its limit at any publish.  *)
(***************************************************************************)
EXTENDS Supervisor, CommandBucket

CONSTANTS
    WordMax,        \* UINT64_MAX, at a width TLC can reach
    NoChild,        \* a child id outside the presence mask
    Views           \* the views a RESTART_CHILD request may name

ASSUME WordAssumption ==
    /\ WordMax \in Nat /\ WordMax >= 2
    /\ NoChild \notin Child
    /\ Views \subseteq [generation : Nat, seq : Nat, lifetime : Nat]

VARIABLES
    status,    \* status_state: Root's publisher
    page,      \* the shared root_status page
    command,   \* command_state: bucket and retry fence
    reply,     \* the last reply of protected()
    done       \* RESTART_CHILD requests Root performed, with their reply words

rootVars == <<record, clock, spec, now, pd, queued, told, charges,
              status, page, command, reply, done>>

NoValues == [kind |-> "none", lifetime |-> 0, seq |-> 0]
NoReply == [result |-> "none", values |-> NoValues]

(* A callback other than protected() sends no reply.                       *)
NoCommand == reply' = NoReply /\ UNCHANGED <<command, done>>

(***************************************************************************)
(* Status publication.                                                     *)
(***************************************************************************)
Budgets(s) == [c \in Child |-> root_status_budget(s, c)]

(* root_status_init; a null page leaves the publisher disabled.            *)
root_status_init(mapped) ==
    /\ status = [enabled |-> mapped, seq |-> IF mapped THEN 2 ELSE 0,
                 incarnation |-> 1, budget |-> Budgets(NoSpec), generation |-> 0,
                 dirty |-> FALSE, down |-> [c \in Child |-> FALSE]]
    /\ page = [seq |-> status.seq, incarnation |-> 1, generation |-> 0,
               row |-> [c \in Child |-> [state |-> "live", lifetime |-> 0, window |-> 0,
                                         budget |-> status.budget[c], down |-> FALSE]]]

(* note_fault and note_gone open a down interval, given a usable clock.    *)
root_status_note_down(st, c, clockValid) == [st EXCEPT !.down[c] = @ \/ clockValid]

(* Mutant: a restart leaves the down interval open.                        *)
note_restart_StillDown(st, c) ==
    IF c # Beam THEN st
    ELSE IF st.incarnation = WordMax THEN [st EXCEPT !.enabled = FALSE]
    ELSE [st EXCEPT !.incarnation = @ + 1]

(* note_restart closes it; a BEAM restart is a new incarnation.            *)
root_status_note_restart(st, c) ==
    LET closed == [st EXCEPT !.down[c] = FALSE]
    IN  IF c # Beam THEN closed
        ELSE IF st.incarnation = WordMax THEN [closed EXCEPT !.enabled = FALSE]
        ELSE [closed EXCEPT !.incarnation = @ + 1]

root_status_note_policy(st, s) ==
    [st EXCEPT !.budget = Budgets(s), !.generation = s.generation, !.dirty = TRUE]

(* Mutants of the page: a new policy reaches only the row of the child     *)
(* decided on; the window count is not refreshed.                          *)
PublishedPage_OneRow(st, pg, c, r) ==
    [seq |-> st.seq + 2, incarnation |-> st.incarnation,
     generation |-> IF st.dirty THEN st.generation ELSE pg.generation,
     row |-> [pg.row EXCEPT ![c] =
                 [state |-> r.state, lifetime |-> r.lifetime, window |-> r.window,
                  budget |-> st.budget[c], down |-> st.down[c]]]]

PublishedPage_OldWindow(st, pg, c, r) ==
    [seq |-> st.seq + 2, incarnation |-> st.incarnation,
     generation |-> IF st.dirty THEN st.generation ELSE pg.generation,
     row |-> [k \in Child |->
        IF k = c THEN [state |-> r.state, lifetime |-> r.lifetime,
                       window |-> pg.row[c].window,
                       budget |-> st.budget[c], down |-> st.down[c]]
        ELSE IF st.dirty THEN [pg.row[k] EXCEPT !.budget = st.budget[k]]
        ELSE pg.row[k]]]

(* The row of c, and every row's budget when the policy changed.           *)
PublishedPage(st, pg, c, r) ==
    [seq |-> st.seq + 2, incarnation |-> st.incarnation,
     generation |-> IF st.dirty THEN st.generation ELSE pg.generation,
     row |-> [k \in Child |->
        IF k = c THEN [state |-> r.state, lifetime |-> r.lifetime, window |-> r.window,
                       budget |-> st.budget[c], down |-> st.down[c]]
        ELSE IF st.dirty THEN [pg.row[k] EXCEPT !.budget = st.budget[k]]
        ELSE pg.row[k]]]

(* Publish the row of c and a callback's events. A sequence or event head  *)
(* that would wrap disables the publisher for good.                        *)
root_status_publish(st, c, r) ==
    \/ /\ ~st.enabled
       /\ status' = st
       /\ UNCHANGED page
    \/ /\ st.enabled
       /\ status' = [st EXCEPT !.enabled = FALSE]
       /\ UNCHANGED page
    \/ /\ st.enabled
       /\ st.seq <= WordMax - 2
       /\ status' = [st EXCEPT !.seq = @ + 2, !.dirty = FALSE]
       /\ page' = PublishedPage(st, page, c, r)

(* What root_restart_child notes in the publisher on its way.              *)
Resumed(c) == record'[c].lifetime > record[c].lifetime
GaveUp(c) == record'[c].state # record[c].state

NoteRestartChild(st, c) ==
    LET noted == IF spec' = spec THEN st ELSE root_status_note_policy(st, spec')
    IN  IF Resumed(c) THEN root_status_note_restart(noted, c)
        ELSE IF GaveUp(c) THEN root_status_note_down(noted, c, clock'.available)
        ELSE noted

(***************************************************************************)
(* The callbacks fault() and notified().                                   *)
(***************************************************************************)
Fault(c) ==
    /\ SupFault(c)
    /\ root_status_publish(
           NoteRestartChild(root_status_note_down(status, c, clock.available), c),
           c, record'[c])
    /\ NoCommand

DebugRestart(c) ==
    /\ SupDebugRestart(c)
    /\ root_status_publish(NoteRestartChild(status, c), c, record'[c])
    /\ NoCommand

FaultInject(c) ==
    /\ SupFaultInject(c)
    /\ root_status_publish(status, c, record[c])
    /\ NoCommand

(***************************************************************************)
(* The command channel. A request is an opcode; RESTART_CHILD also carries *)
(* the view it was decided on: Root generation, status sequence and the    *)
(* child's lifetime count. "bad_args" stands for any request whose unused  *)
(* words are not zero.                                                     *)
(***************************************************************************)
RootGeneration == 1

RestartRequests ==
    [op : {"restart"}, child : Child \cup {NoChild}, view : Views]

Requests ==
    {[op |-> o] : o \in {"hello", "hello_old", "sync", "slot", "bad_args"}} \cup RestartRequests

NoMemo == [request |-> [op |-> "none"], values |-> NoValues]

root_command_init ==
    /\ command = [bucket |-> FullBucket(0, clock.available), memo |-> NoMemo]
    /\ reply = NoReply
    /\ done = {}

(* Mutants of the decision: the view is not compared; its sequence is not  *)
(* compared; a gone child is refused before the retry fence is asked; any  *)
(* present child may be restarted.                                         *)
decide_AnyView(q) ==
    IF command.memo.request = q THEN "already_done"
    ELSE IF q.child \notin Child THEN "bad_arg"
    ELSE IF q.child \notin Driver \/ record[q.child].state = "gone" \/ ~status.enabled
         THEN "refused"
    ELSE "act"

decide_AnySequence(q) ==
    IF command.memo.request = q THEN "already_done"
    ELSE IF q.child \notin Child THEN "bad_arg"
    ELSE IF q.child \notin Driver \/ record[q.child].state = "gone" \/ ~status.enabled
         THEN "refused"
    ELSE IF q.view.generation # RootGeneration \/ q.view.lifetime # record[q.child].lifetime
         THEN "stale"
    ELSE "act"

decide_GoneFirst(q) ==
    IF q.child \notin Child THEN "bad_arg"
    ELSE IF q.child \notin Driver \/ record[q.child].state = "gone" \/ ~status.enabled
         THEN "refused"
    ELSE IF command.memo.request = q THEN "already_done"
    ELSE IF \/ q.view.generation # RootGeneration
            \/ q.view.seq # status.seq
            \/ q.view.lifetime # record[q.child].lifetime
         THEN "stale"
    ELSE "act"

decide_AnyChild(q) ==
    IF command.memo.request = q THEN "already_done"
    ELSE IF q.child \notin Child THEN "bad_arg"
    ELSE IF record[q.child].state = "gone" \/ ~status.enabled THEN "refused"
    ELSE IF \/ q.view.generation # RootGeneration
            \/ q.view.seq # status.seq
            \/ q.view.lifetime # record[q.child].lifetime
         THEN "stale"
    ELSE "act"

(* The retry fence comes first, then the child, then the view.             *)
decide_restart(q) ==
    IF command.memo.request = q THEN "already_done"
    ELSE IF q.child \notin Child THEN "bad_arg"
    ELSE IF q.child \notin Driver \/ record[q.child].state = "gone" \/ ~status.enabled
         THEN "refused"
    ELSE IF \/ q.view.generation # RootGeneration
            \/ q.view.seq # status.seq
            \/ q.view.lifetime # record[q.child].lifetime
         THEN "stale"
    ELSE "act"

class_result(q) ==
    CASE q.op = "hello"     -> "ok"
      [] q.op = "hello_old" -> "bad_version"
      [] q.op = "sync"      -> IF status.enabled THEN "ok" ELSE "refused"
      [] q.op = "restart"   -> decide_restart(q)
      [] OTHER              -> "refused"

(* A malformed request costs no token; every other one does.               *)
root_command_decide(q) ==
    LET refilled == refill_step(command.bucket, now, clock.available)
        limited  == refilled.tokens = 0
    IN  IF q.op = "bad_args" THEN [command |-> command, result |-> "bad_arg"]
        ELSE [command |-> [command EXCEPT !.bucket = Spend(refilled)],
              result |-> IF limited THEN "rate_limited" ELSE class_result(q)]

(* A request Root answers without acting.                                  *)
ProtectedAnswer(q) ==
    LET d == root_command_decide(q)
    IN  /\ pd[Beam] = "running"
        /\ d.result # "act"
        /\ command' = d.command
        /\ reply' = [result |-> d.result,
                     values |-> IF d.result = "already_done" THEN command.memo.values
                                ELSE NoValues]
        /\ UNCHANGED <<supVars, status, page, done>>

(* RESTART_CHILD accepted: restart or give up, publish, fill the reply and *)
(* remember it in the fence.                                               *)
ProtectedRestart(q) ==
    LET d      == root_command_decide(q)
        values == [kind |-> IF Resumed(q.child) THEN "restart" ELSE "giveup",
                   lifetime |-> record'[q.child].lifetime, seq |-> status'.seq]
    IN  /\ d.result = "act"
        /\ SupCommandRestart(q.child)
        /\ root_status_publish(NoteRestartChild(status, q.child), q.child, record'[q.child])
        /\ command' = [d.command EXCEPT !.memo = [request |-> q, values |-> values]]
        /\ reply' = [result |-> "ok", values |-> values]
        /\ done' = done \cup {[request |-> q, values |-> values]}

(* A frame from another channel, of the wrong length or with an undeclared *)
(* opcode is answered before any message register is read.                 *)
root_command_frame ==
    /\ pd[Beam] = "running"
    /\ \E r \in {"refused", "bad_arg"} : reply' = [result |-> r, values |-> NoValues]
    /\ UNCHANGED <<supVars, status, page, command, done>>

Environment ==
    /\ \/ \E c \in Child : ChildFault(c)
       \/ CounterMoves
    /\ UNCHANGED <<status, page>>
    /\ NoCommand

RootInit ==
    /\ SupInit
    /\ \E mapped \in BOOLEAN : root_status_init(mapped)
    /\ root_command_init

RootNext ==
    \/ \E c \in Child : Fault(c)
    \/ \E c \in Driver : DebugRestart(c) \/ FaultInject(c)
    \/ \E q \in Requests : ProtectedAnswer(q)
    \/ \E q \in RestartRequests : ProtectedRestart(q)
    \/ root_command_frame
    \/ Environment

RootSpec == RootInit /\ [][RootNext]_rootVars
-----------------------------------------------------------------------------
(***************************************************************************)
(* While Root publishes, the page between two callbacks is the truth: its  *)
(* rows are the records, its budgets are the ceilings the next decision    *)
(* will apply under the policy Root retained, and its incarnation counts   *)
(* the BEAM's restarts. No callback changes Root's state without           *)
(* publishing it, also when a spec is applied while another child is       *)
(* decided on.                                                             *)
(***************************************************************************)
PageIsTruth ==
    status.enabled =>
        /\ page.seq = status.seq /\ page.seq % 2 = 0 /\ page.seq # 0
        /\ page.generation = spec.generation
        /\ page.incarnation = 1 + record[Beam].lifetime
        /\ \A c \in Child :
              page.row[c] = [state |-> record[c].state, lifetime |-> record[c].lifetime,
                             window |-> record[c].window,
                             budget |-> root_status_budget(spec, c),
                             down |-> status.down[c]]

(***************************************************************************)
(* A down interval is open only for a child Root has given up on, and is   *)
(* open for every such child as long as the clock has stayed usable        *)
(* (root_status_note_fault, note_restart, note_gone).                      *)
(***************************************************************************)
DownIffGone ==
    \A c \in Child :
        /\ status.down[c] => record[c].state = "gone"
        /\ record[c].state = "gone" /\ clock.available => status.down[c]

(***************************************************************************)
(* A RESTART_CHILD request is performed at most once: however it is        *)
(* repeated, and whatever was forgotten or published in between, it has    *)
(* one outcome.                                                            *)
(***************************************************************************)
RequestRunsOnce ==
    \A d, e \in done : d.request = e.request => d = e

(* Root performs a request only on the view that the page shows at that    *)
(* moment: sequence, lifetime count and liveness of the child in a page    *)
(* that is being published.                                                *)
ActsOnCurrentView ==
    \A d \in done' \ done :
        /\ status.enabled
        /\ d.request.view.seq = page.seq
        /\ d.request.view.lifetime = page.row[d.request.child].lifetime
        /\ page.row[d.request.child].state = "live"

(* A caller that repeats the last performed request, not having seen the   *)
(* reply, gets the original reply words and nothing happens again, even if *)
(* the child was given up on, the view moved or publication stopped        *)
(* meanwhile. Only the rate limit may postpone that answer.                *)
RetryIsAnswered ==
    \A q \in RestartRequests :
        command.memo.request = q /\ (ProtectedAnswer(q) \/ ProtectedRestart(q)) =>
            /\ \/ reply'.result = "rate_limited"
               \/ reply' = [result |-> "already_done", values |-> command.memo.values]
            /\ UNCHANGED <<record, pd, done>>

(***************************************************************************)
(* What a caller of root_command_decide may rely on: a request acts only   *)
(* on the view it was made for, whatever Root did since, and repeating one *)
(* is safe.                                                                *)
(***************************************************************************)
CommandContract == [][ActsOnCurrentView /\ RetryIsAnswered]_rootVars
=============================================================================
