--------------------------- MODULE CoreModelThread ---------------------------
(***************************************************************************)
(* The older client, class CoreModel of coremodel.py of the demo: a thread *)
(* around the C library of CoreModel, and the programs that use it, which  *)
(* attach their objects, start the thread, push data from the main thread  *)
(* while callbacks run in the other, and stop it.                          *)
(*                                                                         *)
(* The library (libcoremodel.so) is external: it connects or not, lists    *)
(* devices or not, gives handles or not, and calls back while it is in     *)
(* coremodel_mainloop(), which lets the other thread run.                  *)
(*                                                                         *)
(* "Device already attached" and the printing of device_list() are left    *)
(* out.                                                                    *)
(***************************************************************************)
EXTENDS Naturals, SequencesExt

CONSTANTS Objects,      \* what the program attaches, in its order
          Tolerated     \* those whose NameError it prints and passes over

\* No object is attached twice.
ASSUME ObjectsAssumption ==
    /\ Objects \in Seq(Range(Objects))
    /\ \A j, k \in DOMAIN Objects : Objects[j] = Objects[k] => j = k

VARIABLES
    main,           \* where the main thread is
    thread,         \* where run() is: "none", "test", "mainloop", "callback", "ended"
    connection,     \* 0 when connected; 1 from the start, or an error
    devlist,        \* "None", "NULL" or "list"
    tried,          \* objects the program has tried to attach
    attached_objs,  \* objects with a handle, in the order they were attached
    stop_event,
    pushing,        \* the handle the main thread calls the library with, or none
    open,           \* of the library: the connection
    live            \* of the library: the objects whose handles it knows

threadVars == <<main, thread, connection, devlist, tried, attached_objs,
                stop_event, pushing, open, live>>

NotStarted ==
    /\ thread = "none"
    /\ connection = 1 /\ devlist = "None"
    /\ tried = 0 /\ attached_objs = <<>>
    /\ stop_event = FALSE /\ pushing = {}
    /\ open = FALSE /\ live = {}

ThreadInit == main = "new" /\ NotStarted

-----------------------------------------------------------------------------
(* The main thread.                                                        *)

\* __init__() and _connect(); when the library cannot connect, sys.exit(1).
Connect ==
    /\ main = "new"
    /\ \E error \in {0, 1} :
          /\ connection' = error
          /\ open' = (error = 0)
          /\ main' = IF error = 0 THEN "listing" ELSE "leaving"
    /\ UNCHANGED <<thread, devlist, tried, attached_objs, stop_event, pushing, live>>

\* ctypes makes a null pointer of NULL, which is not None: the test of
\* _connect() never finds that the list has failed.
List ==
    /\ main = "listing"
    /\ devlist' \in {"NULL", "list"}
    /\ main' = "attaching"
    /\ UNCHANGED <<thread, connection, tried, attached_objs, stop_event, pushing,
                   open, live>>

\* attach() of the next object.  A null list raises ValueError, which nobody
\* catches; a device not listed, or no handle, raises NameError.
Attach ==
    /\ main = "attaching" /\ tried < Len(Objects)
    /\ tried' = tried + 1
    /\ LET obj == Objects[tried'] IN
       \/ /\ devlist = "list"
          /\ live' = live \union {obj}
          /\ attached_objs' = Append(attached_objs, obj)
          /\ UNCHANGED main
       \/ /\ devlist = "list"
          /\ main' = IF obj \in Tolerated THEN main ELSE "leaving"
          /\ UNCHANGED <<attached_objs, live>>
       \/ /\ devlist = "NULL"
          /\ main' = "leaving"
          /\ UNCHANGED <<attached_objs, live>>
    /\ UNCHANGED <<thread, connection, devlist, stop_event, pushing, open>>

Start ==
    /\ main = "attaching" /\ tried = Len(Objects)
    /\ thread' = "test"
    /\ main' = "running"
    /\ UNCHANGED <<connection, devlist, tried, attached_objs, stop_event, pushing,
                   open, live>>

\* obj.rx(), obj.set() or obj.ready(); without a handle they do nothing.
MainCalls ==
    /\ main = "running"
    /\ \E obj \in Range(attached_objs) : pushing' = {obj}
    /\ main' = "pushing"
    /\ UNCHANGED <<thread, connection, devlist, tried, attached_objs, stop_event,
                   open, live>>

MainReturns ==
    /\ main = "pushing"
    /\ pushing' = {}
    /\ main' = "running"
    /\ UNCHANGED <<thread, connection, devlist, tried, attached_objs, stop_event,
                   open, live>>

Stop ==
    /\ main = "running"
    /\ stop_event' = TRUE
    /\ main' = "leaving"
    /\ UNCHANGED <<thread, connection, devlist, tried, attached_objs, pushing,
                   open, live>>

\* Mutant of Join: a thread that the interpreter does not join.
JoinNobody ==
    /\ main = "leaving"
    /\ main' = "deleting"
    /\ UNCHANGED <<thread, connection, devlist, tried, attached_objs, stop_event,
                   pushing, open, live>>

\* join(), or the end of the interpreter, which joins the thread as well.
Join ==
    /\ main = "leaving" /\ thread \in {"none", "ended"}
    /\ main' = "deleting"
    /\ UNCHANGED <<thread, connection, devlist, tried, attached_objs, stop_event,
                   pushing, open, live>>

\* __del__(): the handles one by one, then the list and the connection.
Detach ==
    /\ main = "deleting" /\ attached_objs # <<>>
    /\ live' = live \ {Head(attached_objs)}
    /\ attached_objs' = Tail(attached_objs)
    /\ UNCHANGED <<main, thread, connection, devlist, tried, stop_event, pushing, open>>

Disconnect ==
    /\ main = "deleting" /\ attached_objs = <<>>
    /\ devlist' = "None"
    /\ open' = IF connection = 0 THEN FALSE ELSE open
    /\ main' = "exited"
    /\ UNCHANGED <<thread, connection, tried, attached_objs, stop_event, pushing, live>>

-----------------------------------------------------------------------------
(* The thread.                                                             *)

\* run(): the event is tested between two calls of the library.
Test ==
    /\ thread = "test"
    /\ thread' = IF stop_event THEN "ended" ELSE "mainloop"
    /\ UNCHANGED <<main, connection, devlist, tried, attached_objs, stop_event,
                   pushing, open, live>>

\* A callback of an object with a handle; one that raises returns 0.
Callback ==
    /\ thread = "mainloop" /\ live # {}
    /\ thread' = "callback"
    /\ UNCHANGED <<main, connection, devlist, tried, attached_objs, stop_event,
                   pushing, open, live>>

CallbackReturns ==
    /\ thread = "callback"
    /\ thread' = "mainloop"
    /\ UNCHANGED <<main, connection, devlist, tried, attached_objs, stop_event,
                   pushing, open, live>>

\* After cycle_time microseconds, 300000 when it is -1.
MainloopReturns ==
    /\ thread = "mainloop"
    /\ thread' = "test"
    /\ UNCHANGED <<main, connection, devlist, tried, attached_objs, stop_event,
                   pushing, open, live>>

ThreadNext == \/ Connect \/ List \/ Attach \/ Start \/ MainCalls \/ MainReturns \/ Stop \/ Join
              \/ Detach \/ Disconnect
              \/ Test \/ Callback \/ CallbackReturns \/ MainloopReturns

\* The program goes on, and coremodel_mainloop() returns although the virtual
\* machine may keep calling back.
ThreadFairness ==
    /\ WF_threadVars(Connect \/ List \/ Attach \/ Start \/ Stop \/ Join
                     \/ Detach \/ Disconnect)
    /\ WF_threadVars(Test \/ CallbackReturns)
    /\ SF_threadVars(MainloopReturns)

-----------------------------------------------------------------------------
(* Properties.                                                             *)

\* The library is not torn down under the thread or under a handle: while the
\* thread is in the library the connection is open and every handle given out
\* is known; what is left when the program has exited is nothing (__del__,
\* run, attach).
TornDownLast ==
    /\ thread \in {"mainloop", "callback"} =>
          open /\ live = Range(attached_objs)
    /\ pushing \subseteq live
    /\ live # {} => open
    /\ main = "exited" => ~open /\ live = {} /\ thread \in {"none", "ended"}

\* A program that has stopped its thread exits (run, stop_event).
Exits == main = "leaving" ~> main = "exited"
=============================================================================
