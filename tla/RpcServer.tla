----------------------------- MODULE RpcServer -----------------------------
(***************************************************************************)
(* The threads of the server (src/src/network/RpcServer.cc), the objects   *)
(* that carry one call each (RpcService.cc and the *Service.cc), and the   *)
(* completion queue through which gRPC gives them events.                  *)
(*                                                                         *)
(* An object registers for the next call of its method when it is made.    *)
(* The call comes as an event; the thread that takes it makes the next     *)
(* object of the method, calls the broker and submits the answer; a second *)
(* event says that the answer is out, and the thread that takes that one   *)
(* deletes the object, while the first may not have returned.              *)
(***************************************************************************)
EXTENDS Naturals, FiniteSets

CONSTANTS
  Thread,     \* the threads of the server
  Method,     \* the methods of the service, one *Service class for each
  Call        \* bound: the calls made by clients, a method and a number each

ASSUME SetsFinite == IsFiniteSet(Thread) /\ IsFiniteSet(Method) /\ IsFiniteSet(Call)
ASSUME CallsOfMethods == Call \subseteq Method \X Nat
ASSUME NoneIsNoMethod == "none" \notin Method

\* Addresses: as many as there can be objects.
Object == 1 .. Cardinality(Thread) * Cardinality(Method) + Cardinality(Call)
NoObject == 0

VARIABLES
  service,     \* object -> its method and status_, or Free
  registered,  \* the objects gRPC may give a call to
  cq,          \* the completion queue: events not taken yet
  callOf,      \* object -> the call it was given
  pc,          \* where each thread is
  tag,         \* the object each thread is in
  answered,    \* history: call -> the answers submitted for it
  dropped      \* history: the objects whose event came with ok false

grpc == <<registered, cq, callOf>>
threads == <<pc, tag>>
vars == <<service, grpc, threads, answered, dropped>>

Free == [method |-> "none", status |-> "free"]
NoCall == <<"none", 0>>

TypeOK ==
  /\ service \in [Object -> [method : Method, status : {"PROCESS", "FINISH"}] \cup {Free}]
  /\ registered \subseteq Object /\ dropped \subseteq Object
  /\ cq \subseteq [tag : Object, ok : BOOLEAN]
  /\ callOf \in [Object -> Call \cup {NoCall}]
  /\ pc \in [Thread -> {"start", "next", "proceed", "process", "answer"}]
  /\ tag \in [Thread -> Object \cup {NoObject}]
  /\ answered \in [Call -> 0 .. 1]  \* two answers to a call abort the process

-----------------------------------------------------------------------------
\* Where an object of each of the methods ms can go.
Places(ms) ==
  {f \in [ms -> {o \in Object : service[o] = Free}] :
     \A m, n \in ms : f[m] = f[n] => m = n}

\* An address freed is the first to be used again.
Place(ms) == CHOOSE f \in Places(ms) : TRUE

\* The constructors: the objects are made and ask gRPC for a call.
New(ms) ==
  LET place == Place(ms)
      made == {place[m] : m \in ms}
  IN /\ Places(ms) # {}
     /\ service' = [o \in Object |->
            IF o \in made
            THEN [method |-> CHOOSE m \in ms : place[m] = o, status |-> "PROCESS"]
            ELSE service[o]]
     /\ registered' = registered \cup made

Goto(t, label) == pc' = [pc EXCEPT ![t] = label]

\* Bug: a method is forgotten.
Bug_SpecificHandle(t) ==
  /\ pc[t] = "start"
  /\ New(Method \ {CHOOSE m \in Method : TRUE})
  /\ Goto(t, "next")
  /\ UNCHANGED <<cq, callOf, tag, answered, dropped>>

\* handleRpcs begins with one object of each method for each thread.
SpecificHandle(t) ==
  /\ pc[t] = "start"
  /\ New(Method)
  /\ Goto(t, "next")
  /\ UNCHANGED <<cq, callOf, tag, answered, dropped>>

\* gRPC gives a call to an object registered for its method.
Receive(c) ==
  /\ \A o \in Object : callOf[o] # c
  /\ answered[c] = 0
  /\ \E o \in registered :
       /\ service[o].method = c[1]
       /\ registered' = registered \ {o}
       /\ callOf' = [callOf EXCEPT ![o] = c]
       /\ cq' = cq \cup {[tag |-> o, ok |-> TRUE]}
  /\ UNCHANGED <<service, threads, answered, dropped>>

\* One turn of the loop; an event with ok false is forgotten, and its object.
TakeEvent(t) ==
  /\ pc[t] = "next"
  /\ \E e \in cq :
       /\ cq' = cq \ {e}
       /\ IF e.ok
          THEN Goto(t, "proceed") /\ tag' = [tag EXCEPT ![t] = e.tag] /\ UNCHANGED dropped
          ELSE dropped' = dropped \cup {e.tag} /\ UNCHANGED threads
  /\ UNCHANGED <<service, registered, callOf, answered>>

Status(t) == service[tag[t]].status

\* Bug: the status changes once process() has returned, too late.
Bug_ProceedProcess(t) ==
  /\ pc[t] = "proceed" /\ Status(t) = "PROCESS"
  /\ Goto(t, "process")
  /\ UNCHANGED <<service, grpc, tag, answered, dropped>>

\* proceed(), the first time.
ProceedProcess(t) ==
  /\ pc[t] = "proceed" /\ Status(t) = "PROCESS"
  /\ service' = [service EXCEPT ![tag[t]].status = "FINISH"]
  /\ Goto(t, "process")
  /\ UNCHANGED <<grpc, tag, answered, dropped>>

\* Bug: the object is not deleted.
Bug_ProceedFinish(t) ==
  /\ pc[t] = "proceed" /\ Status(t) = "FINISH"
  /\ Goto(t, "next") /\ tag' = [tag EXCEPT ![t] = NoObject]
  /\ UNCHANGED <<service, grpc, answered, dropped>>

\* proceed(), the second time: delete this.
ProceedFinish(t) ==
  /\ pc[t] = "proceed" /\ Status(t) = "FINISH"
  /\ service' = [service EXCEPT ![tag[t]] = Free]
  /\ callOf' = [callOf EXCEPT ![tag[t]] = NoCall]
  /\ Goto(t, "next") /\ tag' = [tag EXCEPT ![t] = NoObject]
  /\ UNCHANGED <<registered, cq, answered, dropped>>

\* Bug: no object is made for the next call.
Bug_Process(t) ==
  /\ pc[t] = "process"
  /\ Goto(t, "answer")
  /\ UNCHANGED <<service, grpc, tag, answered, dropped>>

\* process() makes an object for the next call of the method.
Process(t) ==
  /\ pc[t] = "process"
  /\ New({service[tag[t]].method})
  /\ Goto(t, "answer")
  /\ UNCHANGED <<cq, callOf, tag, answered, dropped>>

\* Bug: the object is deleted as soon as the answer is submitted.
Bug_Finish(t) ==
  /\ pc[t] = "answer"
  /\ answered' = [answered EXCEPT ![callOf[tag[t]]] = @ + 1]
  /\ \E ok \in BOOLEAN : cq' = cq \cup {[tag |-> tag[t], ok |-> ok]}
  /\ service' = [service EXCEPT ![tag[t]] = Free]
  /\ Goto(t, "next") /\ tag' = [tag EXCEPT ![t] = NoObject]
  /\ UNCHANGED <<registered, callOf, dropped>>

\* The broker is called (Broker.tla) and the answer submitted.  The event that
\* follows has ok false when the client is no longer there.
Finish(t) ==
  /\ pc[t] = "answer"
  /\ answered' = [answered EXCEPT ![callOf[tag[t]]] = @ + 1]
  /\ \E ok \in BOOLEAN : cq' = cq \cup {[tag |-> tag[t], ok |-> ok]}
  /\ Goto(t, "next") /\ tag' = [tag EXCEPT ![t] = NoObject]
  /\ UNCHANGED <<service, registered, callOf, dropped>>

-----------------------------------------------------------------------------
Init ==
  /\ service = [o \in Object |-> Free]
  /\ registered = {} /\ cq = {} /\ callOf = [o \in Object |-> NoCall]
  /\ pc = [t \in Thread |-> "start"] /\ tag = [t \in Thread |-> NoObject]
  /\ answered = [c \in Call |-> 0] /\ dropped = {}

HandleRpcs(t) ==
  SpecificHandle(t) \/ TakeEvent(t) \/ ProceedProcess(t) \/ ProceedFinish(t)
  \/ Process(t) \/ Finish(t)

\* Every thread waits for an event.
Quiet == cq = {} /\ (\A t \in Thread : pc[t] = "next") /\ UNCHANGED vars

Next == (\E t \in Thread : HandleRpcs(t)) \/ (\E c \in Call : Receive(c)) \/ Quiet

Spec == Init /\ [][Next]_vars

\* Threads keep running, and gRPC gives each call to an object when there is one.
FairSpec ==
  /\ Spec
  /\ \A t \in Thread : WF_vars(HandleRpcs(t))
  /\ \A c \in Call : WF_vars(Receive(c))

-----------------------------------------------------------------------------
\* Who may touch object o next: gRPC, the thread that takes its event, or the
\* thread that is in it.
Queued(o) == \E e \in cq : e.tag = o
Held(o) == \E t \in Thread : tag[t] = o

\* A live object has one owner and a deleted one none: no thread works in an object
\* that another deletes or deleted (the event that lets it be deleted comes from
\* the last statement of process(), RpcService.cc:18-26 and SendMessageService.cc:23),
\* no call is worked on twice, and no object is lost but those whose answer could
\* not be sent (RpcServer.cc:63), which nothing frees.
OneOwner ==
  /\ \A o \in Object :
       service[o] # Free <=> (o \in registered \/ o \in dropped \/ Queued(o) \/ Held(o))
  /\ registered \cap dropped = {}
  /\ \A o \in registered \cup dropped : ~ Queued(o) /\ ~ Held(o)
  /\ \A e \in cq : ~ Held(e.tag)
  /\ \A e, f \in cq : e.tag = f.tag => e = f
  /\ \A t, u \in Thread : tag[t] = tag[u] /\ tag[t] # NoObject => t = u

\* The objects of method m that have, or will have, made no other in their place.
Listeners(m) ==
  {o \in Object : /\ service[o].method = m
                  /\ \/ service[o].status = "PROCESS"
                     \/ \E t \in Thread : tag[t] = o /\ pc[t] = "process"}

Started == {t \in Thread : pc[t] # "start"}

\* Each method always has an object for each thread that has started, registered or
\* given a call not yet looked at, or one is about to be made: the server never
\* stops listening to a method (BrokerServer.cc:27-36, SendMessageService.cc:21).
NeverDeaf ==
  \A m \in Method : Cardinality(Listeners(m)) = Cardinality(Started)

\* Every call is answered, once, whichever threads take its events and however many
\* calls there are for the objects of its method.
EveryCallAnswered == \A c \in Call : <>[](answered[c] = 1)
-----------------------------------------------------------------------------
(* The inductive invariant behind TypeOK, OneOwner and NeverDeaf           *)

\* Who is where: a thread has an object while it is in proceed() or process(), and
\* from the moment it looked into it the object is in its second life.
ThreadsSound ==
  \A t \in Thread :
    /\ tag[t] = NoObject <=> pc[t] \in {"start", "next"}
    /\ pc[t] \in {"process", "answer"} => Status(t) = "FINISH"

\* An object that has a call and has not answered it.
Working(o) ==
  /\ service[o] # Free /\ o \notin registered
  /\ \/ service[o].status = "PROCESS"
     \/ \E t \in Thread : tag[t] = o /\ pc[t] \in {"process", "answer"}

\* No call is given twice, and the ones in progress have no answer yet.
CallsSound ==
  /\ \A o \in Object : service[o] = Free \/ o \in registered => callOf[o] = NoCall
  /\ \A o, q \in Object : callOf[o] = callOf[q] /\ callOf[o] # NoCall => o = q
  /\ \A o \in Object :
       Working(o) => callOf[o] \in Call /\ answered[callOf[o]] = 0
  /\ \A o \in registered : service[o].status = "PROCESS"
  /\ \A e \in cq : e.ok \/ service[e.tag].status = "FINISH"
  /\ \A o \in dropped : service[o].status = "FINISH"

IndInv == TypeOK /\ OneOwner /\ ThreadsSound /\ CallsSound
=============================================================================
