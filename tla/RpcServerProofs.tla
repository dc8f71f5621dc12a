-------------------------- MODULE RpcServerProofs --------------------------
(***************************************************************************)
(* Proofs about RpcServer.tla, for any number of threads, methods and      *)
(* calls: type correctness, the ownership of the service objects, that no  *)
(* method is left without a listener, and what EveryCallAnswered rests on  *)
(* besides fairness: the work left decreases at every step, no thread is   *)
(* ever stuck, and the server only comes to rest with every call answered. *)
(***************************************************************************)
EXTENDS RpcServer, Sums, FunctionTheorems

\* The methods ms get new objects, at the places given by place.
Made(ms, place) ==
  /\ place \in [ms -> Object]
  /\ \A m \in ms : /\ service[place[m]] = Free
                   /\ service'[place[m]] = [method |-> m, status |-> "PROCESS"]
  /\ \A m, n \in ms : place[m] = place[n] => m = n
  /\ \A o \in Object : (\A m \in ms : place[m] # o) => service'[o] = service[o]
  /\ registered' = registered \cup {place[m] : m \in ms}
  /\ service' \in [Object -> [method : Method, status : {"PROCESS", "FINISH"}] \cup {Free}]

\* What the constructors do (SendMessageService.cc:5-12), without the CHOOSEs.
LEMMA NewMakes ==
  ASSUME NEW ms \in SUBSET Method, TypeOK, New(ms)
  PROVE  \E place : Made(ms, place)
<1> DEFINE place == Place(ms)
           made == {place[m] : m \in ms}
           At(o) == CHOOSE m \in ms : place[m] = o
<1>1. place \in Places(ms)
  BY DEF New, Place
<1>2. /\ place \in [ms -> Object]
      /\ \A m \in ms : service[place[m]] = Free
      /\ \A m, n \in ms : place[m] = place[n] => m = n
  BY <1>1 DEF Places
<1>3. /\ service' = [o \in Object |-> IF o \in made
                                      THEN [method |-> At(o), status |-> "PROCESS"]
                                      ELSE service[o]]
      /\ registered' = registered \cup made
  BY DEF New
<1> HIDE DEF place
<1>4. \A o \in made : At(o) \in ms /\ place[At(o)] = o
  OBVIOUS
<1>5. \A m \in ms : At(place[m]) = m
  BY <1>2, <1>4
<1>6. \A m \in ms : /\ place[m] \in made /\ place[m] \in Object
                    /\ service'[place[m]] = [method |-> m, status |-> "PROCESS"]
  <2> SUFFICES ASSUME NEW m \in ms
               PROVE  /\ place[m] \in made /\ place[m] \in Object
                      /\ service'[place[m]] = [method |-> m, status |-> "PROCESS"]
    OBVIOUS
  <2>1. place[m] \in made /\ place[m] \in Object
    BY <1>2
  <2>2. service'[place[m]] = [method |-> At(place[m]), status |-> "PROCESS"]
    BY <2>1, <1>3
  <2> QED BY <2>1, <2>2, <1>5
<1>7. \A o \in Object : (\A m \in ms : place[m] # o) => service'[o] = service[o]
  BY <1>3
<1>8. service' \in [Object -> [method : Method, status : {"PROCESS", "FINISH"}] \cup {Free}]
  <2> SUFFICES ASSUME NEW o \in Object
               PROVE  (IF o \in made THEN [method |-> At(o), status |-> "PROCESS"]
                       ELSE service[o])
                        \in [method : Method, status : {"PROCESS", "FINISH"}] \cup {Free}
    BY <1>3
  <2>1. CASE o \in made
    <3>1. At(o) \in Method
      BY <2>1, <1>4
    <3> HIDE DEF At, made
    <3> QED BY <2>1, <3>1
  <2>2. CASE o \notin made
    BY <2>2 DEF TypeOK
  <2> QED BY <2>1, <2>2
<1> QED BY <1>2, <1>3, <1>6, <1>7, <1>8 DEF Made

\* A live object has a method and a status, and a free one neither.
LEMMA LiveObject ==
  ASSUME TypeOK, NEW o \in Object
  PROVE  /\ Free.status = "free" /\ Free.method = "none"
         /\ service[o] # Free => /\ service[o].method \in Method
                                 /\ service[o].status \in {"PROCESS", "FINISH"}
                                 /\ service[o] = [method |-> service[o].method,
                                                  status |-> service[o].status]
         /\ service[o] = Free => service[o].status = "free" /\ service[o].method = "none"
BY DEF TypeOK, Free

LEMMA NoObjectFree == NoObject \notin Object
BY DEF NoObject, Object

\* The first state: no object, no event.
LEMMA InitInductive == Init => IndInv
<1> SUFFICES ASSUME Init PROVE IndInv
  OBVIOUS
<1>1. TypeOK
  BY DEF Init, TypeOK, Free, NoCall, NoObject
<1>2. OneOwner
  BY NoObjectFree DEF Init, OneOwner, Queued, Held, NoObject
<1>3. ThreadsSound
  BY DEF Init, ThreadsSound
<1>4. CallsSound
  BY DEF Init, CallsSound, Working
<1> QED BY <1>1, <1>2, <1>3, <1>4 DEF IndInv
-----------------------------------------------------------------------------
(* New objects                                                             *)

\* The same with the places made, for what does not depend on the methods.
Fresh(made) ==
  /\ made \subseteq Object
  /\ \A o \in made : /\ service[o] = Free /\ service'[o] # Free
                     /\ service'[o].status = "PROCESS"
  /\ \A o \in Object \ made : service'[o] = service[o]
  /\ registered' = registered \cup made

LEMMA MadeFresh ==
  ASSUME NEW ms, NEW place, Made(ms, place)
  PROVE  Fresh({place[m] : m \in ms})
<1>1. \A m \in ms : [method |-> m, status |-> "PROCESS"] # Free
                    /\ [method |-> m, status |-> "PROCESS"].status = "PROCESS"
  BY DEF Free
<1>2. {place[m] : m \in ms} \subseteq Object
  BY DEF Made
<1>3. \A m \in ms : /\ service[place[m]] = Free /\ service'[place[m]] # Free
                    /\ service'[place[m]].status = "PROCESS"
  BY <1>1 DEF Made
<1>4. \A o \in Object \ {place[m] : m \in ms} : service'[o] = service[o]
  BY DEF Made
<1> QED BY <1>2, <1>3, <1>4 DEF Made, Fresh

\* New objects are registered and in nobody's hands.
LEMMA FreshInductive ==
  ASSUME OneOwner, CallsSound, TypeOK, NEW made, Fresh(made),
         UNCHANGED <<cq, callOf, tag, answered, dropped>>,
         \A t \in Thread :
           tag[t] # NoObject => (pc'[t] \in {"process", "answer"}
                                   <=> pc[t] \in {"process", "answer"})
  PROVE  OneOwner' /\ CallsSound'
<1>1. \A o \in made : /\ o \in Object /\ o \notin registered /\ o \notin dropped
                      /\ ~ Queued(o) /\ ~ Held(o)
  BY DEF Fresh, OneOwner
<1>2. \A o \in Object : /\ Queued(o)' <=> Queued(o)
                        /\ Held(o)' <=> Held(o)
  BY DEF Queued, Held
<1>3. OneOwner'
  <2>1. \A o \in Object :
          (service[o] # Free <=> (o \in registered \/ o \in dropped \/ Queued(o) \/ Held(o)))'
    BY <1>1, <1>2 DEF Fresh, OneOwner
  <2>2. (registered \cap dropped = {})'
    BY <1>1 DEF Fresh, OneOwner
  <2>3. \A o \in (registered \cup dropped)' : (~ Queued(o) /\ ~ Held(o))'
    BY <1>1, <1>2 DEF Fresh, OneOwner, TypeOK
  <2>4. (\A e \in cq : ~ Held(e.tag))'
    BY DEF OneOwner, Held
  <2>5. /\ (\A e, f \in cq : e.tag = f.tag => e = f)'
        /\ (\A t, u \in Thread : tag[t] = tag[u] /\ tag[t] # NoObject => t = u)'
    BY DEF OneOwner
  <2> QED BY <2>1, <2>2, <2>3, <2>4, <2>5 DEF OneOwner
<1>4. CallsSound'
  <2>1. \A o \in Object : service'[o] = Free \/ o \in registered' => callOf[o] = NoCall
    BY DEF Fresh, CallsSound
  <2>2. \A o \in Object : Working(o)' => Working(o)
    BY <1>1, NoObjectFree DEF Fresh, Working
  <2>3. \A o \in registered' : service'[o].status = "PROCESS"
    BY DEF Fresh, CallsSound, TypeOK
  <2>4. \A o \in dropped' : service'[o].status = "FINISH"
    BY <1>1 DEF Fresh, CallsSound, TypeOK
  <2>5. \A e \in cq' : e.ok \/ service'[e.tag].status = "FINISH"
    BY <1>1 DEF Fresh, CallsSound, TypeOK, Queued
  <2> QED BY <2>1, <2>2, <2>3, <2>4, <2>5 DEF CallsSound
<1> QED BY <1>3, <1>4

-----------------------------------------------------------------------------
(* One lemma for each action                                               *)

\* A thread starts: new objects of every method are gRPC's.
LEMMA SpecificHandleInductive ==
  ASSUME IndInv, NEW t \in Thread, SpecificHandle(t)
  PROVE  IndInv'
<1> USE DEF IndInv
<1>1. PICK place : Made(Method, place)
  BY NewMakes DEF SpecificHandle
<1>2. /\ pc[t] = "start" /\ pc' = [pc EXCEPT ![t] = "next"]
      /\ UNCHANGED <<cq, callOf, tag, answered, dropped>>
  BY DEF SpecificHandle, Goto
<1>3. PICK made : Fresh(made)
  BY <1>1, MadeFresh
<1>4. tag[t] = NoObject
  BY <1>2 DEF ThreadsSound
<1>5. TypeOK'
  BY <1>1, <1>2 DEF TypeOK, Made
<1>6. OneOwner' /\ CallsSound'
  BY <1>2, <1>3, <1>4, FreshInductive DEF TypeOK
<1>7. ThreadsSound'
  <2>1. \A u \in Thread : tag[u] # NoObject => service'[tag[u]] = service[tag[u]]
    BY <1>3 DEF Fresh, OneOwner, Held, TypeOK
  <2> QED BY <1>2, <1>4, <2>1 DEF TypeOK, ThreadsSound, Status
<1> QED BY <1>5, <1>6, <1>7

\* gRPC gives a call to an object: its event is queued.
LEMMA ReceiveInductive ==
  ASSUME IndInv, NEW c \in Call, Receive(c)
  PROVE  IndInv'
<1> USE DEF IndInv
<1>1. PICK o \in registered :
        /\ service[o].method = c[1]
        /\ registered' = registered \ {o}
        /\ callOf' = [callOf EXCEPT ![o] = c]
        /\ cq' = cq \cup {[tag |-> o, ok |-> TRUE]}
  BY DEF Receive
<1>2. /\ \A q \in Object : callOf[q] # c
      /\ answered[c] = 0
      /\ UNCHANGED <<service, pc, tag, answered, dropped>>
  BY DEF Receive, threads
<1>3. o \in Object /\ c # NoCall
  BY SetsFinite, CallsOfMethods, NoneIsNoMethod DEF TypeOK, NoCall
<1>4. TypeOK'
  <2>1. registered' \subseteq Object
    BY <1>1 DEF TypeOK
  <2>2. cq' \subseteq [tag : Object, ok : BOOLEAN]
    <3>1. [tag |-> o, ok |-> TRUE] \in [tag : Object, ok : BOOLEAN]
      BY <1>3
    <3> QED BY <1>1, <3>1 DEF TypeOK
  <2>3. callOf' \in [Object -> Call \cup {NoCall}]
    BY <1>1, <1>3 DEF TypeOK
  <2> QED BY <1>2, <2>1, <2>2, <2>3 DEF TypeOK
<1>5. OneOwner'
  <2>1. /\ o \notin dropped /\ ~ Queued(o) /\ ~ Held(o) /\ service[o] # Free
    BY <1>1, <1>3 DEF OneOwner
  <2>0. ~ Queued(o)
    BY <1>1, <1>3 DEF OneOwner
  <2>2. \A q \in Object : /\ Queued(q)' <=> Queued(q) \/ q = o
                          /\ Held(q)' <=> Held(q)
    <3>1. [tag |-> o, ok |-> TRUE].tag = o
      OBVIOUS
    <3> QED BY <1>1, <1>2, <3>1 DEF Queued, Held
  <2>3. \A q \in Object :
          (service[q] # Free <=> (q \in registered \/ q \in dropped \/ Queued(q) \/ Held(q)))'
    BY <1>1, <1>2, <2>1, <2>2 DEF OneOwner
  <2>4. \A q \in (registered \cup dropped)' : (~ Queued(q) /\ ~ Held(q))'
    BY <1>1, <1>2, <2>1, <2>2 DEF OneOwner, TypeOK
  <2>5. (\A e \in cq : ~ Held(e.tag))'
    <3>1. \A e \in cq' : e \in cq \/ e.tag = o
      BY <1>1
    <3> QED BY <1>2, <2>1, <2>2, <3>1 DEF OneOwner, TypeOK, Held
  <2>6. (\A e, f \in cq : e.tag = f.tag => e = f)'
    <3>1. \A e \in cq' : (e \in cq /\ e.tag # o) \/ e = [tag |-> o, ok |-> TRUE]
      BY <1>1, <1>3, <2>1, <2>0 DEF OneOwner, Queued
    <3>2. [tag |-> o, ok |-> TRUE].tag = o
      OBVIOUS
    <3> QED BY <3>1, <3>2 DEF OneOwner
  <2>7. (\A t, u \in Thread : tag[t] = tag[u] /\ tag[t] # NoObject => t = u)'
    BY <1>2 DEF OneOwner
  <2>8. (registered \cap dropped = {})'
    BY <1>1, <1>2 DEF OneOwner
  <2> QED BY <2>3, <2>4, <2>5, <2>6, <2>7, <2>8 DEF OneOwner
<1>6. ThreadsSound'
  BY <1>1, <1>2 DEF ThreadsSound, Status
<1>7. CallsSound'
  BY <1>1, <1>2, <1>3, LiveObject DEF TypeOK, OneOwner, Held, CallsSound, Working
<1> QED BY <1>4, <1>5, <1>6, <1>7

\* An event goes to a thread, or is forgotten.
LEMMA TakeEventInductive ==
  ASSUME IndInv, NEW t \in Thread, TakeEvent(t)
  PROVE  IndInv'
<1> USE DEF IndInv
<1>1. PICK e \in cq :
        /\ cq' = cq \ {e}
        /\ IF e.ok
           THEN /\ pc' = [pc EXCEPT ![t] = "proceed"]
                /\ tag' = [tag EXCEPT ![t] = e.tag]
                /\ UNCHANGED dropped
           ELSE dropped' = dropped \cup {e.tag} /\ UNCHANGED <<pc, tag>>
  BY DEF TakeEvent, Goto, threads
<1>2. pc[t] = "next" /\ UNCHANGED <<service, registered, callOf, answered>>
  BY DEF TakeEvent
<1>3. e.tag \in Object /\ e.ok \in BOOLEAN /\ tag[t] = NoObject
  BY <1>2 DEF TypeOK, ThreadsSound
<1>4. TypeOK'
  BY <1>1, <1>2, <1>3 DEF TypeOK
<1>5. OneOwner'
  BY <1>1, <1>2, <1>3, NoObjectFree DEF TypeOK, OneOwner, Queued, Held
<1>6. ThreadsSound'
  BY <1>1, <1>2, <1>3, NoObjectFree DEF TypeOK, ThreadsSound, Status
<1>7. CallsSound'
  <2>1. \A o \in Object : Working(o)' => Working(o)
    BY <1>1, <1>2, <1>3 DEF TypeOK, Working
  <2>2. \A o \in dropped' : service[o].status = "FINISH"
    <3>1. CASE e.ok
      BY <1>1, <3>1 DEF CallsSound
    <3>2. CASE ~ e.ok
      <4>1. service[e.tag].status = "FINISH"
        BY <3>2 DEF CallsSound
      <4> QED BY <1>1, <3>2, <4>1 DEF CallsSound
    <3> QED BY <3>1, <3>2
  <2>3. \A d \in cq' : d.ok \/ service'[d.tag].status = "FINISH"
    BY <1>1, <1>2 DEF CallsSound
  <2> QED BY <1>1, <1>2, <2>1, <2>2, <2>3 DEF CallsSound
<1> QED BY <1>4, <1>5, <1>6, <1>7

\* The first life of an object begins.
LEMMA ProceedProcessInductive ==
  ASSUME IndInv, NEW t \in Thread, ProceedProcess(t)
  PROVE  IndInv'
<1> USE DEF IndInv
<1> DEFINE o == tag[t]
<1>1. o \in Object /\ service[o] # Free /\ o \notin registered /\ o \notin dropped
  BY NoObjectFree DEF TypeOK, OneOwner, Held, ThreadsSound, ProceedProcess
<1>2. /\ pc[t] = "proceed" /\ service[o].status = "PROCESS"
      /\ service' = [service EXCEPT ![o] = [method |-> service[o].method, status |-> "FINISH"]]
      /\ pc' = [pc EXCEPT ![t] = "process"]
      /\ UNCHANGED <<registered, cq, callOf, tag, answered, dropped>>
  <2>1. [service[o] EXCEPT !.status = "FINISH"]
          = [method |-> service[o].method, status |-> "FINISH"]
    BY <1>1 DEF TypeOK
  <2> QED BY <1>1, <2>1 DEF ProceedProcess, Status, Goto, grpc
<1> HIDE DEF o
<1>3. TypeOK'
  BY <1>1, <1>2, LiveObject DEF TypeOK
<1>4. OneOwner'
  BY <1>1, <1>2, LiveObject DEF TypeOK, OneOwner, Queued, Held
<1>5. ThreadsSound'
  BY <1>1, <1>2, LiveObject DEF TypeOK, ThreadsSound, Status, OneOwner, Held, o
<1>6. CallsSound'
  <2>1. \A q \in Object : service'[q] # Free <=> service[q] # Free
    BY <1>1, <1>2 DEF TypeOK, Free
  <2>2. \A q \in Object : Working(q)' => Working(q)
    <3>1. \A q \in Object : q # o => service'[q] = service[q]
      BY <1>2 DEF TypeOK
    <3>2. \A u \in Thread : tag[u] # o => pc'[u] = pc[u]
      BY <1>2 DEF TypeOK, o
    <3> QED BY <1>1, <1>2, <2>1, <3>1, <3>2 DEF Working
  <2>3. /\ \A q \in registered' : service'[q].status = "PROCESS"
        /\ \A q \in dropped' : service'[q].status = "FINISH"
    BY <1>1, <1>2 DEF TypeOK, CallsSound
  <2> QED BY <1>2, <2>1, <2>2, <2>3 DEF CallsSound
<1> QED BY <1>3, <1>4, <1>5, <1>6

\* The second life of an object ends it.
LEMMA ProceedFinishInductive ==
  ASSUME IndInv, NEW t \in Thread, ProceedFinish(t)
  PROVE  IndInv'
<1> USE DEF IndInv
<1> DEFINE o == tag[t]
<1>1. o \in Object /\ service[o] # Free /\ o \notin registered /\ o \notin dropped
  BY NoObjectFree DEF TypeOK, OneOwner, Held, ThreadsSound, ProceedFinish
<1>2. /\ pc[t] = "proceed" /\ service[o].status = "FINISH"
      /\ service' = [service EXCEPT ![o] = Free]
      /\ callOf' = [callOf EXCEPT ![o] = NoCall]
      /\ pc' = [pc EXCEPT ![t] = "next"] /\ tag' = [tag EXCEPT ![t] = NoObject]
      /\ UNCHANGED <<registered, cq, answered, dropped>>
  BY DEF ProceedFinish, Status, Goto
<1>3. \A u \in Thread \ {t} : tag[u] # o
  BY <1>1, NoObjectFree DEF OneOwner
<1>4. ~ Queued(o)
  BY DEF OneOwner, Queued, Held
<1>5. TypeOK'
  BY <1>1, <1>2, LiveObject DEF TypeOK
<1>6. OneOwner'
  BY <1>1, <1>2, <1>3, <1>4, NoObjectFree, LiveObject DEF TypeOK, OneOwner, Queued, Held
<1>7. ThreadsSound'
  BY <1>1, <1>2, <1>3 DEF TypeOK, ThreadsSound, Status
<1>8. CallsSound'
  BY <1>1, <1>2, <1>3, LiveObject DEF TypeOK, OneOwner, Held, CallsSound, Working
<1> QED BY <1>5, <1>6, <1>7, <1>8

\* process() makes the next object of the method.
LEMMA ProcessInductive ==
  ASSUME IndInv, NEW t \in Thread, Process(t)
  PROVE  IndInv'
<1> USE DEF IndInv
<1> DEFINE m == service[tag[t]].method
<1>1. tag[t] \in Object /\ service[tag[t]] # Free /\ m \in Method
  BY NoObjectFree, LiveObject DEF TypeOK, OneOwner, Held, ThreadsSound, Process
<1>2. /\ pc[t] = "process" /\ pc' = [pc EXCEPT ![t] = "answer"]
      /\ UNCHANGED <<cq, callOf, tag, answered, dropped>>
  BY DEF Process, Goto
<1>3. PICK place : Made({m}, place)
  BY <1>1, NewMakes DEF Process
<1>4. PICK made : Fresh(made)
  BY <1>3, MadeFresh
<1> HIDE DEF m
<1>5. TypeOK'
  BY <1>2, <1>3 DEF TypeOK, Made
<1>6. OneOwner' /\ CallsSound'
  BY <1>2, <1>4, FreshInductive DEF TypeOK
<1>7. ThreadsSound'
  <2>1. \A u \in Thread : tag[u] # NoObject => service'[tag[u]] = service[tag[u]]
    BY <1>4 DEF Fresh, OneOwner, Held, TypeOK
  <2> QED BY <1>1, <1>2, <2>1, NoObjectFree DEF TypeOK, ThreadsSound, Status
<1> QED BY <1>5, <1>6, <1>7

\* The answer is submitted: from here on the object belongs to its event.
LEMMA FinishInductive ==
  ASSUME IndInv, NEW t \in Thread, Finish(t)
  PROVE  IndInv'
<1> USE DEF IndInv
<1> DEFINE o == tag[t]
           c == callOf[o]
<1>1. o \in Object /\ service[o] # Free /\ o \notin registered /\ o \notin dropped
      /\ service[o].status = "FINISH" /\ ~ Queued(o)
  BY NoObjectFree DEF TypeOK, OneOwner, Held, Queued, ThreadsSound, Status, Finish
<1>2. c \in Call /\ answered[c] = 0
  BY <1>1 DEF CallsSound, Working, Finish
<1>3. PICK ok \in BOOLEAN :
        /\ pc[t] = "answer"
        /\ answered' = [answered EXCEPT ![c] = answered[c] + 1]
        /\ cq' = cq \cup {[tag |-> o, ok |-> ok]}
        /\ pc' = [pc EXCEPT ![t] = "next"] /\ tag' = [tag EXCEPT ![t] = NoObject]
        /\ UNCHANGED <<service, registered, callOf, dropped>>
  BY DEF Finish, Goto
<1>4. \A u \in Thread \ {t} : tag[u] # o
  BY <1>1, NoObjectFree DEF OneOwner
<1> HIDE DEF c
<1>5. TypeOK'
  BY <1>1, <1>2, <1>3 DEF TypeOK
<1>6. OneOwner'
  <2>1. \A q \in Object : /\ Queued(q)' <=> Queued(q) \/ q = o
                          /\ Held(q)' <=> Held(q) /\ q # o
    <3>1. \A q \in Object : Queued(q)' <=> Queued(q) \/ q = o
      <4>1. [tag |-> o, ok |-> ok].tag = o
        OBVIOUS
      <4> QED BY <1>3, <4>1 DEF Queued
    <3>2. \A u \in Thread : tag'[u] = IF u = t THEN NoObject ELSE tag[u]
      BY <1>3 DEF TypeOK
    <3>3. \A q \in Object : Held(q)' <=> Held(q) /\ q # o
      BY <1>1, <1>4, <3>2, NoObjectFree DEF Held
    <3> QED BY <3>1, <3>3
  <2>2. \A q \in Object :
          (service[q] # Free <=> (q \in registered \/ q \in dropped \/ Queued(q) \/ Held(q)))'
    BY <1>1, <1>3, <2>1 DEF OneOwner
  <2>3. \A q \in (registered \cup dropped)' : (~ Queued(q) /\ ~ Held(q))'
    BY <1>1, <1>3, <2>1 DEF OneOwner, TypeOK
  <2>4. \A e \in cq' : (e \in cq /\ e.tag # o) \/ e = [tag |-> o, ok |-> ok]
    BY <1>1, <1>3 DEF Queued
  <2>5. (\A e \in cq : ~ Held(e.tag))'
    BY <1>1, <2>1, <2>4 DEF OneOwner, TypeOK
  <2>6. (\A e, f \in cq : e.tag = f.tag => e = f)'
    BY <2>4 DEF OneOwner
  <2>7. (\A u, v \in Thread : tag[u] = tag[v] /\ tag[u] # NoObject => u = v)'
    BY <1>3 DEF OneOwner, TypeOK
  <2> QED BY <1>3, <2>2, <2>3, <2>5, <2>6, <2>7 DEF OneOwner
<1>7. ThreadsSound'
  BY <1>1, <1>3 DEF TypeOK, ThreadsSound, Status
<1>8. CallsSound'
  <2>1. \A q \in Object : Working(q)' => Working(q) /\ q # o
    BY <1>1, <1>3, <1>4, NoObjectFree DEF TypeOK, Working
  <2>2. \A q \in Object : Working(q)' => callOf[q] # c
    <3>1. c # NoCall
      BY <1>2, CallsOfMethods, NoneIsNoMethod DEF NoCall
    <3> QED BY <1>1, <2>1, <3>1 DEF CallsSound, c
  <2>3. \A q \in Object : Working(q)' => callOf[q] \in Call /\ answered'[callOf[q]] = 0
    BY <1>3, <2>1, <2>2 DEF CallsSound, TypeOK
  <2>4. \A e \in cq' : e.ok \/ service'[e.tag].status = "FINISH"
    <3>1. \A e \in cq' : e \in cq \/ e.tag = o
      BY <1>3
    <3> QED BY <1>1, <1>3, <3>1 DEF CallsSound
  <2> QED BY <1>3, <2>3, <2>4 DEF CallsSound
<1> QED BY <1>5, <1>6, <1>7, <1>8

LEMMA StepInductive == IndInv /\ [Next]_vars => IndInv'
<1> SUFFICES ASSUME IndInv, [Next]_vars PROVE IndInv'
  OBVIOUS
<1>1. CASE UNCHANGED vars
  BY <1>1 DEF vars, grpc, threads, IndInv, TypeOK, OneOwner, Queued, Held, ThreadsSound,
              Status, CallsSound, Working
<1>2. CASE \E t \in Thread : HandleRpcs(t)
  BY <1>2, SpecificHandleInductive, TakeEventInductive, ProceedProcessInductive,
     ProceedFinishInductive, ProcessInductive, FinishInductive DEF HandleRpcs
<1>3. CASE \E c \in Call : Receive(c)
  BY <1>3, ReceiveInductive
<1> QED BY <1>1, <1>2, <1>3 DEF Next, Quiet
\* Whatever the threads, methods and calls, the invariant holds.
THEOREM Invariance == Spec => []IndInv
<1>1. Init => IndInv
  BY InitInductive
<1>2. IndInv /\ [Next]_vars => IndInv'
  BY StepInductive
<1> QED BY <1>1, <1>2, PTL DEF Spec

\* The objects, events, threads and answers are always of their types; in
\* particular no call is answered twice (RpcService.cc:15-27).
THEOREM TypeCorrect == Spec => []TypeOK
BY Invariance, PTL DEF IndInv

\* No object is in two hands, used after it was deleted, or lost but for the
\* answers that could not be sent (RpcServer.cc:63).
THEOREM Ownership == Spec => []OneOwner
BY Invariance, PTL DEF IndInv

-----------------------------------------------------------------------------
(* No method goes deaf                                                     *)

LEMMA SetsCounted ==
  /\ IsFiniteSet(Object) /\ IsFiniteSet(Started)
  /\ \A m : IsFiniteSet(Listeners(m))
<1>1. IsFiniteSet(Object)
  BY SetsFinite, FS_CardinalityType, FS_Interval DEF Object
<1>2. IsFiniteSet(Started)
  BY SetsFinite, FS_Subset DEF Started
<1>3. \A m : IsFiniteSet(Listeners(m))
  BY <1>1, FS_Subset DEF Listeners
<1> QED BY <1>1, <1>2, <1>3

\* A thread that starts brings one listener to each method.
LEMMA StartListens ==
  ASSUME IndInv, NeverDeaf, NEW t \in Thread, SpecificHandle(t)
  PROVE  NeverDeaf'
<1> SUFFICES ASSUME NEW m \in Method
             PROVE  Cardinality(Listeners(m)') = Cardinality(Started')
  BY DEF NeverDeaf
<1>1. PICK place : Made(Method, place)
  BY NewMakes DEF SpecificHandle, IndInv
<1>2. /\ pc[t] = "start" /\ pc' = [pc EXCEPT ![t] = "next"]
      /\ UNCHANGED tag
  BY DEF SpecificHandle, Goto
<1>3. Started' = Started \cup {t} /\ t \notin Started
  BY <1>2 DEF Started, IndInv, TypeOK
<1>4. \A u \in Thread : pc'[u] = "process" <=> pc[u] = "process"
  BY <1>2 DEF IndInv, TypeOK
<1>5. Listeners(m)' = Listeners(m) \cup {place[m]}
  <2> SUFFICES ASSUME NEW o \in Object
               PROVE  o \in Listeners(m)' <=> o \in Listeners(m) \/ o = place[m]
    BY <1>1 DEF Listeners, Made
  <2>1. CASE \E n \in Method : o = place[n]
    <3> PICK n \in Method : o = place[n]
      BY <2>1
    <3>1. service[o] = Free /\ service'[o] = [method |-> n, status |-> "PROCESS"]
      BY <1>1 DEF Made
    <3>2. service[o].method = "none" /\ service'[o].method = n
          /\ service'[o].status = "PROCESS"
      BY <3>1 DEF Free
    <3>3. o \notin Listeners(m)
      BY <3>2, NoneIsNoMethod DEF Listeners
    <3>4. n = m <=> o = place[m]
      BY <1>1 DEF Made
    <3> QED BY <3>2, <3>3, <3>4 DEF Listeners
  <2>2. CASE \A n \in Method : place[n] # o
    <3>1. service'[o] = service[o]
      BY <1>1, <2>2 DEF Made
    <3> QED BY <1>2, <1>4, <2>2, <3>1 DEF Listeners
  <2> QED BY <2>1, <2>2
<1>6. place[m] \notin Listeners(m)
  <2>1. service[place[m]] = Free
    BY <1>1 DEF Made
  <2>2. service[place[m]].method = "none"
    BY <2>1 DEF Free
  <2> QED BY <2>2, NoneIsNoMethod DEF Listeners
<1>7. Cardinality(Started \cup {t}) = Cardinality(Started) + 1
  BY <1>3, SetsCounted, FS_AddElement
<1>8. Cardinality(Listeners(m) \cup {place[m]}) = Cardinality(Listeners(m)) + 1
  BY <1>6, SetsCounted, FS_AddElement
<1> QED
  BY <1>3, <1>5, <1>7, <1>8 DEF NeverDeaf

\* process() replaces the listener that was used up by another of its method.
LEMMA ProcessListens ==
  ASSUME IndInv, NeverDeaf, NEW t \in Thread, Process(t)
  PROVE  NeverDeaf'
<1> DEFINE used == tag[t]
           n == service[used].method
<1>1. /\ pc[t] = "process" /\ pc' = [pc EXCEPT ![t] = "answer"]
      /\ UNCHANGED tag
  BY DEF Process, Goto
<1>2. /\ used \in Object /\ n \in Method /\ service[used] # Free
      /\ service[used].status = "FINISH"
      /\ \A u \in Thread : tag[u] = used => u = t
  BY <1>1, NoObjectFree, LiveObject
     DEF IndInv, TypeOK, ThreadsSound, OneOwner, Held, Status
<1>3. PICK place : Made({n}, place)
  BY <1>2, NewMakes DEF Process, IndInv
<1> DEFINE next == place[n]
<1>4. /\ next \in Object /\ service[next] = Free /\ next # used
      /\ service'[next] = [method |-> n, status |-> "PROCESS"]
      /\ \A o \in Object : o # next => service'[o] = service[o]
  BY <1>2, <1>3 DEF Made
<1>5. /\ service[next].method = "none"
      /\ service'[next].method = n /\ service'[next].status = "PROCESS"
  BY <1>4 DEF Free
<1> HIDE DEF next
<1>6. used \in Listeners(n)
  BY <1>1, <1>2 DEF Listeners
<1>7. \A m \in Method : Listeners(m)' = IF m = n THEN (Listeners(n) \ {used}) \cup {next}
                                                 ELSE Listeners(m)
  <2> SUFFICES ASSUME NEW m \in Method, NEW o \in Object
               PROVE  o \in Listeners(m)' <=>
                        \/ o \in Listeners(m) /\ o # used
                        \/ o \in Listeners(m) /\ m # n
                        \/ o = next /\ m = n
    BY <1>4 DEF Listeners
  <2>1. CASE o = next
    BY <1>4, <1>5, <2>1, NoneIsNoMethod DEF Listeners
  <2>2. CASE o = used
    <3>1. service'[o] = service[o]
      BY <1>4, <2>2
    <3>2. o \notin Listeners(m)'
      BY <1>1, <1>2, <2>2, <3>1 DEF Listeners, IndInv, TypeOK
    <3>3. m # n => o \notin Listeners(m)
      BY <2>2 DEF Listeners
    <3> QED BY <1>4, <2>2, <3>2, <3>3
  <2>3. CASE o # next /\ o # used
    <3>1. service'[o] = service[o]
      BY <1>4, <2>3
    <3>2. \A u \in Thread : tag[u] = o => pc'[u] = pc[u]
      BY <1>1, <2>3 DEF IndInv, TypeOK
    <3> QED BY <1>1, <2>3, <3>1, <3>2 DEF Listeners
  <2> QED BY <2>1, <2>2, <2>3
<1>8. next \notin Listeners(n)
  BY <1>2, <1>5, NoneIsNoMethod DEF Listeners
<1>9. Cardinality((Listeners(n) \ {used}) \cup {next}) = Cardinality(Listeners(n))
  <2>1. /\ IsFiniteSet(Listeners(n) \ {used})
        /\ Cardinality(Listeners(n) \ {used}) = Cardinality(Listeners(n)) - 1
    BY <1>6, SetsCounted, FS_RemoveElement
  <2>2. Cardinality((Listeners(n) \ {used}) \cup {next})
          = Cardinality(Listeners(n) \ {used}) + 1
    BY <1>8, <2>1, FS_AddElement
  <2>3. Cardinality(Listeners(n)) \in Nat
    BY SetsCounted, FS_CardinalityType
  <2> QED BY <2>1, <2>2, <2>3
<1>10. Started' = Started
  BY <1>1 DEF Started, IndInv, TypeOK
<1> HIDE DEF n, used
<1> QED BY <1>7, <1>9, <1>10 DEF NeverDeaf

\* The other steps leave the listeners of every method as they are.
LEMMA OthersListen ==
  ASSUME IndInv, NeverDeaf,
         \/ \E t \in Thread : TakeEvent(t) \/ ProceedProcess(t) \/ ProceedFinish(t) \/ Finish(t)
         \/ \E c \in Call : Receive(c)
         \/ UNCHANGED vars
  PROVE  NeverDeaf'
<1> SUFFICES /\ Started' = Started
             /\ \A m \in Method : Listeners(m)' = Listeners(m)
  BY DEF NeverDeaf
<1>1. ASSUME NEW t \in Thread, TakeEvent(t)
      PROVE  Started' = Started /\ \A m \in Method : Listeners(m)' = Listeners(m)
  <2>1. /\ pc[t] = "next" /\ UNCHANGED service
        /\ pc' = pc \/ pc' = [pc EXCEPT ![t] = "proceed"]
        /\ \A u \in Thread \ {t} : tag'[u] = tag[u]
    BY <1>1 DEF TakeEvent, Goto, threads, IndInv, TypeOK
  <2>2. \A u \in Thread : /\ pc'[u] = "process" <=> pc[u] = "process"
                          /\ pc'[u] = "start" <=> pc[u] = "start"
                          /\ pc[u] = "process" => tag'[u] = tag[u]
    BY <2>1 DEF IndInv, TypeOK
  <2> QED BY <2>1, <2>2 DEF Listeners, Started
<1>2. ASSUME NEW t \in Thread, ProceedProcess(t)
      PROVE  Started' = Started /\ \A m \in Method : Listeners(m)' = Listeners(m)
  <2>1. /\ tag[t] \in Object
        /\ \A u \in Thread : tag[u] = tag[t] => u = t
    BY <1>2, NoObjectFree DEF ProceedProcess, IndInv, TypeOK, ThreadsSound, OneOwner
  <2>2. /\ pc[t] = "proceed" /\ pc' = [pc EXCEPT ![t] = "process"] /\ UNCHANGED tag
        /\ service[tag[t]].status = "PROCESS"
        /\ service' = [service EXCEPT ![tag[t]].status = "FINISH"]
    BY <1>2 DEF ProceedProcess, Goto, Status
  <2>3. /\ service'[tag[t]].method = service[tag[t]].method
        /\ service'[tag[t]].status = "FINISH"
        /\ \A o \in Object : o # tag[t] => service'[o] = service[o]
    BY <2>1, <2>2, LiveObject DEF IndInv, TypeOK
  <2>4. /\ pc'[t] = "process" /\ \A u \in Thread : u # t => pc'[u] = pc[u]
    BY <2>2 DEF IndInv, TypeOK
  <2> QED BY <2>1, <2>2, <2>3, <2>4 DEF Listeners, Started
<1>3. ASSUME NEW t \in Thread, ProceedFinish(t)
      PROVE  Started' = Started /\ \A m \in Method : Listeners(m)' = Listeners(m)
  <2>1. /\ tag[t] \in Object
        /\ \A u \in Thread : tag[u] = tag[t] => u = t
    BY <1>3, NoObjectFree DEF ProceedFinish, IndInv, TypeOK, ThreadsSound, OneOwner
  <2>2. /\ pc[t] = "proceed" /\ pc' = [pc EXCEPT ![t] = "next"]
        /\ tag' = [tag EXCEPT ![t] = NoObject]
        /\ service[tag[t]].status = "FINISH"
        /\ service' = [service EXCEPT ![tag[t]] = Free]
    BY <1>3 DEF ProceedFinish, Goto, Status
  <2>3. /\ service'[tag[t]].method = "none"
        /\ \A o \in Object : o # tag[t] => service'[o] = service[o]
    BY <2>1, <2>2 DEF IndInv, TypeOK, Free
  <2>4. \A m \in Method : tag[t] \notin Listeners(m) /\ tag[t] \notin Listeners(m)'
    BY <2>1, <2>2, <2>3, NoneIsNoMethod DEF Listeners
  <2>5. \A u \in Thread : u # t => pc'[u] = pc[u] /\ tag'[u] = tag[u]
    BY <2>2 DEF IndInv, TypeOK
  <2>6. pc'[t] = "next"
    BY <2>2 DEF IndInv, TypeOK
  <2> QED BY <2>2, <2>3, <2>4, <2>5, <2>6 DEF Listeners, Started
<1>4. ASSUME NEW t \in Thread, Finish(t)
      PROVE  Started' = Started /\ \A m \in Method : Listeners(m)' = Listeners(m)
  <2>1. /\ pc[t] = "answer" /\ pc' = [pc EXCEPT ![t] = "next"]
        /\ tag' = [tag EXCEPT ![t] = NoObject] /\ UNCHANGED service
    BY <1>4 DEF Finish, Goto
  <2>2. \A u \in Thread : /\ pc'[u] = "process" <=> pc[u] = "process"
                          /\ pc'[u] = "start" <=> pc[u] = "start"
                          /\ pc[u] = "process" => tag'[u] = tag[u]
    BY <2>1 DEF IndInv, TypeOK
  <2> QED BY <2>1, <2>2 DEF Listeners, Started
<1>5. ASSUME UNCHANGED <<service, pc, tag>>
      PROVE  Started' = Started /\ \A m \in Method : Listeners(m)' = Listeners(m)
  BY <1>5 DEF Listeners, Started
<1>6. ASSUME NEW c \in Call, Receive(c)
      PROVE  UNCHANGED <<service, pc, tag>>
  BY <1>6 DEF Receive, threads
<1> QED BY <1>1, <1>2, <1>3, <1>4, <1>5, <1>6 DEF vars, threads

\* The server never stops listening to a method, whatever the calls and however
\* the threads share them (BrokerServer.cc:27-36, SendMessageService.cc:21).
THEOREM AlwaysListening == Spec => []NeverDeaf
<1>1. Init => NeverDeaf
  <2> SUFFICES ASSUME Init, NEW m \in Method
               PROVE  Listeners(m) = {} /\ Started = {}
    BY DEF NeverDeaf
  <2>1. Started = {}
    BY DEF Init, Started
  <2>2. Listeners(m) = {}
    BY NoneIsNoMethod DEF Init, Listeners, Free
  <2> QED BY <2>1, <2>2
<1>2. IndInv /\ NeverDeaf /\ [Next]_vars => NeverDeaf'
  <2> SUFFICES ASSUME IndInv, NeverDeaf, [Next]_vars PROVE NeverDeaf'
    OBVIOUS
  <2>1. CASE \E t \in Thread : SpecificHandle(t)
    BY <2>1, StartListens
  <2>2. CASE \E t \in Thread : Process(t)
    BY <2>2, ProcessListens
  <2>3. CASE \/ \E t \in Thread :
                  TakeEvent(t) \/ ProceedProcess(t) \/ ProceedFinish(t) \/ Finish(t)
             \/ \E c \in Call : Receive(c)
             \/ UNCHANGED vars
    BY <2>3, OthersListen
  <2> QED BY <2>1, <2>2, <2>3 DEF Next, HandleRpcs, Quiet
<1> QED BY <1>1, <1>2, Invariance, PTL DEF Spec

-----------------------------------------------------------------------------
(* The work left decreases at every step                                   *)

\* A thread is in object o at the given label.
In(o, label) == \E t \in Thread : tag[t] = o /\ pc[t] = label

\* The steps that are left in the life of object o, but for the first.
Stage(o) ==
  IF In(o, "proceed") THEN (IF service[o].status = "PROCESS" THEN 5 ELSE 1)
  ELSE IF In(o, "process") THEN 4
  ELSE IF In(o, "answer") THEN 3
  ELSE IF Queued(o) THEN (IF service[o].status = "PROCESS" THEN 6 ELSE 2)
  ELSE 0

Stages == [o \in Object |-> Stage(o)]

Given(c) == \E o \in Object : callOf[o] = c

NotGiven == {c \in Call : answered[c] = 0 /\ ~ Given(c)}

Work ==
  Cardinality(Thread \ Started) + 7 * Cardinality(NotGiven) + SumFunctionOnSet(Stages, Object)

\* A call that an object has is being worked on, or answered.
GivenAnswered ==
  \A o \in Object : service[o] # Free /\ o \notin registered =>
    /\ callOf[o] \in Call
    /\ ~ Working(o) => answered[callOf[o]] = 1

\* A thread is at one place.
LEMMA StageHeld ==
  ASSUME IndInv, NEW t \in Thread, tag[t] \in Object
  PROVE  /\ \A label : In(tag[t], label) <=> pc[t] = label
         /\ ~ Queued(tag[t])
         /\ tag[t] \notin registered /\ tag[t] \notin dropped
         /\ service[tag[t]] # Free
<1>1. \A u \in Thread : tag[u] = tag[t] => u = t
  BY NoObjectFree DEF IndInv, OneOwner
<1>2. Held(tag[t])
  BY DEF Held
<1>. QED BY <1>1, <1>2 DEF IndInv, OneOwner, In, Queued

LEMMA StageRest ==
  ASSUME IndInv, NEW o \in Object, ~ Held(o)
  PROVE  \A label : ~ In(o, label)
BY DEF Held, In

LEMMA StageNat == \A o \in Object : Stage(o) \in Nat
BY DEF Stage

LEMMA StagesChange ==
  ASSUME NEW o \in Object, \A q \in Object \ {o} : Stage(q)' = Stage(q)
  PROVE  /\ SumFunctionOnSet(Stages, Object) \in Nat
         /\ SumFunctionOnSet(Stages, Object)'
              = SumFunctionOnSet(Stages, Object) - Stage(o) + Stage(o)'
<1>1. IsFiniteSet(Object)
  BY SetsCounted
<1>2. /\ \A q \in Object : Stages[q] \in Nat /\ Stages[q] = Stage(q)
      /\ \A q \in Object : Stages'[q] = Stage(q)'
      /\ Stage(o)' \in Nat
  BY StageNat DEF Stages, Stage
<1>3. SumFunctionOnSet(Stages, Object) \in Nat
  BY <1>1, <1>2, SumFewer
<1>4. PICK h : h = Stages'
  OBVIOUS
<1>5. SumFunctionOnSet(h, Object) = SumFunctionOnSet(Stages, Object) - Stages[o] + h[o]
  BY <1>1, <1>2, <1>4, SumChange
<1>. QED BY <1>2, <1>3, <1>4, <1>5

LEMMA StagesSame ==
  ASSUME \A q \in Object : Stage(q)' = Stage(q)
  PROVE  SumFunctionOnSet(Stages, Object)' = SumFunctionOnSet(Stages, Object)
<1>1. Stages' = Stages
  BY DEF Stages
<1>. QED BY <1>1

\* Calls are only given, and answered once given.
LEMMA CallsCounted ==
  /\ IsFiniteSet(NotGiven) /\ Cardinality(NotGiven) \in Nat
  /\ IsFiniteSet(Thread \ Started) /\ Cardinality(Thread \ Started) \in Nat
  /\ SumFunctionOnSet(Stages, Object) \in Nat
<1>1. IsFiniteSet(NotGiven) /\ IsFiniteSet(Thread \ Started)
  BY SetsFinite, FS_Subset, FS_Difference DEF NotGiven
<1>2. SumFunctionOnSet(Stages, Object) \in Nat
  <2>1. \A q \in Object : Stages[q] \in Nat
    BY StageNat DEF Stages
  <2>. QED BY <2>1, SetsCounted, SumFewer
<1>. QED BY <1>1, <1>2, FS_CardinalityType

LEMMA WorkNat == Work \in Nat
BY CallsCounted DEF Work

LEMMA WorkNatNext == Work' \in Nat
<1>1. IsFiniteSet(NotGiven') /\ IsFiniteSet((Thread \ Started)')
  BY SetsFinite, FS_Subset, FS_Difference DEF NotGiven
<1>2. SumFunctionOnSet(Stages, Object)' \in Nat
  <2>1. PICK h : h = Stages'
    OBVIOUS
  <2>2. \A q \in Object : h[q] \in Nat
    BY <2>1 DEF Stages, Stage
  <2>. QED BY <2>1, <2>2, SetsCounted, SumFewer
<1>. QED BY <1>1, <1>2, FS_CardinalityType DEF Work

\* Between taking its call and deleting itself an object keeps it, and submits its
\* answer before it can be deleted (SendMessageService.cc:21-23).
LEMMA GivenAnsweredInductive ==
  ASSUME IndInv, GivenAnswered, [Next]_vars
  PROVE  GivenAnswered'
<1> USE DEF IndInv
<1>1. CASE UNCHANGED vars
  BY <1>1 DEF vars, grpc, threads, GivenAnswered, Working
<1>2. ASSUME NEW t \in Thread, SpecificHandle(t) \/ Process(t) PROVE GivenAnswered'
  <2>1. PICK made : Fresh(made)
    <3>1. CASE SpecificHandle(t)
      BY <3>1, NewMakes, MadeFresh DEF SpecificHandle
    <3>2. CASE Process(t)
      <4>1. service[tag[t]].method \in Method
        BY <3>2, NoObjectFree, LiveObject DEF TypeOK, OneOwner, Held, ThreadsSound, Process
      <4>. QED BY <3>2, <4>1, NewMakes, MadeFresh DEF Process
    <3>. QED BY <1>2, <3>1, <3>2
  <2>2. UNCHANGED <<callOf, tag, answered>>
    BY <1>2 DEF SpecificHandle, Process
  <2>3. \A u \in Thread : tag[u] \in Object /\ pc[u] \in {"process", "answer"}
                            => pc'[u] \in {"process", "answer"}
    BY <1>2 DEF SpecificHandle, Process, Goto, TypeOK
  <2>4. \A q \in Object : service'[q] # Free /\ q \notin registered'
          => service[q] # Free /\ q \notin registered /\ service'[q] = service[q]
    BY <2>1 DEF Fresh
  <2>5. \A q \in Object : Working(q) /\ service'[q] # Free /\ q \notin registered' => Working(q)'
    BY <2>2, <2>3, <2>4 DEF Working
  <2>. QED BY <2>2, <2>4, <2>5 DEF GivenAnswered
<1>3. ASSUME NEW c \in Call, Receive(c) PROVE GivenAnswered'
  <2>1. PICK o \in registered : /\ registered' = registered \ {o}
                                /\ callOf' = [callOf EXCEPT ![o] = c]
    BY <1>3 DEF Receive
  <2>2. UNCHANGED <<service, pc, tag, answered>> /\ o \in Object
    BY <1>3, <2>1 DEF Receive, threads, TypeOK
  <2>3. Working(o)'
    BY <2>1, <2>2 DEF OneOwner, CallsSound, Working
  <2>4. \A q \in Object \ {o} : Working(q) => Working(q)'
    BY <2>1, <2>2 DEF Working
  <2>. QED BY <2>1, <2>2, <2>3, <2>4 DEF GivenAnswered, TypeOK
<1>4. ASSUME NEW t \in Thread, TakeEvent(t) PROVE GivenAnswered'
  <2>1. UNCHANGED <<service, registered, callOf, answered>>
    BY <1>4 DEF TakeEvent
  <2>2. \A u \in Thread \ {t} : pc'[u] = pc[u] /\ tag'[u] = tag[u]
    BY <1>4 DEF TakeEvent, Goto, threads, TypeOK
  <2>3. pc[t] = "next"
    BY <1>4 DEF TakeEvent
  <2>4. \A q \in Object : Working(q) => Working(q)'
    BY <2>1, <2>2, <2>3 DEF Working
  <2>. QED BY <2>1, <2>4 DEF GivenAnswered
<1>5. ASSUME NEW t \in Thread, ProceedProcess(t) PROVE GivenAnswered'
  <2>1. /\ UNCHANGED <<registered, callOf, tag, answered>>
        /\ pc' = [pc EXCEPT ![t] = "process"] /\ pc[t] = "proceed"
        /\ service' = [service EXCEPT ![tag[t]].status = "FINISH"]
        /\ service[tag[t]].status = "PROCESS"
    BY <1>5 DEF ProceedProcess, Goto, grpc, Status
  <2>2. /\ tag[t] \in Object /\ service[tag[t]] # Free
        /\ tag[t] \notin registered
    BY <2>1, NoObjectFree DEF TypeOK, OneOwner, Held, ThreadsSound
  <2>3. \A q \in Object \ {tag[t]} : service'[q] = service[q]
    BY <2>1 DEF TypeOK
  <2>4. \A q \in Object : service'[q] # Free => service[q] # Free
    BY <2>2, <2>3
  <2>5. pc'[t] = "process" /\ \A u \in Thread : pc[u] \in {"process", "answer"} =>
                                  pc'[u] \in {"process", "answer"}
    BY <2>1 DEF TypeOK
  <2>6. \A q \in Object : Working(q) /\ service'[q] # Free => Working(q)'
    BY <2>1, <2>3, <2>5 DEF Working
  <2>. QED BY <2>1, <2>4, <2>6 DEF GivenAnswered
<1>6. ASSUME NEW t \in Thread, ProceedFinish(t) PROVE GivenAnswered'
  <2>1. /\ UNCHANGED <<registered, answered>>
        /\ service' = [service EXCEPT ![tag[t]] = Free]
        /\ callOf' = [callOf EXCEPT ![tag[t]] = NoCall]
        /\ pc' = [pc EXCEPT ![t] = "next"] /\ tag' = [tag EXCEPT ![t] = NoObject]
        /\ pc[t] = "proceed"
    BY <1>6 DEF ProceedFinish, Goto
  <2>2. tag[t] \in Object
    BY <2>1 DEF TypeOK, ThreadsSound
  <2>3. \A q \in Object : service'[q] # Free => q # tag[t] /\ service'[q] = service[q]
                                                /\ callOf'[q] = callOf[q]
    BY <2>1, <2>2 DEF TypeOK
  <2>4. \A u \in Thread \ {t} : pc'[u] = pc[u] /\ tag'[u] = tag[u]
    BY <2>1 DEF TypeOK
  <2>5. \A q \in Object : service'[q] # Free /\ Working(q) => Working(q)'
    BY <2>1, <2>3, <2>4 DEF Working
  <2>. QED BY <2>1, <2>3, <2>5 DEF GivenAnswered
<1>7. ASSUME NEW t \in Thread, Finish(t) PROVE GivenAnswered'
  <2>1. /\ UNCHANGED <<service, registered, callOf>> /\ pc[t] = "answer"
        /\ answered' = [answered EXCEPT ![callOf[tag[t]]] = answered[callOf[tag[t]]] + 1]
        /\ pc' = [pc EXCEPT ![t] = "next"] /\ tag' = [tag EXCEPT ![t] = NoObject]
    BY <1>7 DEF Finish, Goto
  <2>2. /\ tag[t] \in Object /\ service[tag[t]] # Free /\ tag[t] \notin registered
    BY <2>1, NoObjectFree DEF TypeOK, OneOwner, Held, ThreadsSound
  <2>3. Working(tag[t])
    BY <2>1, <2>2 DEF Working
  <2>4. callOf[tag[t]] \in Call /\ answered[callOf[tag[t]]] = 0
    BY <2>2, <2>3 DEF CallsSound
  <2>5. \A u \in Thread \ {t} : pc'[u] = pc[u] /\ tag'[u] = tag[u]
    BY <2>1 DEF TypeOK
  <2>6. \A q \in Object \ {tag[t]} : Working(q) => Working(q)'
    BY <2>1, <2>5 DEF Working
  <2>7. answered'[callOf[tag[t]]] = 1
    BY <2>1, <2>4 DEF TypeOK
  <2>8. \A q \in Object \ {tag[t]} : callOf[q] \in Call => callOf[q] # callOf[tag[t]]
    BY <2>2, <2>4, CallsOfMethods, NoneIsNoMethod DEF CallsSound, NoCall
  <2>9. \A c \in Call : c # callOf[tag[t]] => answered'[c] = answered[c]
    BY <2>1 DEF TypeOK
  <2>10. ASSUME NEW q \in Object, service'[q] # Free, q \notin registered'
         PROVE  callOf'[q] \in Call /\ (~ Working(q)' => answered'[callOf'[q]] = 1)
    <3>1. CASE q = tag[t]
      BY <2>1, <2>4, <2>7, <3>1
    <3>2. CASE q # tag[t]
      BY <2>1, <2>6, <2>8, <2>9, <2>10, <3>2 DEF GivenAnswered
    <3>. QED BY <3>1, <3>2
  <2>. QED BY <2>10 DEF GivenAnswered
<1>. QED BY <1>1, <1>2, <1>3, <1>4, <1>5, <1>6, <1>7 DEF Next, HandleRpcs, Quiet

\* Every object that has a call has it until it is deleted, and has answered it
\* when only its end is left (RpcService.cc:18-26).
THEOREM AnsweredBeforeDeleted == Spec => []GivenAnswered
<1>1. Init => GivenAnswered
  BY DEF Init, GivenAnswered
<1>2. IndInv /\ GivenAnswered /\ [Next]_vars => GivenAnswered'
  BY GivenAnsweredInductive
<1>. QED BY <1>1, <1>2, Invariance, PTL DEF Spec

\* What the stage of an object depends on.
LEMMA StageKept ==
  ASSUME NEW q \in Object, service'[q].status = service[q].status,
         Queued(q)' <=> Queued(q), \A label : In(q, label)' <=> In(q, label)
  PROVE  Stage(q)' = Stage(q)
<1>1. /\ In(q, "proceed")' <=> In(q, "proceed")
      /\ In(q, "process")' <=> In(q, "process")
      /\ In(q, "answer")' <=> In(q, "answer")
  BY Zenon
<1>. HIDE DEF In
<1>. QED BY <1>1 DEF Stage

\* The objects other threads are in stay where they are.
LEMMA OthersIn ==
  ASSUME IndInv, NEW t \in Thread, NEW q \in Object, q # tag[t], q # tag'[t],
         \A u \in Thread \ {t} : pc'[u] = pc[u] /\ tag'[u] = tag[u]
  PROVE  \A label : In(q, label)' <=> In(q, label)
BY DEF In

\* New objects have no work to do yet.
LEMMA FreshStages ==
  ASSUME IndInv, IndInv', NEW t \in Thread, NEW made, Fresh(made),
         UNCHANGED <<cq, callOf, tag, answered, dropped>>,
         \A u \in Thread \ {t} : pc'[u] = pc[u]
  PROVE  /\ \A q \in Object : q # tag[t] => Stage(q)' = Stage(q)
         /\ NotGiven' = NotGiven
<1>1. NotGiven' = NotGiven
  BY DEF NotGiven, Given
<1>2. ASSUME NEW q \in Object, q # tag[t] PROVE Stage(q)' = Stage(q)
  <2>1. \A label : In(q, label)' <=> In(q, label)
    BY <1>2, OthersIn
  <2>2. Queued(q)' <=> Queued(q)
    BY DEF Queued
  <2>3. CASE q \in made
    <3>1. ~ Queued(q) /\ ~ Held(q)
      BY <2>3 DEF Fresh, IndInv, OneOwner
    <3>2. \A label : ~ In(q, label) /\ ~ In(q, label)'
      BY <2>1, <3>1, StageRest
    <3>3. /\ ~ In(q, "proceed") /\ ~ In(q, "process") /\ ~ In(q, "answer")
          /\ ~ In(q, "proceed")' /\ ~ In(q, "process")' /\ ~ In(q, "answer")'
      BY <3>2
    <3>. QED BY <2>2, <3>1, <3>3 DEF Stage
  <2>4. CASE q \notin made
    <3>1. service'[q] = service[q]
      BY <2>4 DEF Fresh
    <3>. QED BY <2>1, <2>2, <3>1, StageKept
  <2>. QED BY <2>3, <2>4
<1>. QED BY <1>1, <1>2

\* A thread starts once (RpcServer.cc:50).
LEMMA StartShrinks ==
  ASSUME IndInv, IndInv', NEW t \in Thread, SpecificHandle(t)
  PROVE  Work' < Work
<1>1. PICK made : Fresh(made)
  BY NewMakes, MadeFresh DEF SpecificHandle, IndInv
<1>2. /\ UNCHANGED <<cq, callOf, tag, answered, dropped>>
      /\ pc[t] = "start" /\ pc' = [pc EXCEPT ![t] = "next"]
  BY DEF SpecificHandle, Goto
<1>3. /\ tag[t] = NoObject /\ NoObject \notin Object
      /\ \A u \in Thread \ {t} : pc'[u] = pc[u]
  BY <1>2, NoObjectFree DEF IndInv, ThreadsSound, TypeOK
<1>4. /\ \A q \in Object : Stage(q)' = Stage(q)
      /\ NotGiven' = NotGiven
  BY <1>1, <1>2, <1>3, FreshStages
<1>5. SumFunctionOnSet(Stages, Object)' = SumFunctionOnSet(Stages, Object)
  BY <1>4, StagesSame
<1>6. /\ (Thread \ Started)' = (Thread \ Started) \ {t}
      /\ t \in Thread \ Started
  BY <1>2 DEF Started, IndInv, TypeOK
<1>7. Cardinality((Thread \ Started)') = Cardinality(Thread \ Started) - 1
  BY <1>6, CallsCounted, FS_RemoveElement
<1>. QED BY <1>4, <1>5, <1>7, CallsCounted DEF Work

\* The next object is made once for each call (SendMessageService.cc:21).
LEMMA ProcessShrinks ==
  ASSUME IndInv, IndInv', NEW t \in Thread, Process(t)
  PROVE  Work' < Work
<1>0. service[tag[t]].method \in Method
  BY NoObjectFree, LiveObject DEF IndInv, TypeOK, OneOwner, Held, ThreadsSound, Process
<1>1. PICK made : Fresh(made)
  BY <1>0, NewMakes, MadeFresh DEF Process, IndInv
<1>2. /\ UNCHANGED <<cq, callOf, tag, answered, dropped>>
      /\ pc[t] = "process" /\ pc' = [pc EXCEPT ![t] = "answer"]
  BY DEF Process, Goto
<1>3. /\ tag[t] \in Object /\ tag'[t] = tag[t] /\ pc'[t] = "answer"
      /\ \A u \in Thread \ {t} : pc'[u] = pc[u]
      /\ Started' = Started
  BY <1>2 DEF IndInv, ThreadsSound, TypeOK, Started
<1>4. /\ \A q \in Object \ {tag[t]} : Stage(q)' = Stage(q)
      /\ NotGiven' = NotGiven
  BY <1>1, <1>2, <1>3, FreshStages
<1>5. Stage(tag[t]) = 4
  <2>1. ~ In(tag[t], "proceed") /\ In(tag[t], "process")
    BY <1>2, <1>3, StageHeld
  <2>. QED BY <2>1 DEF Stage
<1>6. Stage(tag[t])' = 3
  <2>1. \A u \in Thread : tag'[u] = tag'[t] => u = t
    BY <1>2, <1>3, NoObjectFree DEF IndInv, OneOwner
  <2>2. In(tag[t], "answer")' /\ ~ In(tag[t], "proceed")' /\ ~ In(tag[t], "process")'
    BY <1>2, <1>3, <2>1 DEF In
  <2>. QED BY <2>2 DEF Stage
<1>7. /\ SumFunctionOnSet(Stages, Object) \in Nat
      /\ SumFunctionOnSet(Stages, Object)'
           = SumFunctionOnSet(Stages, Object) - Stage(tag[t]) + Stage(tag[t])'
  BY <1>3, <1>4, StagesChange
<1>. QED BY <1>3, <1>4, <1>5, <1>6, <1>7, CallsCounted DEF Work

\* A call is given to one object (BrokerServer.cc:27-36).
LEMMA ReceiveShrinks ==
  ASSUME IndInv, IndInv', NEW c \in Call, Receive(c)
  PROVE  Work' < Work
<1>1. PICK o \in registered : /\ registered' = registered \ {o}
                              /\ callOf' = [callOf EXCEPT ![o] = c]
                              /\ cq' = cq \cup {[tag |-> o, ok |-> TRUE]}
  BY DEF Receive
<1>2. /\ \A q \in Object : callOf[q] # c
      /\ answered[c] = 0
      /\ UNCHANGED <<service, pc, tag, answered, dropped>> /\ o \in Object
  BY <1>1 DEF Receive, threads, IndInv, TypeOK
<1>3. /\ ~ Queued(o) /\ ~ Held(o) /\ callOf[o] = NoCall
      /\ service[o].status = "PROCESS"
  BY <1>1, <1>2 DEF IndInv, OneOwner, CallsSound
<1>4. [tag |-> o, ok |-> TRUE].tag = o
  OBVIOUS
<1>5. \A q \in Object \ {o} : Queued(q)' <=> Queued(q)
  BY <1>1, <1>4 DEF Queued
<1>6. \A q \in Object : \A label : In(q, label)' <=> In(q, label)
  BY <1>2 DEF In
<1>7. \A q \in Object \ {o} : Stage(q)' = Stage(q)
  BY <1>2, <1>5, <1>6, StageKept
<1>8. Stage(o) = 0 /\ Stage(o)' = 6
  <2>1. ~ In(o, "proceed") /\ ~ In(o, "process") /\ ~ In(o, "answer")
    BY <1>2, <1>3, StageRest
  <2>2. Queued(o)'
    BY <1>1, <1>4 DEF Queued
  <2>3. ~ In(o, "proceed")' /\ ~ In(o, "process")' /\ ~ In(o, "answer")'
    BY <1>2, <1>6, <2>1
  <2>4. service'[o].status = "PROCESS"
    BY <1>2, <1>3
  <2>. QED BY <1>3, <2>1, <2>2, <2>3, <2>4 DEF Stage
<1>9. /\ SumFunctionOnSet(Stages, Object) \in Nat
      /\ SumFunctionOnSet(Stages, Object)'
           = SumFunctionOnSet(Stages, Object) - Stage(o) + Stage(o)'
  BY <1>2, <1>7, StagesChange
<1>10. c \in NotGiven /\ NotGiven' = NotGiven \ {c}
  <2>1. NoCall \notin Call
    BY CallsOfMethods, NoneIsNoMethod DEF NoCall
  <2>2. \A d \in Call : d # c => (Given(d)' <=> Given(d))
    BY <1>1, <1>2, <1>3, <2>1 DEF Given, IndInv, TypeOK
  <2>3. Given(c)' /\ ~ Given(c)
    BY <1>1, <1>2 DEF Given, IndInv, TypeOK
  <2>. QED BY <1>2, <2>2, <2>3 DEF NotGiven
<1>11. Cardinality(NotGiven') = Cardinality(NotGiven) - 1
  BY <1>10, CallsCounted, FS_RemoveElement
<1>12. Started' = Started
  BY <1>2 DEF Started
<1>. QED BY <1>8, <1>9, <1>11, <1>12, CallsCounted DEF Work

\* A thread in proceed() has the object its event was for (RpcServer.cc:60-69).
LEMMA TakeEventShrinks ==
  ASSUME IndInv, IndInv', NEW t \in Thread, TakeEvent(t)
  PROVE  Work' < Work
<1>1. PICK e \in cq :
        /\ cq' = cq \ {e}
        /\ IF e.ok
           THEN /\ pc' = [pc EXCEPT ![t] = "proceed"]
                /\ tag' = [tag EXCEPT ![t] = e.tag]
                /\ UNCHANGED dropped
           ELSE dropped' = dropped \cup {e.tag} /\ UNCHANGED <<pc, tag>>
  BY DEF TakeEvent, Goto, threads
<1>2. pc[t] = "next" /\ UNCHANGED <<service, registered, callOf, answered>>
  BY DEF TakeEvent
<1>3. e.tag \in Object /\ tag[t] = NoObject /\ NoObject \notin Object
  BY <1>2, NoObjectFree DEF IndInv, TypeOK, ThreadsSound
<1> DEFINE o == e.tag
<1>4. /\ Queued(o) /\ ~ Held(o) /\ ~ Queued(o)'
      /\ \A q \in Object \ {o} : Queued(q)' <=> Queued(q)
  BY <1>1, <1>3 DEF IndInv, OneOwner, Queued, TypeOK
<1>5. \A u \in Thread \ {t} : pc'[u] = pc[u] /\ tag'[u] = tag[u]
  BY <1>1 DEF IndInv, TypeOK
<1>6. tag'[t] \in {NoObject, o}
  BY <1>1, <1>3 DEF IndInv, TypeOK
<1>7. \A q \in Object \ {o} : Stage(q)' = Stage(q)
  <2> SUFFICES ASSUME NEW q \in Object \ {o} PROVE Stage(q)' = Stage(q)
    OBVIOUS
  <2>1. q # tag[t] /\ q # tag'[t]
    BY <1>3, <1>6
  <2>2. \A label : In(q, label)' <=> In(q, label)
    BY <1>5, <2>1, OthersIn
  <2>. QED BY <1>2, <1>4, <2>2, StageKept
<1>8. Stage(o) = IF service[o].status = "PROCESS" THEN 6 ELSE 2
  <2>1. ~ In(o, "proceed") /\ ~ In(o, "process") /\ ~ In(o, "answer")
    BY <1>3, <1>4, StageRest
  <2>. QED BY <1>4, <2>1 DEF Stage
<1>9. Stage(o)' < Stage(o)
  <2>1. CASE e.ok
    <3>1. tag'[t] = o /\ pc'[t] = "proceed"
      BY <1>1, <2>1 DEF IndInv, TypeOK
    <3>2. In(o, "proceed")'
      BY <3>1 DEF In
    <3>3. Stage(o)' = IF service[o].status = "PROCESS" THEN 5 ELSE 1
      BY <1>2, <3>2 DEF Stage
    <3>. QED BY <1>8, <3>3
  <2>2. CASE ~ e.ok
    <3>1. \A u \in Thread : tag'[u] # o
      BY <1>1, <1>4, <2>2 DEF Held
    <3>2. ~ In(o, "proceed")' /\ ~ In(o, "process")' /\ ~ In(o, "answer")'
      BY <3>1 DEF In
    <3>3. Stage(o)' = 0
      BY <1>4, <3>2 DEF Stage
    <3>. QED BY <1>8, <3>3
  <2>. QED BY <2>1, <2>2
<1>10. /\ SumFunctionOnSet(Stages, Object) \in Nat
       /\ SumFunctionOnSet(Stages, Object)'
            = SumFunctionOnSet(Stages, Object) - Stage(o) + Stage(o)'
  BY <1>3, <1>7, StagesChange
<1>11. NotGiven' = NotGiven
  BY <1>2 DEF NotGiven, Given
<1>12. Started' = Started
  BY <1>1, <1>2 DEF Started, IndInv, TypeOK
<1>13. Stage(o) \in Nat /\ Stage(o)' \in Nat
  BY DEF Stage
<1>. HIDE DEF o
<1>. QED BY <1>9, <1>10, <1>11, <1>12, <1>13, CallsCounted DEF Work

\* What the steps of a thread in an object have in common.
LEMMA InsideShrinks ==
  ASSUME IndInv, IndInv', NEW t \in Thread, NEW o \in Object, o = tag[t],
         \A u \in Thread \ {t} : pc'[u] = pc[u] /\ tag'[u] = tag[u],
         \A q \in Object \ {o} : q # tag'[t] /\ service'[q] = service[q]
                                 /\ (Queued(q)' <=> Queued(q)),
         Stage(o)' < Stage(o), NotGiven' \subseteq NotGiven, Started' = Started
  PROVE  Work' < Work
<1>1. \A q \in Object \ {o} : Stage(q)' = Stage(q)
  <2> SUFFICES ASSUME NEW q \in Object \ {o} PROVE Stage(q)' = Stage(q)
    OBVIOUS
  <2>1. \A label : In(q, label)' <=> In(q, label)
    BY OthersIn
  <2>. QED BY <2>1, StageKept
<1>2. /\ SumFunctionOnSet(Stages, Object) \in Nat
      /\ SumFunctionOnSet(Stages, Object)'
           = SumFunctionOnSet(Stages, Object) - Stage(o) + Stage(o)'
  BY <1>1, StagesChange
<1>3. Cardinality(NotGiven') <= Cardinality(NotGiven) /\ Cardinality(NotGiven') \in Nat
  BY CallsCounted, FS_Subset, FS_CardinalityType
<1>4. Stage(o) \in Nat /\ Stage(o)' \in Nat
  BY DEF Stage
<1>. QED BY <1>2, <1>3, <1>4, CallsCounted DEF Work

\* An object lives twice (RpcService.cc:18-26): its first life begins ...
LEMMA ProceedProcessShrinks ==
  ASSUME IndInv, IndInv', NEW t \in Thread, ProceedProcess(t)
  PROVE  Work' < Work
<1>1. /\ UNCHANGED <<registered, cq, callOf, tag, answered, dropped>>
      /\ pc' = [pc EXCEPT ![t] = "process"] /\ pc[t] = "proceed"
      /\ service' = [service EXCEPT ![tag[t]].status = "FINISH"]
      /\ service[tag[t]].status = "PROCESS"
  BY DEF ProceedProcess, Goto, grpc, Status
<1>2. PICK o \in Object : o = tag[t]
  BY <1>1 DEF IndInv, TypeOK, ThreadsSound
<1>3. \A u \in Thread \ {t} : pc'[u] = pc[u] /\ tag'[u] = tag[u]
  BY <1>1 DEF IndInv, TypeOK
<1>4. pc'[t] = "process" /\ tag'[t] = o
  BY <1>1, <1>2 DEF IndInv, TypeOK
<1>5. \A q \in Object \ {o} : q # tag'[t] /\ service'[q] = service[q]
                              /\ (Queued(q)' <=> Queued(q))
  BY <1>1, <1>2, <1>4 DEF IndInv, TypeOK, Queued
<1>6. Stage(o) = 5
  BY <1>1, <1>2, StageHeld DEF Stage
<1>7. Stage(o)' = 4
  <2>1. \A u \in Thread : tag'[u] = o => u = t
    BY <1>1, <1>2, NoObjectFree DEF IndInv, OneOwner
  <2>2. In(o, "process")' /\ ~ In(o, "proceed")'
    BY <1>4, <2>1 DEF In
  <2>. QED BY <2>2 DEF Stage
<1>8. NotGiven' = NotGiven /\ Started' = Started
  BY <1>1 DEF NotGiven, Given, Started, IndInv, TypeOK
<1>. QED BY <1>2, <1>3, <1>5, <1>6, <1>7, <1>8, InsideShrinks

\* ... and is over when the answer is submitted (SendMessageService.cc:23) ...
LEMMA FinishShrinks ==
  ASSUME IndInv, IndInv', NEW t \in Thread, Finish(t)
  PROVE  Work' < Work
<1>1. PICK o \in Object : o = tag[t]
  BY DEF IndInv, TypeOK, ThreadsSound, Finish
<1>2. PICK ok \in BOOLEAN : cq' = cq \cup {[tag |-> o, ok |-> ok]}
  BY <1>1 DEF Finish
<1>3. /\ UNCHANGED <<service, registered, callOf, dropped>> /\ pc[t] = "answer"
      /\ answered' = [answered EXCEPT ![callOf[o]] = answered[callOf[o]] + 1]
      /\ pc' = [pc EXCEPT ![t] = "next"] /\ tag' = [tag EXCEPT ![t] = NoObject]
  BY <1>1 DEF Finish, Goto
<1>4. \A u \in Thread \ {t} : pc'[u] = pc[u] /\ tag'[u] = tag[u]
  BY <1>3 DEF IndInv, TypeOK
<1>5. [tag |-> o, ok |-> ok].tag = o
  OBVIOUS
<1>6. tag'[t] = NoObject
  BY <1>3 DEF IndInv, TypeOK
<1>7. \A q \in Object \ {o} : q # tag'[t] /\ service'[q] = service[q]
                              /\ (Queued(q)' <=> Queued(q))
  BY <1>2, <1>3, <1>5, <1>6, NoObjectFree DEF Queued
<1>8. Stage(o) = 3
  <2>1. ~ In(o, "proceed") /\ ~ In(o, "process") /\ In(o, "answer")
    BY <1>1, <1>3, StageHeld
  <2>. QED BY <2>1 DEF Stage
<1>9. Stage(o)' = 2
  <2>1. service[o].status = "FINISH"
    BY <1>1, <1>3 DEF IndInv, ThreadsSound, Status
  <2>2. \A u \in Thread : tag'[u] # o
    BY <1>1, <1>4, <1>6, NoObjectFree DEF IndInv, OneOwner
  <2>3. ~ In(o, "proceed")' /\ ~ In(o, "process")' /\ ~ In(o, "answer")'
    BY <2>2 DEF In
  <2>4. Queued(o)'
    BY <1>2, <1>5 DEF Queued
  <2>5. service'[o].status # "PROCESS"
    BY <1>3, <2>1
  <2>. QED BY <2>3, <2>4, <2>5 DEF Stage
<1>10. NotGiven' = NotGiven
  <2>1. \A c \in Call : Given(c)' <=> Given(c)
    BY <1>3 DEF Given
  <2>2. \A c \in Call : c # callOf[o] => answered'[c] = answered[c]
    BY <1>3 DEF IndInv, TypeOK
  <2>3. Given(callOf[o])
    BY DEF Given
  <2>. QED BY <2>1, <2>2, <2>3 DEF NotGiven
<1>11. Started' = Started
  BY <1>3 DEF Started, IndInv, TypeOK
<1>. QED BY <1>1, <1>4, <1>7, <1>8, <1>9, <1>10, <1>11, InsideShrinks

\* ... and the second ends with the object; its call, answered, is not given again.
LEMMA ProceedFinishShrinks ==
  ASSUME IndInv, IndInv', GivenAnswered, NEW t \in Thread, ProceedFinish(t)
  PROVE  Work' < Work
<1>1. /\ UNCHANGED <<registered, cq, answered, dropped>>
      /\ service' = [service EXCEPT ![tag[t]] = Free]
      /\ callOf' = [callOf EXCEPT ![tag[t]] = NoCall]
      /\ pc' = [pc EXCEPT ![t] = "next"] /\ tag' = [tag EXCEPT ![t] = NoObject]
      /\ pc[t] = "proceed" /\ service[tag[t]].status = "FINISH"
  BY DEF ProceedFinish, Goto, Status
<1>2. PICK o \in Object : o = tag[t]
  BY <1>1 DEF IndInv, TypeOK, ThreadsSound
<1>3. \A u \in Thread \ {t} : pc'[u] = pc[u] /\ tag'[u] = tag[u]
  BY <1>1 DEF IndInv, TypeOK
<1>4. tag'[t] = NoObject
  BY <1>1 DEF IndInv, TypeOK
<1>5. \A q \in Object \ {o} : q # tag'[t] /\ service'[q] = service[q]
                              /\ (Queued(q)' <=> Queued(q))
  BY <1>1, <1>2, <1>4, NoObjectFree DEF IndInv, TypeOK, Queued
<1>6. /\ service[o] # Free /\ o \notin registered /\ ~ Queued(o)
      /\ \A label : In(o, label) <=> pc[t] = label
  BY <1>2, StageHeld
<1>7. Stage(o) = 1
  BY <1>1, <1>2, <1>6 DEF Stage
<1>8. Stage(o)' = 0
  <2>1. \A u \in Thread : tag'[u] # o
    BY <1>2, <1>3, <1>4, NoObjectFree DEF IndInv, OneOwner
  <2>2. ~ In(o, "proceed")' /\ ~ In(o, "process")' /\ ~ In(o, "answer")'
    BY <2>1 DEF In
  <2>3. ~ Queued(o)'
    BY <1>1, <1>6 DEF Queued
  <2>. QED BY <2>2, <2>3 DEF Stage
<1>9. NotGiven' \subseteq NotGiven
  <2>1. ~ Working(o)
    <3>1. ~ In(o, "process") /\ ~ In(o, "answer")
      BY <1>1, <1>6
    <3>. QED BY <1>1, <1>2, <3>1 DEF Working, In
  <2>2. callOf[o] \in Call /\ answered[callOf[o]] = 1
    BY <1>6, <2>1 DEF GivenAnswered
  <2>3. ASSUME NEW c \in Call, c # callOf[o] PROVE Given(c)' <=> Given(c)
    <3>1. \A q \in Object \ {o} : callOf'[q] = callOf[q]
      BY <1>1, <1>2 DEF IndInv, TypeOK
    <3>2. callOf'[o] # c
      BY <1>1, <1>2, CallsOfMethods, NoneIsNoMethod DEF IndInv, TypeOK, NoCall
    <3>. QED BY <2>3, <3>1, <3>2 DEF Given
  <2>. QED BY <1>1, <2>2, <2>3 DEF NotGiven
<1>10. Started' = Started
  BY <1>1 DEF Started, IndInv, TypeOK
<1>. QED BY <1>2, <1>3, <1>5, <1>7, <1>8, <1>9, <1>10, InsideShrinks

WorkShrinks == [][Work' \in 0 .. Work - 1]_vars

\* Every step of the server or of gRPC brings the last answer nearer, whichever thread
\* takes it: nothing goes on for ever, and no call is taken up again once its object
\* is deleted (RpcServer.cc:57-70, RpcService.cc:15-27).
THEOREM ServerProgress == Spec => WorkShrinks
<1>1. IndInv /\ IndInv' /\ GivenAnswered /\ [Next]_vars => [Work' \in 0 .. Work - 1]_vars
  <2> SUFFICES ASSUME IndInv, IndInv', GivenAnswered, [Next]_vars, ~ UNCHANGED vars
               PROVE  Work' < Work
    BY WorkNat, WorkNatNext
  <2>1. CASE \E t \in Thread : HandleRpcs(t)
    BY <2>1, StartShrinks, TakeEventShrinks, ProceedProcessShrinks, ProceedFinishShrinks,
       ProcessShrinks, FinishShrinks DEF HandleRpcs
  <2>2. CASE \E c \in Call : Receive(c)
    BY <2>2, ReceiveShrinks
  <2>. QED BY <2>1, <2>2 DEF Next, Quiet
<1>. QED BY <1>1, Invariance, AnsweredBeforeDeleted, PTL DEF Spec, WorkShrinks

-----------------------------------------------------------------------------
(* The server is never stuck, and at rest only when it may be              *)

\* A smaller set has room in a larger one.
LEMMA SmallerFits ==
  ASSUME NEW S, IsFiniteSet(S), NEW T, IsFiniteSet(T), Cardinality(S) <= Cardinality(T)
  PROVE  \E f \in [S -> T] : \A x, y \in S : f[x] = f[y] => x = y
<1>1. /\ Cardinality(S) \in Nat /\ Cardinality(T) \in Nat
      /\ ExistsBijection(1 .. Cardinality(S), S)
      /\ ExistsBijection(1 .. Cardinality(T), T)
  BY FS_CardinalityType
<1>2. ExistsBijection(S, 1 .. Cardinality(S))
  BY <1>1, Fun_ExistsBijSymmetric
<1>3. PICK g : g \in Bijection(S, 1 .. Cardinality(S))
  BY <1>2, Fun_ExistsBij
<1>4. PICK h : h \in Bijection(1 .. Cardinality(T), T)
  BY <1>1, Fun_ExistsBij
<1>5. g \in [S -> 1 .. Cardinality(S)] /\ \A x, y \in S : g[x] = g[y] => x = y
  BY <1>3, Fun_InjectionProperties DEF Bijection
<1>6. /\ h \in [1 .. Cardinality(T) -> T]
      /\ \A x, y \in 1 .. Cardinality(T) : h[x] = h[y] => x = y
  BY <1>4, Fun_InjectionProperties DEF Bijection
<1>7. \A x \in S : g[x] \in 1 .. Cardinality(T)
  BY <1>1, <1>5
<1>. DEFINE f == [x \in S |-> h[g[x]]]
<1>8. f \in [S -> T]
  BY <1>6, <1>7
<1>9. \A x, y \in S : f[x] = f[y] => x = y
  BY <1>5, <1>6, <1>7
<1>. QED BY <1>8, <1>9

\* A set each of whose elements stands for another one in a finite set is no larger.
LEMMA OneForEach ==
  ASSUME NEW S, NEW T, IsFiniteSet(T), NEW f, \A x \in S : f[x] \in T,
         \A x, y \in S : f[x] = f[y] => x = y
  PROVE  IsFiniteSet(S) /\ Cardinality(S) <= Cardinality(T)
<1>. DEFINE g == [x \in S |-> f[x]]
<1>1. g \in [S -> T] /\ \A x, y \in S : g[x] = g[y] => x = y
  OBVIOUS
<1>2. g \in Injection(S, T)
  BY <1>1 DEF Injection, IsInjective
<1>. HIDE DEF g
<1>. QED BY <1>2, FS_Injection

Listening == {o \in Object : \E m \in Method : o \in Listeners(m)}

LEMMA ListenersCounted ==
  ASSUME IndInv, NeverDeaf
  PROVE  IsFiniteSet(Listening)
         /\ Cardinality(Listening) <= Cardinality(Method) * Cardinality(Started)
<1>1. \A m \in Method : \E f \in [Listeners(m) -> Started] :
                          \A x, y \in Listeners(m) : f[x] = f[y] => x = y
  <2>. SUFFICES ASSUME NEW m \in Method
                PROVE  \E f \in [Listeners(m) -> Started] :
                          \A x, y \in Listeners(m) : f[x] = f[y] => x = y
    OBVIOUS
  <2>1. Cardinality(Listeners(m)) = Cardinality(Started) /\ Cardinality(Started) \in Nat
    BY SetsCounted, FS_CardinalityType DEF NeverDeaf
  <2>. QED BY <2>1, SetsCounted, SmallerFits
<1>. DEFINE F == [m \in Method |->
                    CHOOSE f \in [Listeners(m) -> Started] :
                      \A x, y \in Listeners(m) : f[x] = f[y] => x = y]
<1>2. \A m \in Method : /\ F[m] \in [Listeners(m) -> Started]
                        /\ \A x, y \in Listeners(m) : F[m][x] = F[m][y] => x = y
  <2>. SUFFICES ASSUME NEW m \in Method
                PROVE  /\ F[m] \in [Listeners(m) -> Started]
                       /\ \A x, y \in Listeners(m) : F[m][x] = F[m][y] => x = y
    OBVIOUS
  <2>1. F[m] = CHOOSE f \in [Listeners(m) -> Started] :
                 \A x, y \in Listeners(m) : f[x] = f[y] => x = y
    OBVIOUS
  <2>. HIDE DEF F
  <2>. QED BY <1>1, <2>1
<1>. HIDE DEF F
<1>. DEFINE g == [o \in Listening |-> <<service[o].method, F[service[o].method][o]>>]
<1>3. \A o \in Listening : o \in Listeners(service[o].method) /\ service[o].method \in Method
  BY DEF Listening, Listeners
<1>4. \A o \in Listening : g[o] \in Method \X Started
  BY <1>2, <1>3
<1>5. \A o, q \in Listening : g[o] = g[q] => o = q
  <2>. SUFFICES ASSUME NEW o \in Listening, NEW q \in Listening, g[o] = g[q]
                PROVE  o = q
    OBVIOUS
  <2>1. /\ service[o].method = service[q].method
        /\ F[service[o].method][o] = F[service[o].method][q]
    OBVIOUS
  <2>. QED BY <1>2, <1>3, <2>1
<1>. HIDE DEF g
<1>6. /\ IsFiniteSet(Method \X Started)
      /\ Cardinality(Method \X Started) = Cardinality(Method) * Cardinality(Started)
  BY SetsFinite, SetsCounted, FS_Product
<1>. QED BY <1>4, <1>5, <1>6, OneForEach

\* The other objects that are not free have a call each.
Serving == {o \in Object : service[o] # Free /\ o \notin Listening}

LEMMA ServingCounted ==
  ASSUME IndInv, GivenAnswered
  PROVE  /\ \A o \in Serving : callOf[o] \in Call
         /\ \A o, q \in Object : callOf[o] = callOf[q] /\ callOf[o] \in Call => o = q
<1>1. NoCall \notin Call
  BY CallsOfMethods, NoneIsNoMethod DEF NoCall
<1>2. \A o \in Serving : o \notin registered
  <2>. SUFFICES ASSUME NEW o \in Serving, o \in registered PROVE FALSE
    OBVIOUS
  <2>1. service[o].status = "PROCESS" /\ service[o].method \in Method /\ o \in Object
    BY LiveObject DEF IndInv, CallsSound, Serving
  <2>2. o \in Listeners(service[o].method)
    BY <2>1 DEF Listeners
  <2>. QED BY <2>1, <2>2 DEF Serving, Listening
<1>. QED BY <1>1, <1>2 DEF GivenAnswered, Serving, IndInv, CallsSound

\* Room for as many new objects as there are methods, or for one.
LEMMA RoomForMethods ==
  ASSUME NEW ms \in SUBSET Method, NEW live,
         live = {o \in Object : service[o] # Free},
         IsFiniteSet(live), Cardinality(live) + Cardinality(ms) <= Cardinality(Object)
  PROVE  Places(ms) # {}
<1>. DEFINE free == {o \in Object : service[o] = Free}
<1>1. free = Object \ live /\ live \subseteq Object
  OBVIOUS
<1>2. IsFiniteSet(ms) /\ IsFiniteSet(free) /\ Cardinality(ms) \in Nat
      /\ Cardinality(live) \in Nat /\ Cardinality(Object) \in Nat
  BY SetsFinite, SetsCounted, FS_Subset, FS_CardinalityType
<1>3. Cardinality(free) = Cardinality(Object) - Cardinality(live)
  <2>. HIDE DEF free
  <2>1. Object \cap live = live
    BY <1>1
  <2>2. Cardinality(Object \ live) = Cardinality(Object) - Cardinality(Object \cap live)
    BY SetsCounted, FS_Difference
  <2>. QED BY <1>1, <2>1, <2>2
<1>4. Cardinality(ms) <= Cardinality(free)
  BY <1>2, <1>3
<1>. HIDE DEF free
<1>5. PICK f \in [ms -> free] : \A x, y \in ms : f[x] = f[y] => x = y
  BY <1>2, <1>4, SmallerFits
<1>6. f \in Places(ms)
  BY <1>5 DEF Places, free
<1>. QED BY <1>6

\* What there is to count.
LEMMA ObjectsCounted ==
  ASSUME IndInv, NeverDeaf, NEW calls \in SUBSET Call,
         \A o \in Serving : callOf[o] \in calls, GivenAnswered
  PROVE  LET live == {o \in Object : service[o] # Free}
         IN  /\ IsFiniteSet(live)
             /\ Cardinality(live) <= Cardinality(Method) * Cardinality(Started)
                                       + Cardinality(calls)
             /\ Cardinality(live) \in Nat
<1>. DEFINE live == {o \in Object : service[o] # Free}
<1>1. IsFiniteSet(calls) /\ Cardinality(calls) \in Nat
  BY SetsFinite, FS_Subset, FS_CardinalityType
<1>2. IsFiniteSet(Serving) /\ Cardinality(Serving) <= Cardinality(calls)
  <2>1. \A o, q \in Serving : callOf[o] = callOf[q] => o = q
    BY ServingCounted DEF Serving
  <2>. QED BY <1>1, <2>1, OneForEach
<1>3. IsFiniteSet(Listening)
      /\ Cardinality(Listening) <= Cardinality(Method) * Cardinality(Started)
  BY ListenersCounted
<1>4. /\ IsFiniteSet(Serving \cup Listening)
      /\ Cardinality(Serving \cup Listening)
           = Cardinality(Serving) + Cardinality(Listening) - Cardinality(Serving \cap Listening)
  BY <1>2, <1>3, FS_Union
<1>5. /\ Cardinality(Serving) \in Nat /\ Cardinality(Listening) \in Nat
      /\ Cardinality(Serving \cap Listening) \in Nat
      /\ Cardinality(Method) \in Nat /\ Cardinality(Started) \in Nat
  BY <1>2, <1>3, SetsFinite, SetsCounted, FS_CardinalityType, FS_Intersection
<1>6. live \subseteq Serving \cup Listening
  BY DEF Serving
<1>7. /\ IsFiniteSet(live) /\ Cardinality(live) \in Nat
      /\ Cardinality(live) <= Cardinality(Serving \cup Listening)
  BY <1>4, <1>6, FS_Subset, FS_CardinalityType
<1>8. \A p \in Nat, q \in Nat : p * q \in Nat
  OBVIOUS
<1>9. Cardinality(Method) * Cardinality(Started) \in Nat
  BY <1>5, <1>8
<1>. HIDE DEF live
<1>. DEFINE k == Cardinality(Method) * Cardinality(Started)
<1>10. k \in Nat /\ Cardinality(Listening) <= k
  BY <1>3, <1>9
<1>. HIDE DEF k
<1>11. Cardinality(live) <= k + Cardinality(calls)
  BY <1>1, <1>2, <1>4, <1>5, <1>7, <1>10
<1>. QED BY <1>7, <1>11 DEF live, k

\* Room in memory is the model's own bound: one object of each method for each thread
\* and one for each call is enough.
Room ==
  \A t \in Thread :
    /\ pc[t] = "start" => Places(Method) # {}
    /\ pc[t] = "process" => Places({service[tag[t]].method}) # {}

LEMMA AlwaysRoom ==
  ASSUME IndInv, NeverDeaf, GivenAnswered
  PROVE  Room
<1>. DEFINE live == {o \in Object : service[o] # Free}
            T == Cardinality(Thread)
            M == Cardinality(Method)
            C == Cardinality(Call)
            S == Cardinality(Started)
<1>1. T \in Nat /\ M \in Nat /\ C \in Nat /\ S \in Nat
  BY SetsFinite, SetsCounted, FS_CardinalityType
<1>2. Cardinality(Object) = T * M + C
  <2>1. \A n \in Nat : Cardinality(1 .. n) = n
    BY FS_Interval
  <2>2. T * M + C \in Nat
    BY <1>1
  <2>. QED BY <2>1, <2>2 DEF Object
<1>3. Started \subseteq Thread
  BY DEF Started
<1>4. S <= T
  BY <1>3, SetsFinite, FS_Subset
<1>5. \A s, m, n \in Nat : s <= n => m * s <= n * m
  OBVIOUS
<1>6. \A s, m, n \in Nat : s + 1 <= n => m * s + m <= n * m
  <2>. SUFFICES ASSUME NEW s \in Nat, NEW m \in Nat, NEW n \in Nat, s + 1 <= n
                PROVE  m * s + m <= n * m
    OBVIOUS
  <2>1. m * (s + 1) <= n * m
    BY <1>5
  <2>2. m * (s + 1) = m * s + m
    OBVIOUS
  <2>. QED BY <2>1, <2>2
<1>. HIDE DEF live, T, M, C, S
<1>7. ASSUME NEW t \in Thread, pc[t] = "start" PROVE Places(Method) # {}
  <2>1. S + 1 <= T
    <3>1. t \notin Started
      BY <1>7 DEF Started
    <3>2. Started # Thread
      BY <3>1
    <3>3. S # T
      BY <1>3, <3>2, SetsFinite, FS_Subset DEF S, T
    <3>. QED BY <1>1, <1>4, <3>3
  <2>2. M * S + M <= T * M
    BY <1>1, <1>6, <2>1
  <2>3. \A o \in Serving : callOf[o] \in Call
    BY ServingCounted
  <2>4. IsFiniteSet(live) /\ Cardinality(live) \in Nat /\ Cardinality(live) <= M * S + C
    BY <2>3, ObjectsCounted DEF live, M, S, C
  <2>5. M * S \in Nat /\ T * M \in Nat
    BY <1>1
  <2>6. Cardinality(live) + M <= Cardinality(Object)
    BY <1>1, <1>2, <2>2, <2>4, <2>5
  <2>. QED BY <2>4, <2>6, RoomForMethods DEF live, M
<1>8. ASSUME NEW t \in Thread, pc[t] = "process"
      PROVE  Places({service[tag[t]].method}) # {}
  <2>. DEFINE o == tag[t]
              m == service[o].method
  <2>1. /\ o \in Object /\ service[o] # Free /\ o \notin registered
        /\ m \in Method /\ service[o].status = "FINISH"
    BY <1>8, NoObjectFree, LiveObject
       DEF IndInv, TypeOK, OneOwner, Held, ThreadsSound, Status
  <2>2. o \in Listeners(m)
    BY <1>8, <2>1 DEF Listeners
  <2>3. callOf[o] \in Call
    BY <2>1 DEF GivenAnswered
  <2>. DEFINE calls == Call \ {callOf[o]}
  <2>4. \A q \in Serving : callOf[q] \in calls
    <3>1. o \notin Serving
      BY <2>1, <2>2 DEF Serving, Listening
    <3>. QED BY <2>1, <2>3, <3>1, ServingCounted DEF Serving
  <2>5. Cardinality(calls) = C - 1
    BY <2>3, SetsFinite, FS_RemoveElement DEF C
  <2>. HIDE DEF o, m, calls
  <2>6. calls \in SUBSET Call
    BY DEF calls
  <2>7. IsFiniteSet(live) /\ Cardinality(live) \in Nat
        /\ Cardinality(live) <= M * S + Cardinality(calls)
    BY <2>4, <2>6, ObjectsCounted DEF live, M, S
  <2>8. M * S <= T * M /\ M * S \in Nat /\ T * M \in Nat
    BY <1>1, <1>4, <1>5
  <2>9. Cardinality({m}) = 1
    BY FS_Singleton
  <2>10. Cardinality(live) + Cardinality({m}) <= Cardinality(Object)
    BY <1>1, <1>2, <2>5, <2>7, <2>8, <2>9
  <2>11. Places({m}) # {}
    BY <2>1, <2>7, <2>10, RoomForMethods DEF live, m
  <2>. QED BY <2>11 DEF m, o
<1>. QED BY <1>7, <1>8 DEF Room

\* What gRPC needs to give call c to an object: the guard of Receive(c).
Receivable(c) ==
  ~ Given(c) /\ answered[c] = 0 /\ \E o \in registered : service[o].method = c[1]

\* What thread t needs for its next step: the guards of HandleRpcs(t).
Ready(t) ==
  \/ pc[t] = "start" /\ Places(Method) # {}
  \/ pc[t] = "next" /\ cq # {}
  \/ pc[t] = "proceed" /\ Status(t) \in {"PROCESS", "FINISH"}
  \/ pc[t] = "process" /\ Places({service[tag[t]].method}) # {}
  \/ pc[t] = "answer" /\ callOf[tag[t]] \in Call

AtRest == cq = {} /\ \A t \in Thread : pc[t] = "next"

NeverStuck ==
  /\ \A t \in Thread : Ready(t) \/ (pc[t] = "next" /\ cq = {})
  /\ Thread # {} /\ AtRest => \A c \in Call : answered[c] = 1 \/ Receivable(c)

\* No call is left behind: one that nobody has can be given to a listener.
LEMMA RestIsDone ==
  ASSUME IndInv, NeverDeaf, GivenAnswered, Thread # {}, AtRest, NEW c \in Call
  PROVE  answered[c] = 1 \/ Receivable(c)
<1>. SUFFICES ASSUME answered[c] # 1 PROVE Receivable(c)
  OBVIOUS
<1>1. answered[c] = 0
  BY DEF IndInv, TypeOK
<1>2. \A o \in Object : ~ Queued(o) /\ ~ Held(o)
  BY NoObjectFree DEF AtRest, Queued, Held, IndInv, ThreadsSound
<1>3. ~ Given(c)
  <2>. SUFFICES ASSUME NEW o \in Object, callOf[o] = c PROVE FALSE
    BY DEF Given
  <2>1. c # NoCall
    BY CallsOfMethods, NoneIsNoMethod DEF NoCall
  <2>2. service[o] # Free /\ o \notin registered
    BY <2>1 DEF IndInv, CallsSound
  <2>3. o \in dropped
    BY <1>2, <2>2 DEF IndInv, OneOwner
  <2>4. ~ Working(o)
    BY <2>3, <1>2 DEF Working, Held, IndInv, CallsSound
  <2>. QED BY <1>1, <2>2, <2>4 DEF GivenAnswered
<1>4. PICK o \in Listeners(c[1]) : TRUE
  <2>1. c[1] \in Method
    BY CallsOfMethods
  <2>2. Started # {}
    BY DEF AtRest, Started
  <2>3. Cardinality(Started) # 0
    BY <2>2, SetsCounted, FS_EmptySet
  <2>4. Listeners(c[1]) # {}
    BY <2>1, <2>3, FS_EmptySet DEF NeverDeaf
  <2>. QED BY <2>4
<1>5. /\ o \in Object /\ service[o].method = c[1] /\ service[o].status = "PROCESS"
      /\ service[o] # Free
  <2>1. o \in Object /\ service[o].method = c[1] /\ service[o].status = "PROCESS"
    BY <1>2, <1>4 DEF Listeners, Held
  <2>. QED BY <2>1, LiveObject DEF IndInv
<1>6. o \in registered
  BY <1>2, <1>5 DEF IndInv, OneOwner, CallsSound
<1>. QED BY <1>1, <1>3, <1>5, <1>6 DEF Receivable

\* No thread ever waits for anything but an event, and when all of them do and there
\* is none, every call was answered or can still be given to a listener of its method
\* (RpcServer.cc:57-70, SendMessageService.cc:16-23).
THEOREM NothingStuck == Spec => []NeverStuck
<1>1. IndInv /\ NeverDeaf /\ GivenAnswered => NeverStuck
  <2>. SUFFICES ASSUME IndInv, NeverDeaf, GivenAnswered PROVE NeverStuck
    OBVIOUS
  <2>1. ASSUME NEW t \in Thread PROVE Ready(t) \/ (pc[t] = "next" /\ cq = {})
    <3>1. pc[t] \in {"start", "next", "proceed", "process", "answer"}
      BY DEF IndInv, TypeOK
    <3>2. CASE pc[t] = "start" \/ pc[t] = "process"
      BY <3>2, AlwaysRoom DEF Room, Ready
    <3>3. CASE pc[t] = "next"
      BY <3>3 DEF Ready
    <3>4. CASE pc[t] \in {"proceed", "answer"}
      <4>1. /\ tag[t] \in Object /\ service[tag[t]] # Free /\ tag[t] \notin registered
        BY <3>4, StageHeld DEF IndInv, TypeOK, ThreadsSound
      <4>2. service[tag[t]].status \in {"PROCESS", "FINISH"} /\ callOf[tag[t]] \in Call
        BY <4>1, LiveObject DEF GivenAnswered, IndInv
      <4>. QED BY <3>4, <4>2 DEF Ready, Status
    <3>. QED BY <3>1, <3>2, <3>3, <3>4
  <2>. QED BY <2>1, RestIsDone DEF NeverStuck
<1>. QED BY <1>1, Invariance, AlwaysListening, AnsweredBeforeDeleted, PTL

=============================================================================
