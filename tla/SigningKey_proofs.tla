-------------------------- MODULE SigningKey_proofs --------------------------
(* The key of the tickets is one: proofs about SigningKey for every number of
   processes and seeds. *)
EXTENDS SigningKey, TLAPS

\* What a process signs with without a key of its own is what the database
\* holds, and the database never changes it.
UsedIsStored == \A k \in used : k = stored
OwnKeyIsUsed == \A p \in Processes : pc[p] = "serving" /\ Given[p] = None => key[p] \in used
KeyInv == TypeOK /\ UsedIsStored /\ OwnKeyIsUsed

\* A step keeps the type invariant.
LEMMA TypeStep == TypeOK /\ [Next]_vars => TypeOK'
<1> SUFFICES ASSUME TypeOK, [Next]_vars PROVE TypeOK'
  OBVIOUS
<1>1. ASSUME NEW p \in Processes, StartConfigured(p) PROVE TypeOK'
  <2>1. Given[p] \in Seeds
    BY <1>1, KeyAssumption DEF StartConfigured
  <2> QED
    BY <1>1, <2>1 DEF TypeOK, StartConfigured
<1>2. ASSUME NEW p \in Processes, Start(p) PROVE TypeOK'
  BY <1>2 DEF TypeOK, Start
<1>3. ASSUME NEW p \in Processes, Insert(p) PROVE TypeOK'
  BY <1>3, KeyAssumption DEF TypeOK, Insert, Offered
<1>4. ASSUME NEW p \in Processes, Load(p) PROVE TypeOK'
  BY <1>4 DEF TypeOK, Load, Loaded
<1>5. ASSUME NEW p \in Processes, Stop(p) PROVE TypeOK'
  BY <1>5 DEF TypeOK, Stop
<1>6. CASE UNCHANGED vars
  BY <1>6 DEF TypeOK, vars
<1> QED
  BY <1>1, <1>2, <1>3, <1>4, <1>5, <1>6 DEF Next

\* A step keeps the whole invariant: only Insert writes the setting, and only
\* while no process can have used one.
LEMMA KeyStep == KeyInv /\ [Next]_vars => KeyInv'
<1> SUFFICES ASSUME KeyInv, [Next]_vars PROVE KeyInv'
  OBVIOUS
<1>0. TypeOK /\ TypeOK'
  BY TypeStep DEF KeyInv
<1>1. ASSUME NEW p \in Processes, StartConfigured(p) PROVE UsedIsStored' /\ OwnKeyIsUsed'
  BY <1>0, <1>1 DEF KeyInv, UsedIsStored, OwnKeyIsUsed, TypeOK, StartConfigured
<1>2. ASSUME NEW p \in Processes, Start(p) PROVE UsedIsStored' /\ OwnKeyIsUsed'
  BY <1>0, <1>2 DEF KeyInv, UsedIsStored, OwnKeyIsUsed, TypeOK, Start
<1>3. ASSUME NEW p \in Processes, Insert(p) PROVE UsedIsStored' /\ OwnKeyIsUsed'
  <2>1. stored = None => used = {}
    BY <1>0, KeyAssumption DEF KeyInv, UsedIsStored, TypeOK
  <2>2. UsedIsStored'
    BY <1>3, <2>1 DEF KeyInv, UsedIsStored, Insert, Offered
  <2>3. OwnKeyIsUsed'
    BY <1>0, <1>3 DEF KeyInv, OwnKeyIsUsed, TypeOK, Insert
  <2> QED
    BY <2>2, <2>3
<1>4. ASSUME NEW p \in Processes, Load(p) PROVE UsedIsStored' /\ OwnKeyIsUsed'
  BY <1>0, <1>4 DEF KeyInv, UsedIsStored, OwnKeyIsUsed, TypeOK, Load, Loaded
<1>5. ASSUME NEW p \in Processes, Stop(p) PROVE UsedIsStored' /\ OwnKeyIsUsed'
  BY <1>0, <1>5 DEF KeyInv, UsedIsStored, OwnKeyIsUsed, TypeOK, Stop
<1>6. CASE UNCHANGED vars
  BY <1>0, <1>6 DEF KeyInv, UsedIsStored, OwnKeyIsUsed, vars
<1> QED
  BY <1>0, <1>1, <1>2, <1>3, <1>4, <1>5, <1>6 DEF Next, KeyInv

\* The inductive invariant holds throughout.
LEMMA KeyAlways == Spec => []KeyInv
<1>1. Init => KeyInv
  BY DEF Init, KeyInv, TypeOK, UsedIsStored, OwnKeyIsUsed
<1> QED
  BY <1>1, KeyStep, PTL DEF Spec

\* The setting and the processes keep their types: a process that serves has a
\* key, and one that loads finds the setting there.
THEOREM KeyTyping == Spec => []TypeOK
<1>1. KeyInv => TypeOK
  BY DEF KeyInv
<1> QED
  BY <1>1, KeyAlways, PTL

\* However many processes start, stop and race, those without a key of their
\* own sign with the same one (EnsureAccessTicketSigningKey).
THEOREM Agreement == Spec => []OneKey
<1>1. KeyInv => OneKey
  BY DEF KeyInv, UsedIsStored, OwnKeyIsUsed, OneKey
<1> QED
  BY <1>1, KeyAlways, PTL
=============================================================================
