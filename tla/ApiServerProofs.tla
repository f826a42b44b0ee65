--------------------------- MODULE ApiServerProofs ---------------------------
(***************************************************************************)
(* What a write does to the versions of the objects, for the proofs about  *)
(* the reconcilers.                                                        *)
(***************************************************************************)
EXTENDS ApiServer, TLAPS

(* The logs next are the logs with version committed to the object k.  The *)
(* older versions are untouched: what a cache or a reconcile holds does    *)
(* not change under its hands.                                             *)
Extends(Keys, logs, next, k, version, S) ==
    /\ next \in [Keys -> Seq(S)]
    /\ \A j \in Keys \ {k} : next[j] = logs[j]
    /\ Len(next[k]) = Len(logs[k]) + 1
    /\ \A j \in Keys : /\ Len(logs[j]) \in Nat /\ Len(next[j]) \in Nat
                        /\ Len(next[j]) >= Len(logs[j])
    /\ \A j \in Keys : \A i \in 1..Len(logs[j]) : next[j][i] = logs[j][i]
    /\ next[k][Len(logs[k]) + 1] = version

(* A commit extends the logs.                                              *)
LEMMA CommitExtends ==
    ASSUME NEW Keys, NEW S, NEW logs \in [Keys -> Seq(S)],
           NEW k \in Keys, NEW version \in S
    PROVE  Extends(Keys, logs, [logs EXCEPT ![k] = Commit(@, version)], k, version, S)
  <1> DEFINE log == logs[k]
             next == [logs EXCEPT ![k] = Commit(log, version)]
  <1>1. log \in Seq(S) /\ next[k] = Commit(log, version)
    OBVIOUS
  <1>2. /\ \A j \in Keys \ {k} : next[j] = logs[j]
        /\ \A j \in Keys : logs[j] \in Seq(S) /\ Len(logs[j]) \in Nat
    OBVIOUS
  <1>3. next = [j \in Keys |-> next[j]]
    OBVIOUS
  <1> HIDE DEF log, next
  <1>4. /\ next[k] \in Seq(S)
        /\ Len(next[k]) = Len(log) + 1
        /\ \A i \in 1..Len(log) : next[k][i] = log[i]
        /\ next[k][Len(log) + 1] = version
    BY <1>1 DEF Commit
  <1>5. log = logs[k]
    BY DEF log
  <1>6. next \in [Keys -> Seq(S)]
    BY <1>2, <1>3, <1>4
  <1>7. ASSUME NEW j \in Keys
        PROVE  /\ Len(logs[j]) \in Nat /\ Len(next[j]) \in Nat
               /\ Len(next[j]) >= Len(logs[j])
               /\ \A i \in 1..Len(logs[j]) : next[j][i] = logs[j][i]
    <2>1. CASE j = k
      BY <1>2, <1>4, <1>5, <2>1
    <2>2. CASE j # k
      BY <1>2, <2>2
    <2> QED
      BY <2>1, <2>2
  <1>8. Extends(Keys, logs, next, k, version, S)
    BY <1>2, <1>4, <1>5, <1>6, <1>7 DEF Extends
  <1> QED
    BY <1>8 DEF next, log
=============================================================================
