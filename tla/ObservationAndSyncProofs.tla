---------------------- MODULE ObservationAndSyncProofs ----------------------
(***************************************************************************)
(* Proofs about what the application exchanges with others.                *)
(*                                                                         *)
(* First the collaboration sync of S7, for any instances, records,         *)
(* overlapping pushes and pulls, batch limit and number of crashes: the    *)
(* inductive invariant SyncInv.  Its parts follow an envelope on its way:  *)
(* Versioned in the store of its instance, Intact from there to the chain  *)
(* of the mirror, Mirrored from the chain to what is shown, OneMoment from *)
(* the chain to the copies.                                                *)
(*                                                                         *)
(* Then the observations of S5, for any targets, calls, ids and number of  *)
(* redirects: the inductive invariant ObservationInv and the three         *)
(* properties it contains.                                                 *)
(***************************************************************************)
EXTENDS CollaborationSync, ProviderObservation, FiniteSetTheorems, TLAPS

-----------------------------------------------------------------------------
(* Envelopes *)

\* An envelope has a cursor, a revision and a record, and is something.
LEMMA EnvelopeParts ==
    ASSUME NEW e \in Envelopes
    PROVE  /\ e.cursor \in Nat /\ e.rev \in Nat /\ e.rec \in Records /\ e.payload \in Payloads
           /\ Digest(e) \in Digests /\ e # Nothing
BY NothingAssumption DEF Envelopes, Digest, Digests

\* What is known of an instance is its envelopes, wherever they are.
LEMMA KnownParts ==
    ASSUME TypeOK, NEW i \in Instances
    PROVE  /\ env[i] \subseteq Known(i) /\ Known(i) \subseteq Envelopes
           /\ chain[i] \in Seq(Envelopes) /\ Len(chain[i]) \in Nat
           /\ \A m \in 1..Len(chain[i]) : chain[i][m] \in Known(i)
           /\ Range(chain[i]) \subseteq Known(i)
           /\ \A k \in Pushes : By[k] = i => Range(push[k].batch) \subseteq Known(i)
<1>1. env[i] \subseteq Envelopes /\ chain[i] \in Seq(Envelopes)
      /\ \A k \in Pushes : push[k].batch \in Seq(Envelopes)
  BY DEF TypeOK
<1>2. \A s \in Seq(Envelopes) : Range(s) \subseteq Envelopes /\ \A m \in 1..Len(s) : s[m] \in Range(s)
  BY DEF Range
<1>3. Known(i) \subseteq Envelopes
  BY <1>1, <1>2 DEF Known
<1>4. QED BY <1>1, <1>2, <1>3 DEF Known

\* What is known later, when the places it may be in hold nothing else.
LEMMA KnownFrom ==
    ASSUME TypeOK', NEW i \in Instances, NEW S, env'[i] \subseteq S,
           \A m \in 1..Len(chain'[i]) : chain'[i][m] \in S,
           \A k \in Pushes : By[k] = i => Range(push'[k].batch) \subseteq S
    PROVE  Known(i)' \subseteq S
<1>1. chain'[i] \in Seq(Envelopes)
  BY DEF TypeOK
<1>2. Range(chain'[i]) \subseteq S
  BY <1>1 DEF Range
<1>3. QED BY <1>2 DEF Known

\* The latest envelope of a record has the highest cursor and revision, and there
\* is one if there is any.
LEMMA LatestParts ==
    ASSUME TypeOK, NEW i \in Instances, NEW r \in Records, Versioned(i)
    PROVE  \/ LatestOf(i, r) = Nothing /\ \A d \in Known(i) : d.rec # r
           \/ /\ LatestOf(i, r) \in env[i] /\ LatestOf(i, r).rec = r
              /\ \A d \in env[i] : d.rec = r => d.cursor <= LatestOf(i, r).cursor
              /\ \A d \in Known(i) : d.rec = r => d.rev <= LatestOf(i, r).rev
<1>1. PICK own : own = {e \in env[i] : e.rec = r}
  OBVIOUS
<1>2. CASE own = {}
  <2>1. LatestOf(i, r) = Nothing
    BY <1>1, <1>2 DEF LatestOf
  <2>2. \A d \in Known(i) : d.rec # r
    BY <1>1, <1>2 DEF Versioned
  <2>3. QED BY <2>1, <2>2
<1>3. CASE own # {}
  <2>1. \E e \in own : \A d \in own : d.cursor <= e.cursor
    BY <1>1, <1>3 DEF Versioned, HasLatest
  <2>2. LatestOf(i, r) = CHOOSE e \in own : \A d \in own : d.cursor <= e.cursor
    BY <1>1, <1>3 DEF LatestOf
  <2>3. PICK e : e = LatestOf(i, r)
    OBVIOUS
  <2>4. e \in own /\ \A d \in own : d.cursor <= e.cursor
    BY <2>1, <2>2, <2>3
  <2>5. e \in env[i] /\ e.rec = r /\ \A d \in env[i] : d.rec = r => d.cursor <= e.cursor
    BY <1>1, <2>4
  <2>6. ASSUME NEW d \in Known(i), d.rec = r PROVE d.rev <= e.rev
    <3>1. PICK f \in env[i] : f.cursor = d.cursor /\ f.rec = d.rec /\ d.rev <= f.rev
      BY DEF Versioned
    <3>2. f.cursor <= e.cursor
      BY <2>5, <2>6, <3>1
    <3>3. {d, e, f} \subseteq Known(i) /\ {d, e, f} \subseteq Envelopes
      BY <2>5, <3>1, KnownParts
    <3>4. d.cursor \in Nat /\ e.cursor \in Nat /\ d.rev \in Nat /\ e.rev \in Nat /\ f.rev \in Nat
      BY <3>3, EnvelopeParts
    <3>5. CASE f.cursor = e.cursor
      <4>1. f = e BY <2>5, <2>6, <3>1, <3>5 DEF Versioned
      <4>2. QED BY <3>1, <4>1
    <3>6. CASE f.cursor < e.cursor
      <4>1. d.rev < e.rev
        BY <2>5, <2>6, <3>1, <3>3, <3>6 DEF Versioned
      <4>2. QED BY <3>4, <4>1
    <3>7. QED BY <3>1, <3>2, <3>4, <3>5, <3>6
  <2>7. QED BY <2>3, <2>5, <2>6
<1>4. QED BY <1>2, <1>3

\* A batch holds pending envelopes.
LEMMA BatchParts ==
    ASSUME TypeOK, NEW i \in Instances, Versioned(i), NEW s \in Batches(i)
    PROVE  s \in Seq(Envelopes) /\ Range(s) \subseteq env[i]
<1>1. Pending(i) \subseteq env[i] /\ env[i] \subseteq Envelopes
  BY DEF Pending, TypeOK
<1>2. Cardinality(Pending(i)) \in Nat
  BY <1>1, FS_Subset, FS_CardinalityType DEF Versioned
<1>3. s \in [1..Cardinality(Pending(i)) -> Pending(i)]
  BY DEF Batches
<1>4. s \in Seq(Pending(i))
  BY <1>2, <1>3
<1>5. QED BY <1>1, <1>3, <1>4 DEF Range

-----------------------------------------------------------------------------
(* The mirror *)

\* Two sequences of envelopes, one behind the other.
LEMMA ConcatParts ==
    ASSUME NEW c \in Seq(Envelopes), NEW s \in Seq(Envelopes)
    PROVE  /\ c \o s \in Seq(Envelopes) /\ Len(c \o s) = Len(c) + Len(s) /\ Len(c) \in Nat
           /\ \A m \in 1..Len(c) : (c \o s)[m] = c[m]
           /\ \A m \in 1..Len(s) : (c \o s)[Len(c) + m] = s[m]
OBVIOUS

\* A grown chain is the old one with the accepted envelopes behind it.
LEMMA GrownParts ==
    ASSUME NEW c \in Seq(Envelopes), NEW b \in Seq(Envelopes),
           NEW from \in 0..Len(b), NEW to \in from..Len(b)
    PROVE  /\ Grown(c, b, from, to) \in Seq(Envelopes)
           /\ Len(c) \in Nat /\ Len(Grown(c, b, from, to)) = Len(c) + to - from
           /\ \A m \in 1..Len(c) : Grown(c, b, from, to)[m] = c[m]
           /\ \A m \in (Len(c) + 1)..(Len(c) + to - from) :
                 /\ from + m - Len(c) \in (from + 1)..to
                 /\ Grown(c, b, from, to)[m] = b[from + m - Len(c)]
<1>1. PICK s : s = SubSeq(b, from + 1, to)
  OBVIOUS
<1>2. /\ s \in Seq(Envelopes) /\ Len(s) = to - from
      /\ \A m \in 1..(to - from) : s[m] = b[from + m]
  BY <1>1
<1>3. /\ c \o s \in Seq(Envelopes) /\ Len(c \o s) = Len(c) + to - from /\ Len(c) \in Nat
      /\ \A m \in 1..Len(c) : (c \o s)[m] = c[m]
      /\ \A m \in 1..(to - from) : (c \o s)[Len(c) + m] = s[m]
  <2>1. /\ c \o s \in Seq(Envelopes) /\ Len(c \o s) = Len(c) + Len(s) /\ Len(c) \in Nat
        /\ \A m \in 1..Len(c) : (c \o s)[m] = c[m]
        /\ \A m \in 1..Len(s) : (c \o s)[Len(c) + m] = s[m]
    BY <1>2, ConcatParts
  <2>2. Len(c) + Len(s) = Len(c) + to - from
    BY <1>2, <2>1
  <2>3. QED BY <1>2, <2>1, <2>2
<1>4. ASSUME NEW m \in (Len(c) + 1)..(Len(c) + to - from)
      PROVE  from + m - Len(c) \in (from + 1)..to /\ (c \o s)[m] = b[from + m - Len(c)]
  <2>1. m - Len(c) \in 1..(to - from) /\ Len(c) + (m - Len(c)) = m
    BY <1>3
  <2>2. (c \o s)[m] = s[m - Len(c)] BY <1>3, <2>1
  <2>3. s[m - Len(c)] = b[from + (m - Len(c))] BY <1>2, <2>1
  <2>4. QED BY <1>3, <2>1, <2>2, <2>3
<1>5. QED BY <1>1, <1>3, <1>4 DEF Grown

\* Accepted is what has the next cursor; a duplicate is of a cursor in the chain.
LEMMA ClassifyParts ==
    ASSUME NEW c \in Seq(Envelopes), NEW e \in Envelopes
    PROVE  /\ Classify(c, e) = "accepted" => e.cursor = Len(c) + 1
           /\ Classify(c, e) = "duplicate" => \E m \in 1..Len(c) : c[m].cursor = e.cursor
<1>1. PICK same : same = {d \in Range(c) : d.cursor = e.cursor /\ d.rec = e.rec}
  OBVIOUS
<1>2. ASSUME NEW d \in same PROVE \E m \in 1..Len(c) : c[m].cursor = e.cursor
  BY <1>1 DEF Range
<1>3. Classify(c, e) = "duplicate" => \E d \in same : Digest(d) = Digest(e)
  BY <1>1 DEF Classify
<1>4. Classify(c, e) = "accepted" => e.cursor = Len(c) + 1
  BY <1>1 DEF Classify
<1>5. QED BY <1>2, <1>3, <1>4

\* What a request does to the mirror, piece by piece.
LEMMA MirrorGrows ==
    ASSUME TypeOK, NEW k \in Pushes, NEW i \in Instances, i = By[k], MirrorAppends(k)
    PROVE  /\ \A j \in Instances \ {i} : chain'[j] = chain[j] /\ shown'[j] = shown[j]
           /\ chain' \in [Instances -> Seq(Envelopes)]
           /\ shown' \in [Instances -> [Records -> Envelopes \cup {Nothing}]]
           /\ Len(chain[i]) \in Nat /\ Len(chain[i]) <= Len(chain'[i])
           /\ \A m \in 1..Len(chain[i]) : chain'[i][m] = chain[i][m]
           /\ \A m \in (Len(chain[i]) + 1)..Len(chain'[i]) :
                 chain'[i][m] \in Range(push[k].batch) /\ chain'[i][m].cursor = m
           /\ \A r \in Records :
                 \/ /\ shown'[i][r] = Nothing /\ shown[i][r] = Nothing
                    /\ \A m \in (Len(chain[i]) + 1)..Len(chain'[i]) : chain'[i][m].rec # r
                 \/ /\ \/ shown'[i][r] = shown[i][r] /\ shown[i][r] # Nothing
                       \/ \E m \in (Len(chain[i]) + 1)..Len(chain'[i]) :
                             shown'[i][r] = chain'[i][m] /\ chain'[i][m].rec = r
                    /\ shown[i][r] # Nothing => shown[i][r].rev <= shown'[i][r].rev
                    /\ \A m \in (Len(chain[i]) + 1)..Len(chain'[i]) :
                          chain'[i][m].rec = r => chain'[i][m].rev <= shown'[i][r].rev
           /\ push' \in [Pushes -> [at : {"idle", "compiling", "sent", "late", "accepted", "rejected"},
                                    batch : Seq(Envelopes)]]
           /\ \A q \in Pushes \ {k} : push'[q] = push[q]
           /\ push'[k].batch = <<>> \/ push'[k].batch = push[k].batch
           /\ push'[k].at = "accepted" =>
                 /\ push'[k].batch = push[k].batch
                 /\ \A n \in 1..Len(push[k].batch) :
                       \/ \E m \in 1..Len(chain[i]) : chain[i][m].cursor = push[k].batch[n].cursor
                       \/ \E m \in 1..Len(chain'[i]) : chain'[i][m] = push[k].batch[n]
<1>1. PICK b, c, sh : b = push[k].batch /\ c = chain[i] /\ sh = shown[i]
  OBVIOUS
<1>2. b \in Seq(Envelopes) /\ c \in Seq(Envelopes) /\ sh \in [Records -> Envelopes \cup {Nothing}]
      /\ Len(b) \in Nat
  BY <1>1 DEF TypeOK
<1>3. PICK known \in 0..Len(push[k].batch) : \E upto \in known..Len(push[k].batch) :
              /\ LoopEnds(chain[By[k]], push[k].batch, known, upto)
              /\ \E next \in [Records -> Range(push[k].batch) \cup Range(shown[By[k]])] :
                    /\ Shows(next, shown[By[k]], {push[k].batch[m] : m \in (known + 1)..upto})
                    /\ shown' = [shown EXCEPT ![By[k]] = next]
              /\ chain' = [chain EXCEPT ![By[k]] = Grown(chain[By[k]], push[k].batch, known, upto)]
              /\ push' = [push EXCEPT ![k] =
                            IF push[k].at = "late" THEN NoPush
                            ELSE [push[k] EXCEPT !.at = IF upto < Len(push[k].batch)
                                                        THEN "rejected" ELSE "accepted"]]
  BY DEF MirrorAppends
<1>4. PICK upto \in known..Len(push[k].batch) :
              /\ LoopEnds(chain[By[k]], push[k].batch, known, upto)
              /\ \E next \in [Records -> Range(push[k].batch) \cup Range(shown[By[k]])] :
                    /\ Shows(next, shown[By[k]], {push[k].batch[m] : m \in (known + 1)..upto})
                    /\ shown' = [shown EXCEPT ![By[k]] = next]
              /\ chain' = [chain EXCEPT ![By[k]] = Grown(chain[By[k]], push[k].batch, known, upto)]
              /\ push' = [push EXCEPT ![k] =
                            IF push[k].at = "late" THEN NoPush
                            ELSE [push[k] EXCEPT !.at = IF upto < Len(push[k].batch)
                                                        THEN "rejected" ELSE "accepted"]]
  BY <1>3
<1>5. PICK next \in [Records -> Range(push[k].batch) \cup Range(shown[By[k]])] :
                    /\ Shows(next, shown[By[k]], {push[k].batch[m] : m \in (known + 1)..upto})
                    /\ shown' = [shown EXCEPT ![By[k]] = next]
  BY <1>4
<1>6. /\ known \in 0..Len(b) /\ upto \in known..Len(b) /\ next \in [Records -> Range(b) \cup Range(sh)]
       /\ LoopEnds(c, b, known, upto)
       /\ Shows(next, sh, {b[m] : m \in (known + 1)..upto})
       /\ shown' = [shown EXCEPT ![i] = next]
       /\ chain' = [chain EXCEPT ![i] = Grown(c, b, known, upto)]
  <2>1. known \in 0..Len(b) /\ upto \in known..Len(b) BY <1>1
  <2>2. next \in [Records -> Range(b) \cup Range(sh)] BY <1>1
  <2>3. LoopEnds(c, b, known, upto) BY <1>1, <1>4
  <2>4. Shows(next, sh, {b[m] : m \in (known + 1)..upto}) BY <1>1, <1>5
  <2>5. shown' = [shown EXCEPT ![i] = next] BY <1>5
  <2>6. chain' = [chain EXCEPT ![i] = Grown(c, b, known, upto)] BY <1>1, <1>4
  <2>7. QED BY <2>1, <2>2, <2>3, <2>4, <2>5, <2>6
<1>7. PICK g : g = Grown(c, b, known, upto)
  OBVIOUS
<1>8. /\ g \in Seq(Envelopes) /\ Len(c) \in Nat /\ Len(g) = Len(c) + upto - known
      /\ \A m \in 1..Len(c) : g[m] = c[m]
      /\ \A m \in (Len(c) + 1)..(Len(c) + upto - known) :
            known + m - Len(c) \in (known + 1)..upto /\ g[m] = b[known + m - Len(c)]
  BY <1>2, <1>6, <1>7, GrownParts
<1>9. chain'[i] = g /\ \A j \in Instances \ {i} : chain'[j] = chain[j]
  BY <1>6, <1>7 DEF TypeOK
<1>10. shown'[i] = next /\ \A j \in Instances \ {i} : shown'[j] = shown[j]
  BY <1>5 DEF TypeOK
<1>11. next \in [Records -> Envelopes \cup {Nothing}]
  <2>1. Range(b) \subseteq Envelopes /\ Range(sh) \subseteq Envelopes \cup {Nothing}
    BY <1>2 DEF Range
  <2>2. QED BY <1>6, <2>1
<1>12. chain' \in [Instances -> Seq(Envelopes)]
       /\ shown' \in [Instances -> [Records -> Envelopes \cup {Nothing}]]
  BY <1>6, <1>7, <1>8, <1>11 DEF TypeOK
<1>13. ASSUME NEW m \in (Len(c) + 1)..Len(g)
       PROVE  /\ g[m] \in Range(b) /\ g[m].cursor = m
              /\ known + m - Len(c) \in (known + 1)..upto /\ g[m] = b[known + m - Len(c)]
  <2>1. PICK n \in (known + 1)..upto : n = known + m - Len(c) /\ g[m] = b[n]
    BY <1>8
  <2>2. n \in 1..Len(b) /\ b[n] \in Range(b) /\ b[n] \in Envelopes
    BY <1>2, <1>6, <2>1 DEF Range
  <2>3. n - 1 \in known..Len(b)
    <3>1. known \in Nat /\ upto \in Nat /\ upto <= Len(b) /\ Len(b) \in Nat
      BY <1>2, <1>6
    <3>2. QED BY <2>1, <3>1
  <2>4. /\ Grown(c, b, known, n - 1) \in Seq(Envelopes)
        /\ Len(Grown(c, b, known, n - 1)) = Len(c) + (n - 1) - known
    BY <1>2, <1>6, <2>3, GrownParts
  <2>5. Classify(Grown(c, b, known, n - 1), b[n]) = "accepted"
    BY <1>6, <2>1 DEF LoopEnds
  <2>6. b[n].cursor = Len(Grown(c, b, known, n - 1)) + 1
    BY <2>2, <2>4, <2>5, ClassifyParts
  <2>7. b[n].cursor = m
    BY <1>8, <2>1, <2>4, <2>6
  <2>8. QED BY <2>1, <2>2, <2>7
<1>14. \A n \in (known + 1)..upto : \E m \in (Len(c) + 1)..Len(g) : g[m] = b[n]
  <2>1. SUFFICES ASSUME NEW n \in (known + 1)..upto PROVE \E m \in (Len(c) + 1)..Len(g) : g[m] = b[n]
    OBVIOUS
  <2>2. PICK m : m = Len(c) + n - known
    OBVIOUS
  <2>3. m \in (Len(c) + 1)..Len(g) /\ known + m - Len(c) = n
    BY <1>6, <1>8, <2>2
  <2>4. g[m] = b[n] BY <1>13, <2>3
  <2>5. QED BY <2>3, <2>4
<1>15. ASSUME NEW r \in Records
       PROVE  \/ /\ next[r] = Nothing /\ sh[r] = Nothing
                 /\ \A m \in (Len(c) + 1)..Len(g) : g[m].rec # r
              \/ /\ \/ next[r] = sh[r] /\ sh[r] # Nothing
                    \/ \E m \in (Len(c) + 1)..Len(g) : next[r] = g[m] /\ g[m].rec = r
                 /\ sh[r] # Nothing => sh[r].rev <= next[r].rev
                 /\ \A m \in (Len(c) + 1)..Len(g) : g[m].rec = r => g[m].rev <= next[r].rev
  <2>1. PICK seen : seen = {e \in {b[m] : m \in (known + 1)..upto} : e.rec = r} \cup ({sh[r]} \ {Nothing})
    OBVIOUS
  <2>2. IF seen = {} THEN next[r] = Nothing
        ELSE next[r] \in seen /\ \A e \in seen : e.rev <= next[r].rev
    BY <1>6, <2>1 DEF Shows
  <2>3. \A m \in (Len(c) + 1)..Len(g) : g[m].rec = r => g[m] \in seen
    BY <1>13, <2>1
  <2>4. sh[r] # Nothing => sh[r] \in seen
    BY <2>1
  <2>5. \A e \in seen : \/ e = sh[r] /\ sh[r] # Nothing
                        \/ \E m \in (Len(c) + 1)..Len(g) : e = g[m] /\ g[m].rec = r
    BY <1>14, <2>1
  <2>6. CASE seen = {} BY <2>2, <2>3, <2>4, <2>6
  <2>7. CASE seen # {}
    <3>1. \/ next[r] = sh[r] /\ sh[r] # Nothing
          \/ \E m \in (Len(c) + 1)..Len(g) : next[r] = g[m] /\ g[m].rec = r
      BY <2>2, <2>5, <2>7
    <3>2. QED BY <2>2, <2>3, <2>4, <2>7, <3>1
  <2>8. QED BY <2>6, <2>7
<1>16. /\ push' \in [Pushes -> [at : {"idle", "compiling", "sent", "late", "accepted", "rejected"},
                                batch : Seq(Envelopes)]]
       /\ \A q \in Pushes \ {k} : push'[q] = push[q]
       /\ push'[k].batch = <<>> \/ push'[k].batch = b
       /\ push'[k].at = "accepted" => push'[k].batch = b /\ upto = Len(b)
  <2>1. PICK p : p = IF push[k].at = "late" THEN NoPush
                     ELSE [at |-> IF upto < Len(b) THEN "rejected" ELSE "accepted", batch |-> b]
    OBVIOUS
  <2>2. push' = [push EXCEPT ![k] = p]
    <3>1. push[k] \in [at : {"idle", "compiling", "sent", "late", "accepted", "rejected"},
                       batch : Seq(Envelopes)]
      BY DEF TypeOK
    <3>2. [push[k] EXCEPT !.at = IF upto < Len(push[k].batch) THEN "rejected" ELSE "accepted"]
             = [at |-> IF upto < Len(b) THEN "rejected" ELSE "accepted", batch |-> b]
      BY <1>1, <3>1
    <3>3. p = IF push[k].at = "late" THEN NoPush
              ELSE [push[k] EXCEPT !.at = IF upto < Len(push[k].batch) THEN "rejected" ELSE "accepted"]
      BY <2>1, <3>2
    <3>4. QED BY <1>4, <3>3
  <2>3. p \in [at : {"idle", "compiling", "sent", "late", "accepted", "rejected"}, batch : Seq(Envelopes)]
    BY <1>2, <2>1 DEF NoPush
  <2>4. p.batch = <<>> \/ p.batch = b BY <2>1 DEF NoPush
  <2>5. p.at = "accepted" => p.batch = b /\ upto = Len(b) BY <1>2, <1>6, <2>1 DEF NoPush
  <2>6. push'[k] = p BY <2>2 DEF TypeOK
  <2>7. push' \in [Pushes -> [at : {"idle", "compiling", "sent", "late", "accepted", "rejected"},
                              batch : Seq(Envelopes)]]
        /\ \A q \in Pushes \ {k} : push'[q] = push[q]
    BY <2>2, <2>3 DEF TypeOK
  <2>8. QED BY <2>4, <2>5, <2>6, <2>7
<1>17. ASSUME push'[k].at = "accepted", NEW n \in 1..Len(b)
       PROVE  \/ \E m \in 1..Len(c) : c[m].cursor = b[n].cursor
              \/ \E m \in 1..Len(g) : g[m] = b[n]
  <2>1. CASE n \in 1..known
    <3>1. Classify(c, b[n]) = "duplicate" BY <1>6, <2>1 DEF LoopEnds
    <3>2. b[n] \in Envelopes BY <1>2, <1>17
    <3>3. QED BY <1>2, <3>1, <3>2, ClassifyParts
  <2>2. CASE n \in (known + 1)..upto
    <3>1. PICK m \in (Len(c) + 1)..Len(g) : g[m] = b[n] BY <1>14, <2>2
    <3>2. m \in 1..Len(g) BY <1>8
    <3>3. QED BY <3>1, <3>2
  <2>3. QED BY <1>6, <1>16, <1>17, <2>1, <2>2
<1>18. Len(chain[i]) \in Nat /\ Len(chain[i]) <= Len(chain'[i])
       /\ \A m \in 1..Len(chain[i]) : chain'[i][m] = chain[i][m]
  BY <1>1, <1>6, <1>8, <1>9
<1>19. \A m \in (Len(chain[i]) + 1)..Len(chain'[i]) :
          chain'[i][m] \in Range(push[k].batch) /\ chain'[i][m].cursor = m
  BY <1>1, <1>9, <1>13
<1>20. \A r \in Records :
                 \/ /\ shown'[i][r] = Nothing /\ shown[i][r] = Nothing
                    /\ \A m \in (Len(chain[i]) + 1)..Len(chain'[i]) : chain'[i][m].rec # r
                 \/ /\ \/ shown'[i][r] = shown[i][r] /\ shown[i][r] # Nothing
                       \/ \E m \in (Len(chain[i]) + 1)..Len(chain'[i]) :
                             shown'[i][r] = chain'[i][m] /\ chain'[i][m].rec = r
                    /\ shown[i][r] # Nothing => shown[i][r].rev <= shown'[i][r].rev
                    /\ \A m \in (Len(chain[i]) + 1)..Len(chain'[i]) :
                          chain'[i][m].rec = r => chain'[i][m].rev <= shown'[i][r].rev
  BY <1>1, <1>9, <1>10, <1>15
<1>21. push'[k].at = "accepted" =>
                 /\ push'[k].batch = push[k].batch
                 /\ \A n \in 1..Len(push[k].batch) :
                       \/ \E m \in 1..Len(chain[i]) : chain[i][m].cursor = push[k].batch[n].cursor
                       \/ \E m \in 1..Len(chain'[i]) : chain'[i][m] = push[k].batch[n]
  BY <1>1, <1>9, <1>16, <1>17
<1>22. QED BY <1>1, <1>9, <1>10, <1>12, <1>16, <1>18, <1>19, <1>20, <1>21

-----------------------------------------------------------------------------
(* Types *)

\* A push that begins, fails, settles or dies carries its envelopes on or drops them.
LEMMA PushMoves ==
    ASSUME TypeOK,
           \/ \E k \in Pushes : PushBegins(k) \/ PushSettled(k) \/ PushFails(k) \/ LateIsLost(k)
           \/ \E i \in Instances : Crash(i)
    PROVE  /\ push' \in [Pushes -> [at : {"idle", "compiling", "sent", "late", "accepted", "rejected"}, batch : Seq(Envelopes)]]
           /\ \A q \in Pushes : push'[q].batch = <<>> \/ push'[q].batch = push[q].batch
           /\ \A q \in Pushes : push'[q].at = "accepted" => push'[q] = push[q]
           /\ env' = env /\ chain' = chain /\ shown' = shown /\ produced' = produced
<1>1. \A q \in Pushes : push[q] \in [at : {"idle", "compiling", "sent", "late", "accepted", "rejected"}, batch : Seq(Envelopes)]
  BY DEF TypeOK
<1>2. NoPush \in [at : {"idle", "compiling", "sent", "late", "accepted", "rejected"}, batch : Seq(Envelopes)]
      /\ NoPush.batch = <<>> /\ NoPush.at = "idle"
  BY DEF NoPush
<1>3. \A q \in Pushes, at \in {"idle", "compiling", "sent", "late", "rejected"} :
         /\ [push[q] EXCEPT !.at = at] \in [at : {"idle", "compiling", "sent", "late", "accepted", "rejected"}, batch : Seq(Envelopes)]
         /\ [push[q] EXCEPT !.at = at].batch = push[q].batch
         /\ [push[q] EXCEPT !.at = at].at = at
  BY <1>1
<1>4. SUFFICES
        /\ env' = env /\ chain' = chain /\ shown' = shown /\ produced' = produced
        /\ \/ push' = push
           \/ \E k \in Pushes : \E p : /\ push' = [push EXCEPT ![k] = p]
                                      /\ \/ p = NoPush
                                         \/ \E at \in {"idle", "compiling", "sent", "late", "rejected"} :
                                               p = [push[k] EXCEPT !.at = at]
           \/ /\ DOMAIN push' = Pushes /\ push' = [q \in Pushes |-> push'[q]]
              /\ \A q \in Pushes : \/ push'[q] = push[q] \/ push'[q] = NoPush
                                    \/ push'[q] = [push[q] EXCEPT !.at = "late"]
  <2>1. CASE push' = push BY <1>1, <1>4, <2>1 DEF TypeOK
  <2>2. ASSUME NEW k \in Pushes, NEW p, push' = [push EXCEPT ![k] = p],
               \/ p = NoPush
               \/ \E at \in {"idle", "compiling", "sent", "late", "rejected"} :
                     p = [push[k] EXCEPT !.at = at]
        PROVE  /\ push' \in [Pushes -> [at : {"idle", "compiling", "sent", "late", "accepted", "rejected"}, batch : Seq(Envelopes)]]
               /\ \A q \in Pushes : push'[q].batch = <<>> \/ push'[q].batch = push[q].batch
               /\ \A q \in Pushes : push'[q].at = "accepted" => push'[q] = push[q]
    <3>1. /\ p \in [at : {"idle", "compiling", "sent", "late", "accepted", "rejected"}, batch : Seq(Envelopes)]
          /\ p.batch = <<>> \/ p.batch = push[k].batch
          /\ p.at # "accepted"
      BY <1>2, <1>3, <2>2
    <3>2. push'[k] = p /\ \A q \in Pushes \ {k} : push'[q] = push[q]
      BY <2>2 DEF TypeOK
    <3>3. push' \in [Pushes -> [at : {"idle", "compiling", "sent", "late", "accepted", "rejected"}, batch : Seq(Envelopes)]]
      BY <2>2, <3>1 DEF TypeOK
    <3>4. QED BY <3>1, <3>2, <3>3
  <2>3. ASSUME push' = [q \in Pushes |-> push'[q]],
               \A q \in Pushes : \/ push'[q] = push[q] \/ push'[q] = NoPush
                                 \/ push'[q] = [push[q] EXCEPT !.at = "late"]
        PROVE  /\ push' \in [Pushes -> [at : {"idle", "compiling", "sent", "late", "accepted", "rejected"}, batch : Seq(Envelopes)]]
               /\ \A q \in Pushes : push'[q].batch = <<>> \/ push'[q].batch = push[q].batch
               /\ \A q \in Pushes : push'[q].at = "accepted" => push'[q] = push[q]
    <3>1. ASSUME NEW q \in Pushes
          PROVE  /\ push'[q] \in [at : {"idle", "compiling", "sent", "late", "accepted", "rejected"}, batch : Seq(Envelopes)]
                 /\ push'[q].batch = <<>> \/ push'[q].batch = push[q].batch
                 /\ push'[q].at = "accepted" => push'[q] = push[q]
      BY <1>1, <1>2, <1>3, <2>3
    <3>2. push' \in [Pushes -> [at : {"idle", "compiling", "sent", "late", "accepted", "rejected"}, batch : Seq(Envelopes)]]
      BY <2>3, <3>1
    <3>3. QED BY <3>1, <3>2
  <2>4. QED BY <1>4, <2>1, <2>2, <2>3
<1>5. env' = env /\ chain' = chain /\ shown' = shown /\ produced' = produced
  BY DEF PushBegins, PushSettled, PushFails, LateIsLost, Crash, source, mirror
<1>6. CASE \E k \in Pushes : PushBegins(k) \/ PushSettled(k) \/ PushFails(k) \/ LateIsLost(k)
  <2>1. ASSUME NEW k \in Pushes, PushBegins(k)
        PROVE  push' = [push EXCEPT ![k] = [push[k] EXCEPT !.at = "compiling"]]
    BY <2>1 DEF PushBegins
  <2>2. ASSUME NEW k \in Pushes, PushSettled(k) \/ LateIsLost(k)
        PROVE  push' = [push EXCEPT ![k] = NoPush]
    BY <2>2 DEF PushSettled, LateIsLost
  <2>3. ASSUME NEW k \in Pushes, PushFails(k)
        PROVE  \/ push' = [push EXCEPT ![k] = [push[k] EXCEPT !.at = "late"]]
               \/ push' = [push EXCEPT ![k] = NoPush]
    BY <2>3 DEF PushFails
  <2>4. QED BY <1>5, <1>6, <2>1, <2>2, <2>3
<1>7. ASSUME NEW i \in Instances, Crash(i)
      PROVE  /\ DOMAIN push' = Pushes /\ push' = [q \in Pushes |-> push'[q]]
             /\ \A q \in Pushes : \/ push'[q] = push[q] \/ push'[q] = NoPush
                                   \/ push'[q] = [push[q] EXCEPT !.at = "late"]
  <2>1. push' = [q \in Pushes |-> CASE By[q] # i -> push[q]
                                    [] push[q].at \in {"sent", "late"} -> [push[q] EXCEPT !.at = "late"]
                                    [] OTHER -> NoPush]
    BY <1>7 DEF Crash
  <2>2. ASSUME NEW q \in Pushes
        PROVE  \/ push'[q] = push[q] \/ push'[q] = NoPush
               \/ push'[q] = [push[q] EXCEPT !.at = "late"]
    <3>1. CASE By[q] # i BY <2>1, <3>1
    <3>2. CASE By[q] = i /\ push[q].at \in {"sent", "late"} BY <2>1, <3>2
    <3>3. CASE By[q] = i /\ push[q].at \notin {"sent", "late"} BY <2>1, <3>3
    <3>4. QED BY <3>1, <3>2, <3>3
  <2>3. QED BY <2>1, <2>2
<1>8. QED BY <1>5, <1>6, <1>7

\* Every step keeps the types.
LEMMA TypeStep ==
    ASSUME TypeOK, \A i \in Instances : Versioned(i) /\ Mirrored(i), [SyncNext]_syncVars
    PROVE  TypeOK'
<1> USE DEF source, mirror, bounds
<1>1. \A k \in Pushes \cup Pulls : By[k] \in Instances
  BY SyncAssumption
<1>2. ASSUME NEW i \in Instances, NEW r \in Records, NEW p \in Payloads, Change(i, r, p)
      PROVE  TypeOK'
  BY <1>2 DEF Change, TypeOK
<1>3. ASSUME NEW i \in Instances, ConfigureSync(i) PROVE TypeOK'
  BY <1>3 DEF ConfigureSync, TypeOK
<1>4. ASSUME NEW k \in Pushes, PushBegins(k) PROVE TypeOK'
  <2>1. push' \in [Pushes -> [at : {"idle", "compiling", "sent", "late", "accepted", "rejected"},
                              batch : Seq(Envelopes)]]
    BY <1>4 DEF PushBegins, TypeOK
  <2>2. QED BY <1>4, <2>1 DEF PushBegins, TypeOK
<1>5. ASSUME NEW k \in Pushes, EnvelopeSaved(k) PROVE TypeOK'
  <2>1. PICK i \in Instances, r \in Records :
           /\ env' = [env EXCEPT ![i] = {d \in env[i] : d.cursor # NewEnvelope(i, r).cursor
                                                        \/ d.rec # NewEnvelope(i, r).rec}
                                        \cup {NewEnvelope(i, r)}]
           /\ making' = [making EXCEPT ![i] = NewEnvelope(i, r)]
    BY <1>1, <1>5 DEF EnvelopeSaved, Changed
  <2>2. NewEnvelope(i, r) \in Envelopes
    <3>1. LatestOf(i, r) # Nothing => LatestOf(i, r) \in Envelopes
      BY LatestParts, KnownParts
    <3>2. LatestOf(i, r) # Nothing => LatestOf(i, r).rev \in Nat
      BY <3>1, EnvelopeParts
    <3>3. produced[i] \in Nat /\ data[i][r] \in Payloads /\ last[i] \in Digests
      BY DEF TypeOK
    <3>4. QED BY <3>2, <3>3 DEF NewEnvelope, Envelopes
  <2>3. env' \in [Instances -> SUBSET Envelopes]
    BY <2>1, <2>2 DEF TypeOK
  <2>4. making' \in [Instances -> Envelopes \cup {Nothing}]
    BY <2>1, <2>2 DEF TypeOK
  <2>5. QED BY <1>5, <2>3, <2>4 DEF EnvelopeSaved, TypeOK
<1>6. ASSUME NEW k \in Pushes, CursorSaved(k) PROVE TypeOK'
  <2>1. PICK i \in Instances : i = By[k] /\ making[i] \in Envelopes
    BY <1>1, <1>6 DEF CursorSaved, TypeOK
  <2>2. making[i].cursor \in Nat /\ Digest(making[i]) \in Digests
    BY <2>1, EnvelopeParts
  <2>3. produced' \in [Instances -> Nat] /\ last' \in [Instances -> Digests]
        /\ making' \in [Instances -> Envelopes \cup {Nothing}]
    BY <1>6, <2>1, <2>2 DEF CursorSaved, TypeOK
  <2>4. QED BY <1>6, <2>3 DEF CursorSaved, TypeOK
<1>7. ASSUME NEW k \in Pushes, Sent(k) PROVE TypeOK'
  <2>1. PICK s \in Batches(By[k]) :
           push' = [push EXCEPT ![k] = IF s = <<>> \/ Len(s) > MaxBatch THEN NoPush
                                       ELSE [at |-> "sent", batch |-> s]]
    BY <1>7 DEF Sent
  <2>2. s \in Seq(Envelopes)
    BY <1>1, BatchParts
  <2>3. push' \in [Pushes -> [at : {"idle", "compiling", "sent", "late", "accepted", "rejected"},
                              batch : Seq(Envelopes)]]
    BY <2>1, <2>2 DEF NoPush, TypeOK
  <2>4. QED BY <1>7, <2>3 DEF Sent, TypeOK
<1>8. ASSUME NEW k \in Pushes, MirrorAppends(k) PROVE TypeOK'
  <2>1. /\ chain' \in [Instances -> Seq(Envelopes)]
        /\ shown' \in [Instances -> [Records -> Envelopes \cup {Nothing}]]
        /\ push' \in [Pushes -> [at : {"idle", "compiling", "sent", "late", "accepted", "rejected"},
                                 batch : Seq(Envelopes)]]
    BY <1>1, <1>8, MirrorGrows
  <2>2. QED BY <1>8, <2>1 DEF MirrorAppends, TypeOK
<1>9. ASSUME NEW k \in Pushes, PushSettled(k) PROVE TypeOK'
  <2>1. push' \in [Pushes -> [at : {"idle", "compiling", "sent", "late", "accepted", "rejected"},
                              batch : Seq(Envelopes)]]
    BY <1>9 DEF PushSettled, NoPush, TypeOK
  <2>2. acked' \in [Instances -> Nat]
    BY <1>1, <1>9 DEF PushSettled, TypeOK
  <2>3. QED BY <1>9, <2>1, <2>2 DEF PushSettled, TypeOK
<1>10. ASSUME NEW k \in Pushes, PushFails(k) \/ LateIsLost(k) PROVE TypeOK'
  <2>1. push' \in [Pushes -> [at : {"idle", "compiling", "sent", "late", "accepted", "rejected"},
                              batch : Seq(Envelopes)]]
    BY <1>10, PushMoves
  <2>2. QED BY <1>10, <2>1 DEF PushFails, LateIsLost, TypeOK
<1>11. ASSUME NEW k \in Pulls, PullBegins(k) PROVE TypeOK'
  <2>1. pull' \in [Pulls -> [at : {"idle", "asked", "answered"}, view : [Instances -> Views]]]
    BY <1>11 DEF PullBegins, TypeOK
  <2>2. QED BY <1>11, <2>1 DEF PullBegins, TypeOK
<1>12. ASSUME NEW k \in Pulls, MirrorReads(k) PROVE TypeOK'
  <2>1. ASSUME NEW i \in Instances, NEW n PROVE MirrorView(i, n) \in Views
    <3>1. Len(chain[i]) \in Nat BY DEF TypeOK
    <3>2. \A r \in Records : shown[i][r] # Nothing => shown[i][r].payload \in Payloads
      BY EnvelopeParts DEF TypeOK
    <3>3. QED BY <3>1, <3>2 DEF MirrorView, Views
  <2>2. pull' \in [Pulls -> [at : {"idle", "asked", "answered"}, view : [Instances -> Views]]]
    BY <1>12, <2>1 DEF MirrorReads, TypeOK
  <2>3. QED BY <1>12, <2>2 DEF MirrorReads, TypeOK
<1>13. ASSUME NEW k \in Pulls, PullStored(k) PROVE TypeOK'
  <2>1. NoPull \in [at : {"idle", "asked", "answered"}, view : [Instances -> Views]]
    BY DEF NoPull, Empty, Views
  <2>2. pull' \in [Pulls -> [at : {"idle", "asked", "answered"}, view : [Instances -> Views]]]
    BY <1>13, <2>1 DEF PullStored, TypeOK
  <2>3. copy' \in [Instances -> [Instances -> Views]]
    BY <1>1, <1>13 DEF PullStored, TypeOK
  <2>4. QED BY <1>13, <2>2, <2>3 DEF PullStored, TypeOK
<1>14. ASSUME NEW k \in Pulls, PullFails(k) PROVE TypeOK'
  <2>1. NoPull \in [at : {"idle", "asked", "answered"}, view : [Instances -> Views]]
    BY DEF NoPull, Empty, Views
  <2>2. pull' \in [Pulls -> [at : {"idle", "asked", "answered"}, view : [Instances -> Views]]]
    BY <1>14, <2>1 DEF PullFails, TypeOK
  <2>3. QED BY <1>14, <2>2 DEF PullFails, TypeOK
<1>15. ASSUME NEW i \in Instances, Crash(i) PROVE TypeOK'
  <2>1. NoPull \in [at : {"idle", "asked", "answered"}, view : [Instances -> Views]]
    BY DEF NoPull, Empty, Views
  <2>2. pull' \in [Pulls -> [at : {"idle", "asked", "answered"}, view : [Instances -> Views]]]
    BY <1>15, <2>1 DEF Crash, TypeOK
  <2>3. push' \in [Pushes -> [at : {"idle", "compiling", "sent", "late", "accepted", "rejected"},
                              batch : Seq(Envelopes)]]
    BY <1>15, PushMoves
  <2>4. making' \in [Instances -> Envelopes \cup {Nothing}]
    BY <1>15 DEF Crash, TypeOK
  <2>5. QED BY <1>15, <2>2, <2>3, <2>4 DEF Crash, TypeOK
<1>16. CASE UNCHANGED syncVars
  BY <1>16 DEF syncVars, TypeOK
<1>17. QED
  BY <1>2, <1>3, <1>4, <1>5, <1>6, <1>7, <1>8, <1>9, <1>10, <1>11, <1>12, <1>13, <1>14, <1>15,
     <1>16 DEF SyncNext
-----------------------------------------------------------------------------
(* Where envelopes come from *)

\* A step makes no envelope but the one it saves: nothing else turns up anywhere.
LEMMA KnownStays ==
    ASSUME TypeOK, TypeOK', \A j \in Instances : Versioned(j), [SyncNext]_syncVars,
           NEW i \in Instances, \A k \in Pushes : By[k] = i => ~EnvelopeSaved(k)
    PROVE  Known(i)' \subseteq Known(i) /\ env'[i] = env[i]
<1> USE DEF source, mirror, bounds
<1>1. /\ env[i] \subseteq Known(i) /\ Range(chain[i]) \subseteq Known(i)
      /\ \A m \in 1..Len(chain[i]) : chain[i][m] \in Known(i)
      /\ \A k \in Pushes : By[k] = i => Range(push[k].batch) \subseteq Known(i)
  BY KnownParts
<1>2. Range(<<>>) = {}
  BY DEF Range
<1>3. ASSUME env'[i] = env[i], chain' = chain,
             \A q \in Pushes : push'[q].batch = <<>> \/ push'[q].batch = push[q].batch
      PROVE  Known(i)' \subseteq Known(i) /\ env'[i] = env[i]
  <2>1. \A k \in Pushes : By[k] = i => Range(push'[k].batch) \subseteq Known(i)
    BY <1>1, <1>2, <1>3
  <2>2. Known(i)' \subseteq Known(i)
    BY <1>1, <1>3, <2>1, KnownFrom
  <2>3. QED BY <1>3, <2>2
<1>4. ASSUME NEW k \in Pushes, Sent(k)
      PROVE  Known(i)' \subseteq Known(i) /\ env'[i] = env[i]
  <2>1. PICK s \in Batches(By[k]) :
           push' = [push EXCEPT ![k] = IF s = <<>> \/ Len(s) > MaxBatch THEN NoPush
                                       ELSE [at |-> "sent", batch |-> s]]
    BY <1>4 DEF Sent
  <2>2. By[k] \in Instances
    BY SyncAssumption
  <2>3. Range(s) \subseteq env[By[k]]
    BY <2>2, BatchParts
  <2>4. \A q \in Pushes \ {k} : push'[q] = push[q]
    BY <2>1 DEF TypeOK
  <2>5. push'[k].batch = <<>> \/ push'[k].batch = s
    BY <2>1 DEF NoPush, TypeOK
  <2>6. \A q \in Pushes : By[q] = i => Range(push'[q].batch) \subseteq Known(i)
    BY <1>1, <1>2, <2>3, <2>4, <2>5
  <2>7. env' = env /\ chain' = chain
    BY <1>4 DEF Sent
  <2>8. QED BY <1>1, <2>6, <2>7, KnownFrom
<1>5. ASSUME NEW k \in Pushes, MirrorAppends(k)
      PROVE  Known(i)' \subseteq Known(i) /\ env'[i] = env[i]
  <2>1. PICK j \in Instances : j = By[k]
    BY SyncAssumption
  <2>2. env' = env
    BY <1>5 DEF MirrorAppends
  <2>3. /\ \A q \in Pushes \ {k} : push'[q] = push[q]
        /\ push'[k].batch = <<>> \/ push'[k].batch = push[k].batch
    BY <1>5, <2>1, MirrorGrows
  <2>4. \A q \in Pushes : By[q] = i => Range(push'[q].batch) \subseteq Known(i)
    BY <1>1, <1>2, <2>3
  <2>5. CASE i # j
    <3>1. chain'[i] = chain[i] BY <1>5, <2>1, <2>5, MirrorGrows
    <3>2. QED BY <1>1, <2>2, <2>4, <3>1, KnownFrom
  <2>6. CASE i = j
    <3>1. /\ Len(chain[i]) \in Nat
          /\ \A m \in 1..Len(chain[i]) : chain'[i][m] = chain[i][m]
          /\ \A m \in (Len(chain[i]) + 1)..Len(chain'[i]) : chain'[i][m] \in Range(push[k].batch)
      BY <1>5, <2>1, <2>6, MirrorGrows
    <3>2. Range(push[k].batch) \subseteq Known(i)
      BY <1>1, <2>1, <2>6
    <3>3. Len(chain'[i]) \in Nat
      BY DEF TypeOK
    <3>4. \A m \in 1..Len(chain'[i]) : \/ m \in 1..Len(chain[i])
                                       \/ m \in (Len(chain[i]) + 1)..Len(chain'[i])
      BY <3>1, <3>3
    <3>5. \A m \in 1..Len(chain'[i]) : chain'[i][m] \in Known(i)
      BY <1>1, <3>1, <3>2, <3>4
    <3>6. QED BY <1>1, <2>2, <2>4, <3>5, KnownFrom
  <2>7. QED BY <2>5, <2>6
<1>6. ASSUME NEW k \in Pushes, EnvelopeSaved(k)
      PROVE  Known(i)' \subseteq Known(i) /\ env'[i] = env[i]
  <2>1. By[k] # i /\ env'[i] = env[i]
    BY <1>6 DEF EnvelopeSaved, TypeOK
  <2>2. chain' = chain /\ push' = push
    BY <1>6 DEF EnvelopeSaved
  <2>3. QED BY <1>3, <2>1, <2>2
<1>7. CASE \/ \E k \in Pushes : PushBegins(k) \/ PushSettled(k) \/ PushFails(k) \/ LateIsLost(k)
           \/ \E j \in Instances : Crash(j)
  BY <1>3, <1>7, PushMoves
<1>8. CASE \/ UNCHANGED syncVars
           \/ \E j \in Instances : ConfigureSync(j) \/ \E r \in Records, p \in Payloads : Change(j, r, p)
           \/ \E k \in Pushes : CursorSaved(k)
           \/ \E k \in Pulls : PullBegins(k) \/ MirrorReads(k) \/ PullStored(k) \/ PullFails(k)
  <2>1. env' = env /\ chain' = chain /\ push' = push
    BY <1>8 DEF syncVars, ConfigureSync, Change, CursorSaved, PullBegins, MirrorReads, PullStored, PullFails
  <2>2. QED BY <1>3, <2>1
<1>9. QED BY <1>4, <1>5, <1>6, <1>7, <1>8 DEF SyncNext

\* What EnvelopeSaved saves: an envelope of the next cursor for a record of its
\* instance, in the place of one of the same id if there is one.
LEMMA SavedParts ==
    ASSUME TypeOK, TypeOK', NEW k \in Pushes, EnvelopeSaved(k), NEW i \in Instances, By[k] = i, Versioned(i)
    PROVE  \E e \in Envelopes :
              /\ env'[i] = {d \in env[i] : d.cursor # e.cursor \/ d.rec # e.rec} \cup {e}
              /\ making[i] = Nothing /\ making'[i] = e
              /\ e.cursor = produced[i] + 1
              /\ \A d \in Known(i) : d.rec = e.rec => d.rev < e.rev
              /\ Known(i)' \subseteq Known(i) \cup {e}
              /\ produced' = produced /\ acked' = acked /\ chain' = chain /\ shown' = shown /\ push' = push
              /\ torn' = torn
<1>1. PICK r \in Changed(By[k]) :
         /\ env' = [env EXCEPT ![By[k]] = {d \in env[By[k]] : d.cursor # NewEnvelope(By[k], r).cursor
                                                             \/ d.rec # NewEnvelope(By[k], r).rec}
                                          \cup {NewEnvelope(By[k], r)}]
         /\ making' = [making EXCEPT ![By[k]] = NewEnvelope(By[k], r)]
  BY DEF EnvelopeSaved
<1>2. PICK e : e = NewEnvelope(i, r)
  OBVIOUS
<1>3. /\ env'[i] = {d \in env[i] : d.cursor # e.cursor \/ d.rec # e.rec} \cup {e}
      /\ making'[i] = e
  BY <1>1, <1>2 DEF TypeOK
<1>4. /\ making[i] = Nothing /\ torn' = torn
      /\ produced' = produced /\ acked' = acked /\ chain' = chain /\ shown' = shown /\ push' = push
  BY DEF EnvelopeSaved, mirror, bounds
<1>5. r \in Records
  BY DEF Changed
<1>6. e \in Envelopes
  BY <1>3 DEF TypeOK
<1>7. /\ e.cursor = produced[i] + 1 /\ e.rec = r
      /\ e.rev = IF LatestOf(i, r) = Nothing THEN 1 ELSE LatestOf(i, r).rev + 1
  BY <1>2 DEF NewEnvelope
<1>8. ASSUME NEW d \in Known(i), d.rec = r PROVE d.rev < e.rev
  <2>1. LatestOf(i, r) \in env[i] /\ d.rev <= LatestOf(i, r).rev
    BY <1>5, <1>8, LatestParts
  <2>2. LatestOf(i, r) \in Envelopes /\ d \in Envelopes
    BY <2>1, KnownParts
  <2>3. LatestOf(i, r).rev \in Nat /\ d.rev \in Nat /\ LatestOf(i, r) # Nothing
    BY <2>2, EnvelopeParts
  <2>4. QED BY <1>7, <2>1, <2>3
<1>9. Known(i)' \subseteq Known(i) \cup {e}
  <2>1. env'[i] \subseteq Known(i) \cup {e}
    BY <1>3, KnownParts
  <2>2. \A m \in 1..Len(chain'[i]) : chain'[i][m] \in Known(i) \cup {e}
    BY <1>4, KnownParts
  <2>3. \A q \in Pushes : By[q] = i => Range(push'[q].batch) \subseteq Known(i) \cup {e}
    BY <1>4, KnownParts
  <2>4. QED BY <2>1, <2>2, <2>3, KnownFrom
<1>10. QED BY <1>3, <1>4, <1>6, <1>7, <1>8, <1>9
-----------------------------------------------------------------------------
(* Ids, revisions and cursors *)

\* Where no envelope is made the versions stay as they are.
LEMMA VersionedStays ==
    ASSUME NEW i \in Instances, TypeOK, Versioned(i), Known(i)' \subseteq Known(i), env'[i] = env[i],
           \/ produced'[i] = produced[i] /\ (making'[i] = making[i] \/ making'[i] = Nothing)
           \/ produced'[i] = produced[i] + 1 /\ making'[i] = Nothing
    PROVE  Versioned(i)'
<1>1. IsFiniteSet(env'[i]) /\ \A r \in Records : HasLatest(i, r)'
  BY DEF Versioned, HasLatest
<1>2. \A e \in env'[i] : 1 <= e.cursor /\ e.cursor <= produced'[i] + 1
  <2>1. produced[i] \in Nat /\ \A e \in env[i] : e.cursor \in Nat
    BY EnvelopeParts DEF TypeOK
  <2>2. \A e \in env[i] : 1 <= e.cursor /\ e.cursor <= produced[i] + 1
    BY DEF Versioned
  <2>3. QED BY <2>1, <2>2
<1>3. \A d, e \in env'[i] : d.cursor = e.cursor /\ d.rec = e.rec => d = e
  BY DEF Versioned
<1>4. \A d \in Known(i)' : \E e \in env'[i] : e.cursor = d.cursor /\ e.rec = d.rec /\ d.rev <= e.rev
  BY DEF Versioned
<1>5. \A d, e \in Known(i)' : d.rec = e.rec /\ d.cursor < e.cursor => d.rev < e.rev
  BY DEF Versioned
<1>6. making'[i] # Nothing => making'[i] \in env'[i] /\ making'[i].cursor = produced'[i] + 1
  BY DEF Versioned
<1>7. QED BY <1>1, <1>2, <1>3, <1>4, <1>5, <1>6 DEF Versioned

\* A new envelope is the highest of its record, in cursor and revision.
LEMMA VersionedGrows ==
    ASSUME TypeOK, TypeOK', NEW k \in Pushes, EnvelopeSaved(k), NEW i \in Instances, By[k] = i, Versioned(i)
    PROVE  Versioned(i)'
<1>1. PICK e \in Envelopes :
              /\ env'[i] = {d \in env[i] : d.cursor # e.cursor \/ d.rec # e.rec} \cup {e}
              /\ making'[i] = e
              /\ e.cursor = produced[i] + 1
              /\ \A d \in Known(i) : d.rec = e.rec => d.rev < e.rev
              /\ Known(i)' \subseteq Known(i) \cup {e}
              /\ produced' = produced
  BY SavedParts
<1>2. produced[i] \in Nat /\ e.cursor \in Nat /\ e.rev \in Nat /\ e.rec \in Records
  BY EnvelopeParts DEF TypeOK
<1>3. \A d \in Known(i) : d \in Envelopes /\ d.cursor \in Nat /\ d.rev \in Nat
  BY KnownParts, EnvelopeParts
<1>4. env[i] \subseteq Known(i)
  BY KnownParts
<1>5. PICK kept : kept = {d \in env[i] : d.cursor # e.cursor \/ d.rec # e.rec}
  OBVIOUS
<1>6. env'[i] = kept \cup {e} /\ kept \subseteq env[i]
  BY <1>1, <1>5
<1>7. \A d \in env[i] : 1 <= d.cursor /\ d.cursor <= produced[i] + 1
  BY DEF Versioned
<1>8. IsFiniteSet(env'[i])
  <2>1. IsFiniteSet(kept) BY <1>6, FS_Subset DEF Versioned
  <2>2. QED BY <1>6, <2>1, FS_AddElement
<1>9. ASSUME NEW r \in Records PROVE HasLatest(i, r)'
  <2>1. CASE r = e.rec
    <3>1. \A d \in env'[i] : d.cursor <= e.cursor
      BY <1>1, <1>2, <1>6, <1>7
    <3>2. QED BY <1>6, <2>1, <3>1 DEF HasLatest
  <2>2. CASE r # e.rec
    <3>1. {d \in env'[i] : d.rec = r} = {d \in env[i] : d.rec = r}
      BY <1>5, <1>6, <2>2
    <3>2. HasLatest(i, r)
      BY DEF Versioned
    <3>3. QED BY <3>1, <3>2 DEF HasLatest
  <2>3. QED BY <2>1, <2>2
<1>10. \A d \in env'[i] : 1 <= d.cursor /\ d.cursor <= produced'[i] + 1
  BY <1>1, <1>2, <1>6, <1>7
<1>11. ASSUME NEW d \in env'[i], NEW f \in env'[i], d.cursor = f.cursor, d.rec = f.rec
       PROVE  d = f
  <2>1. CASE d \in kept /\ f \in kept
    BY <1>6, <1>11, <2>1 DEF Versioned
  <2>2. CASE d = e \/ f = e
    BY <1>5, <1>6, <1>11, <2>2
  <2>3. QED BY <1>6, <2>1, <2>2
<1>12. ASSUME NEW d \in Known(i)'
       PROVE  \E f \in env'[i] : f.cursor = d.cursor /\ f.rec = d.rec /\ d.rev <= f.rev
  <2>1. CASE d = e
    BY <1>2, <1>6, <2>1
  <2>2. CASE d \in Known(i) /\ d.cursor = e.cursor /\ d.rec = e.rec
    <3>1. d.rev < e.rev BY <1>1, <2>2
    <3>2. QED BY <1>2, <1>3, <1>6, <2>2, <3>1
  <2>3. CASE d \in Known(i) /\ ~(d.cursor = e.cursor /\ d.rec = e.rec)
    <3>1. PICK f \in env[i] : f.cursor = d.cursor /\ f.rec = d.rec /\ d.rev <= f.rev
      BY <2>3 DEF Versioned
    <3>2. f \in kept BY <1>5, <2>3, <3>1
    <3>3. QED BY <1>6, <3>1, <3>2
  <2>4. QED BY <1>1, <2>1, <2>2, <2>3
<1>13. ASSUME NEW d \in Known(i)', NEW f \in Known(i)', d.rec = f.rec, d.cursor < f.cursor
       PROVE  d.rev < f.rev
  <2>1. CASE d \in Known(i) /\ f \in Known(i)
    BY <1>13, <2>1 DEF Versioned
  <2>2. CASE d \in Known(i) /\ f = e
    BY <1>1, <1>13, <2>2
  <2>3. CASE d = e
    <3>1. f # e BY <1>2, <1>13, <2>3
    <3>2. PICK h \in env[i] : h.cursor = f.cursor
      BY <1>1, <3>1 DEF Versioned
    <3>3. f.cursor <= produced[i] + 1 /\ f.cursor \in Nat
      BY <1>1, <1>3, <1>7, <3>1, <3>2
    <3>4. FALSE
      BY <1>1, <1>2, <1>13, <2>3, <3>3
    <3>5. QED BY <3>4
  <2>4. QED BY <1>1, <2>1, <2>2, <2>3
<1>14. making'[i] # Nothing => making'[i] \in env'[i] /\ making'[i].cursor = produced'[i] + 1
  BY <1>1
<1>15. QED BY <1>8, <1>9, <1>10, <1>11, <1>12, <1>13, <1>14 DEF Versioned

\* The cursor moves up to the envelope made, and with a crash nothing is being made.
LEMMA CursorMoves ==
    ASSUME TypeOK, \A j \in Instances : Versioned(j), [SyncNext]_syncVars,
           NEW i \in Instances, \A k \in Pushes : By[k] = i => ~EnvelopeSaved(k)
    PROVE  \/ produced'[i] = produced[i] /\ making'[i] = making[i]
           \/ produced'[i] = produced[i] + 1 /\ making'[i] = Nothing
           \/ /\ produced'[i] = produced[i] /\ making'[i] = Nothing
              /\ i \notin torn' => i \notin torn /\ making[i] = Nothing
<1> USE DEF source, mirror, bounds
<1>1. ASSUME NEW k \in Pushes, EnvelopeSaved(k)
      PROVE  produced'[i] = produced[i] /\ making'[i] = making[i]
  <2>1. By[k] # i /\ making'[i] = making[i]
    BY <1>1 DEF EnvelopeSaved, TypeOK
  <2>2. QED BY <1>1, <2>1 DEF EnvelopeSaved
<1>2. ASSUME NEW k \in Pushes, CursorSaved(k)
      PROVE  \/ produced'[i] = produced[i] /\ making'[i] = making[i]
             \/ produced'[i] = produced[i] + 1 /\ making'[i] = Nothing
  <2>1. CASE By[k] = i
    <3>1. making[i] # Nothing /\ produced'[i] = making[i].cursor /\ making'[i] = Nothing
      BY <1>2, <2>1 DEF CursorSaved, TypeOK
    <3>2. making[i].cursor = produced[i] + 1
      BY <3>1 DEF Versioned
    <3>3. QED BY <3>1, <3>2
  <2>2. CASE By[k] # i
    BY <1>2, <2>2 DEF CursorSaved, TypeOK
  <2>3. QED BY <2>1, <2>2
<1>3. ASSUME NEW j \in Instances, Crash(j)
      PROVE  \/ produced'[i] = produced[i] /\ making'[i] = making[i]
             \/ /\ produced'[i] = produced[i] /\ making'[i] = Nothing
                /\ i \notin torn' => i \notin torn /\ making[i] = Nothing
  <2>1. produced' = produced /\ making' = [making EXCEPT ![j] = Nothing]
        /\ torn' = IF making[j] # Nothing THEN torn \cup {j} ELSE torn
    BY <1>3 DEF Crash
  <2>2. CASE i = j BY <2>1, <2>2 DEF TypeOK
  <2>3. CASE i # j BY <2>1, <2>3 DEF TypeOK
  <2>4. QED BY <2>2, <2>3
<1>4. CASE \/ UNCHANGED syncVars
           \/ \E j \in Instances : ConfigureSync(j) \/ \E r \in Records, p \in Payloads : Change(j, r, p)
           \/ \E k \in Pushes : \/ PushBegins(k) \/ Sent(k) \/ MirrorAppends(k) \/ PushSettled(k)
                                \/ PushFails(k) \/ LateIsLost(k)
           \/ \E k \in Pulls : PullBegins(k) \/ MirrorReads(k) \/ PullStored(k) \/ PullFails(k)
  BY <1>4 DEF syncVars, ConfigureSync, Change, PushBegins, Sent, MirrorAppends, PushSettled, PushFails,
              LateIsLost, PullBegins, MirrorReads, PullStored, PullFails
<1>5. QED BY <1>1, <1>2, <1>3, <1>4 DEF SyncNext

\* Every step keeps the versions.
LEMMA VersionedStep ==
    ASSUME TypeOK, TypeOK', \A j \in Instances : Versioned(j), [SyncNext]_syncVars, NEW i \in Instances
    PROVE  Versioned(i)'
<1>1. ASSUME NEW k \in Pushes, By[k] = i, EnvelopeSaved(k) PROVE Versioned(i)'
  BY <1>1, VersionedGrows
<1>2. CASE \A k \in Pushes : By[k] = i => ~EnvelopeSaved(k)
  <2>1. Known(i)' \subseteq Known(i) /\ env'[i] = env[i]
    BY <1>2, KnownStays
  <2>2. \/ produced'[i] = produced[i] /\ (making'[i] = making[i] \/ making'[i] = Nothing)
        \/ produced'[i] = produced[i] + 1 /\ making'[i] = Nothing
    BY <1>2, CursorMoves
  <2>3. QED BY <2>1, <2>2, VersionedStays
<1>3. QED BY <1>1, <1>2
-----------------------------------------------------------------------------
(* The mirror and its copies *)

\* An accepted request leaves every envelope of its batch in the chain.
LEMMA AcceptedStays ==
    ASSUME TypeOK, TypeOK', NEW k \in Pushes, MirrorAppends(k), NEW i \in Instances, By[k] = i,
           Intact(i), push'[k].at = "accepted"
    PROVE  Range(push'[k].batch) \subseteq Range(chain'[i])
<1>1. /\ push'[k].batch = push[k].batch
      /\ \A n \in 1..Len(push[k].batch) :
            \/ \E m \in 1..Len(chain[i]) : chain[i][m].cursor = push[k].batch[n].cursor
            \/ \E m \in 1..Len(chain'[i]) : chain'[i][m] = push[k].batch[n]
  BY MirrorGrows
<1>2. /\ Len(chain[i]) \in Nat /\ Len(chain[i]) <= Len(chain'[i])
      /\ \A m \in 1..Len(chain[i]) : chain'[i][m] = chain[i][m]
  BY MirrorGrows
<1>3. push[k].batch \in Seq(Envelopes) /\ chain'[i] \in Seq(Envelopes)
  BY DEF TypeOK
<1>4. Len(chain'[i]) \in Nat /\ \A m \in 1..Len(chain'[i]) : chain'[i][m] \in Range(chain'[i])
  BY <1>3 DEF Range
<1>5. ASSUME NEW n \in 1..Len(push[k].batch) PROVE push[k].batch[n] \in Range(chain'[i])
  <2>1. CASE \E m \in 1..Len(chain'[i]) : chain'[i][m] = push[k].batch[n]
    BY <1>4, <2>1
  <2>2. ASSUME NEW m \in 1..Len(chain[i]), chain[i][m].cursor = push[k].batch[n].cursor
        PROVE  push[k].batch[n] \in Range(chain'[i])
    <3>1. push[k].batch[n] \in Known(i)
      <4>1. push[k].batch[n] \in Range(push[k].batch) BY <1>3 DEF Range
      <4>2. QED BY <4>1, KnownParts
    <3>2. chain[i][m] \in Known(i) BY KnownParts
    <3>3. chain[i][m] = push[k].batch[n]
      BY <2>2, <3>1, <3>2 DEF Intact
    <3>4. m \in 1..Len(chain'[i]) /\ chain'[i][m] = chain[i][m]
      BY <1>2, <1>4
    <3>5. QED BY <1>4, <3>3, <3>4
  <2>3. QED BY <1>1, <2>1, <2>2
<1>6. QED BY <1>1, <1>3, <1>5 DEF Range

\* Only requests change the mirror, and they only put envelopes behind the others.
LEMMA ChainGrows ==
    ASSUME TypeOK, [SyncNext]_syncVars, NEW i \in Instances
    PROVE  /\ Len(chain[i]) \in Nat /\ Len(chain[i]) <= Len(chain'[i])
           /\ \A m \in 1..Len(chain[i]) : chain'[i][m] = chain[i][m]
           /\ \/ chain'[i] = chain[i] /\ shown'[i] = shown[i]
              \/ \E k \in Pushes : By[k] = i /\ MirrorAppends(k)
<1> USE DEF source, mirror, bounds
<1>1. Len(chain[i]) \in Nat
  BY DEF TypeOK
<1>2. ASSUME NEW k \in Pushes, MirrorAppends(k)
      PROVE  /\ Len(chain[i]) <= Len(chain'[i])
             /\ \A m \in 1..Len(chain[i]) : chain'[i][m] = chain[i][m]
             /\ (chain'[i] = chain[i] /\ shown'[i] = shown[i]) \/ By[k] = i
  <2>1. PICK j \in Instances : j = By[k]
    BY SyncAssumption
  <2>2. CASE i = j
    BY <1>2, <2>1, <2>2, MirrorGrows
  <2>3. CASE i # j
    <3>1. chain'[i] = chain[i] /\ shown'[i] = shown[i]
      BY <1>2, <2>1, <2>3, MirrorGrows
    <3>2. QED BY <1>1, <3>1
  <2>4. QED BY <2>2, <2>3
<1>3. CASE ~ \E k \in Pushes : MirrorAppends(k)
  <2>1. chain' = chain /\ shown' = shown
    BY <1>3 DEF SyncNext, syncVars, ConfigureSync, Change, Crash, PushBegins, EnvelopeSaved, CursorSaved,
                Sent, PushSettled, PushFails, LateIsLost, PullBegins, MirrorReads, PullStored, PullFails
  <2>2. QED BY <1>1, <2>1
<1>4. QED BY <1>1, <1>2, <1>3

\* A request accepted stays accepted, or ends.
LEMMA AcceptedKept ==
    ASSUME TypeOK, [SyncNext]_syncVars, NEW k \in Pushes, push'[k].at = "accepted"
    PROVE  push'[k] = push[k] \/ MirrorAppends(k)
<1> USE DEF source, mirror, bounds
<1>1. ASSUME NEW q \in Pushes, MirrorAppends(q), q # k PROVE push'[k] = push[k]
  <2>1. By[q] \in Instances BY SyncAssumption
  <2>2. QED BY <1>1, <2>1, MirrorGrows
<1>2. ASSUME NEW q \in Pushes, Sent(q) PROVE push'[k] = push[k]
  <2>1. PICK s \in Batches(By[q]) :
           push' = [push EXCEPT ![q] = IF s = <<>> \/ Len(s) > MaxBatch THEN NoPush
                                       ELSE [at |-> "sent", batch |-> s]]
    BY <1>2 DEF Sent
  <2>2. CASE q = k
    <3>1. push'[k].at \in {"idle", "sent"}
      BY <2>1, <2>2 DEF NoPush, TypeOK
    <3>2. QED BY <3>1
  <2>3. CASE q # k BY <2>1, <2>3 DEF TypeOK
  <2>4. QED BY <2>2, <2>3
<1>3. CASE \/ \E q \in Pushes : PushBegins(q) \/ PushSettled(q) \/ PushFails(q) \/ LateIsLost(q)
           \/ \E j \in Instances : Crash(j)
  BY <1>3, PushMoves
<1>4. CASE \/ UNCHANGED syncVars
           \/ \E j \in Instances : ConfigureSync(j) \/ \E r \in Records, p \in Payloads : Change(j, r, p)
           \/ \E q \in Pushes : EnvelopeSaved(q) \/ CursorSaved(q)
           \/ \E q \in Pulls : PullBegins(q) \/ MirrorReads(q) \/ PullStored(q) \/ PullFails(q)
  BY <1>4 DEF syncVars, ConfigureSync, Change, EnvelopeSaved, CursorSaved,
              PullBegins, MirrorReads, PullStored, PullFails
<1>5. QED BY <1>1, <1>2, <1>3, <1>4 DEF SyncNext

\* What is acknowledged is in the chain.
LEMMA AckedStays ==
    ASSUME TypeOK, TypeOK', [SyncNext]_syncVars, NEW i \in Instances, Intact(i), Mirrored(i)
    PROVE  acked'[i] <= Len(chain'[i])
<1> USE DEF source, mirror, bounds
<1>1. /\ Len(chain[i]) \in Nat /\ Len(chain[i]) <= Len(chain'[i])
      /\ chain'[i] \in Seq(Envelopes)
  BY ChainGrows DEF TypeOK
<1>2. acked[i] \in Nat /\ acked[i] <= Len(chain[i]) /\ Len(chain'[i]) \in Nat
  BY <1>1 DEF TypeOK, Intact
<1>3. ASSUME NEW k \in Pushes, PushSettled(k), By[k] = i
      PROVE  acked'[i] <= Len(chain[i])
  <2>1. PICK cursor \in 0..produced[By[k]] :
          /\ IF push[k].at = "accepted" THEN AckedBy(By[k], push[k].batch, cursor)
                                        ELSE cursor = acked[By[k]]
          /\ acked' = [acked EXCEPT ![By[k]] = cursor]
    BY <1>3 DEF PushSettled
  <2>2. acked'[i] = cursor
    BY <1>3, <2>1 DEF TypeOK
  <2>3. CASE push[k].at = "accepted"
    <3>1. PICK n \in 0..Len(push[k].batch) :
             cursor = IF n + 1 = 1 THEN acked[i] ELSE push[k].batch[n + 1 - 1].cursor
      BY <1>3, <2>1, <2>3 DEF AckedBy
    <3>2. CASE n = 0
      BY <1>2, <2>2, <3>1, <3>2
    <3>3. CASE n # 0
      <4>1. push[k].batch \in Seq(Envelopes)
        BY DEF TypeOK
      <4>2. n \in 1..Len(push[k].batch) /\ cursor = push[k].batch[n].cursor
        BY <3>1, <3>3, <4>1
      <4>3. push[k].batch[n] \in Range(push[k].batch)
        BY <4>1, <4>2 DEF Range
      <4>4. push[k].batch[n] \in Range(chain[i])
        BY <1>3, <2>3, <4>3 DEF Intact
      <4>5. chain[i] \in Seq(Envelopes)
        BY DEF TypeOK
      <4>6. PICK m \in 1..Len(chain[i]) : chain[i][m] = push[k].batch[n]
        <5>1. DOMAIN chain[i] = 1..Len(chain[i]) BY <4>5
        <5>2. QED BY <4>4, <5>1 DEF Range
      <4>7. cursor = m
        BY <4>2, <4>6 DEF Mirrored
      <4>8. QED BY <1>1, <2>2, <4>7
    <3>4. QED BY <3>2, <3>3
  <2>4. CASE push[k].at # "accepted"
    BY <1>2, <1>3, <2>1, <2>2, <2>4
  <2>5. QED BY <2>3, <2>4
<1>4. ASSUME NEW k \in Pushes, PushSettled(k), By[k] # i
      PROVE  acked'[i] = acked[i]
  BY <1>4 DEF PushSettled, TypeOK
<1>5. ASSUME ~ \E k \in Pushes : PushSettled(k) PROVE acked' = acked
  BY <1>5 DEF SyncNext, syncVars, ConfigureSync, Change, Crash, PushBegins, EnvelopeSaved, CursorSaved, Sent,
              MirrorAppends, PushFails, LateIsLost, PullBegins, MirrorReads, PullStored, PullFails
<1>6. CASE acked'[i] <= Len(chain[i])
  <2>1. acked'[i] \in Nat BY DEF TypeOK
  <2>2. QED BY <1>1, <1>2, <1>6, <2>1
<1>7. CASE acked'[i] = acked[i]
  BY <1>1, <1>2, <1>7
<1>8. acked'[i] <= Len(chain[i]) \/ acked'[i] = acked[i]
  BY <1>3, <1>4, <1>5
<1>9. QED BY <1>6, <1>7, <1>8
\* An instance stays torn.
LEMMA TornStays ==
    ASSUME [SyncNext]_syncVars
    PROVE  torn \subseteq torn'
<1>1. ASSUME NEW i \in Instances, Crash(i) PROVE torn \subseteq torn'
  <2>1. torn' = IF making[i] # Nothing THEN torn \cup {i} ELSE torn
    BY <1>1 DEF Crash
  <2>2. QED BY <2>1
<1>2. ASSUME ~ \E i \in Instances : Crash(i) PROVE torn' = torn
  BY <1>2 DEF SyncNext, syncVars, bounds, ConfigureSync, Change, PushBegins, EnvelopeSaved, CursorSaved, Sent,
              MirrorAppends, PushSettled, PushFails, LateIsLost, PullBegins, MirrorReads, PullStored, PullFails
<1>3. QED BY <1>1, <1>2

\* Every step of an instance that is not torn leaves it with one envelope for a cursor.
LEMMA IntactStep ==
    ASSUME TypeOK, TypeOK', \A j \in Instances : Versioned(j), [SyncNext]_syncVars, NEW i \in Instances,
           i \notin torn', Intact(i), Mirrored(i)
    PROVE  Intact(i)'
<1>1. acked'[i] <= Len(chain'[i])
  BY AckedStays
<1>2. ASSUME NEW k \in Pushes, By[k] = i, push'[k].at = "accepted"
      PROVE  Range(push'[k].batch) \subseteq Range(chain'[i])
  <2>1. CASE MirrorAppends(k)
    BY <1>2, <2>1, AcceptedStays
  <2>2. CASE push'[k] = push[k]
    <3>1. Range(push[k].batch) \subseteq Range(chain[i])
      BY <1>2, <2>2 DEF Intact
    <3>2. chain[i] \in Seq(Envelopes) /\ chain'[i] \in Seq(Envelopes)
      BY DEF TypeOK
    <3>3. /\ Len(chain[i]) <= Len(chain'[i])
          /\ \A m \in 1..Len(chain[i]) : chain'[i][m] = chain[i][m]
      BY ChainGrows
    <3>4. Range(chain[i]) \subseteq Range(chain'[i])
      BY <3>2, <3>3 DEF Range
    <3>5. QED BY <2>2, <3>1, <3>4
  <2>3. QED BY <1>2, <2>1, <2>2, AcceptedKept
<1>3. ASSUME NEW k \in Pushes, By[k] = i, EnvelopeSaved(k)
      PROVE  Intact(i)'
  <2>1. PICK e \in Envelopes :
              /\ env'[i] = {d \in env[i] : d.cursor # e.cursor \/ d.rec # e.rec} \cup {e}
              /\ making[i] = Nothing /\ making'[i] = e
              /\ e.cursor = produced[i] + 1
              /\ Known(i)' \subseteq Known(i) \cup {e}
    BY <1>3, SavedParts
  <2>2. \A d \in env[i] : d.cursor <= produced[i]
    BY <2>1 DEF Intact
  <2>3. produced[i] \in Nat /\ \A d \in env[i] : d.cursor \in Nat
    BY EnvelopeParts DEF TypeOK
  <2>4. \A d \in env[i] : d.cursor # e.cursor
    BY <2>1, <2>2, <2>3
  <2>5. env'[i] = env[i] \cup {e}
    BY <2>1, <2>4
  <2>6. making'[i] # Nothing
    BY <2>1, EnvelopeParts
  <2>7. \A d, f \in env'[i] : d.cursor = f.cursor => d = f
    BY <2>4, <2>5 DEF Intact
  <2>8. Known(i)' \subseteq env'[i]
    BY <2>1, <2>5 DEF Intact
  <2>9. QED BY <1>1, <1>2, <2>6, <2>7, <2>8 DEF Intact
<1>4. CASE \A k \in Pushes : By[k] = i => ~EnvelopeSaved(k)
  <2>1. Known(i)' \subseteq Known(i) /\ env'[i] = env[i]
    BY <1>4, KnownStays
  <2>2. \/ produced'[i] = produced[i] /\ making'[i] = making[i]
        \/ produced'[i] = produced[i] + 1 /\ making'[i] = Nothing
        \/ produced'[i] = produced[i] /\ making'[i] = Nothing /\ making[i] = Nothing
    BY <1>4, CursorMoves
  <2>3. making'[i] = Nothing => \A e \in env'[i] : e.cursor <= produced'[i]
    <3>1. CASE produced'[i] = produced[i] + 1
      BY <2>1, <3>1 DEF Versioned
    <3>2. CASE produced'[i] = produced[i] /\ (making'[i] = Nothing => making[i] = Nothing)
      BY <2>1, <3>2 DEF Intact
    <3>3. QED BY <2>2, <3>1, <3>2
  <2>4. \A d, e \in env'[i] : d.cursor = e.cursor => d = e
    BY <2>1 DEF Intact
  <2>5. Known(i)' \subseteq env'[i]
    BY <2>1 DEF Intact
  <2>6. QED BY <1>1, <1>2, <2>3, <2>4, <2>5 DEF Intact
<1>5. QED BY <1>3, <1>4

\* The mirror shows the last envelope of each record, which is the one of the
\* highest revision.
LEMMA MirroredStep ==
    ASSUME TypeOK, TypeOK', \A j \in Instances : Versioned(j), [SyncNext]_syncVars, NEW i \in Instances,
           Mirrored(i)
    PROVE  Mirrored(i)'
<1>1. CASE chain'[i] = chain[i] /\ shown'[i] = shown[i]
  BY <1>1 DEF Mirrored, Places, LastPlace
<1>2. ASSUME NEW k \in Pushes, By[k] = i, MirrorAppends(k) PROVE Mirrored(i)'
  <2>1. PICK n, o : n = Len(chain'[i]) /\ o = Len(chain[i])
    OBVIOUS
  <2>2. /\ o \in Nat /\ n \in Nat /\ o <= n
        /\ \A m \in 1..o : chain'[i][m] = chain[i][m]
        /\ \A m \in (o + 1)..n : chain'[i][m] \in Range(push[k].batch) /\ chain'[i][m].cursor = m
    <3>1. chain'[i] \in Seq(Envelopes) BY DEF TypeOK
    <3>2. n \in Nat BY <2>1, <3>1
    <3>3. QED BY <1>2, <2>1, <3>2, MirrorGrows
  <2>3. \A m \in 1..n : m \in 1..o \/ m \in (o + 1)..n
    BY <2>2
  <2>4. \A m \in 1..o : chain[i][m].cursor = m
    BY <2>1 DEF Mirrored
  <2>5. \A m \in 1..n : chain'[i][m].cursor = m
    BY <2>2, <2>3, <2>4
  <2>6. \A m \in 1..n : chain'[i][m] \in Known(i) /\ chain'[i][m].rev \in Nat /\ chain'[i][m] # Nothing
    <3>1. \A m \in 1..o : chain[i][m] \in Known(i)
      BY <2>1, KnownParts
    <3>2. Range(push[k].batch) \subseteq Known(i) /\ Known(i) \subseteq Envelopes
      BY <1>2, KnownParts
    <3>3. \A m \in 1..n : chain'[i][m] \in Known(i)
      BY <2>2, <2>3, <3>1, <3>2
    <3>4. QED BY <3>2, <3>3, EnvelopeParts
  <2>7. \A l, m \in 1..n : l < m /\ chain'[i][l].rec = chain'[i][m].rec => chain'[i][l].rev < chain'[i][m].rev
    BY <2>5, <2>6 DEF Versioned
  <2>8. ASSUME NEW r \in Records
        PROVE  IF {m \in 1..n : chain'[i][m].rec = r} = {} THEN shown'[i][r] = Nothing
               ELSE \E m \in 1..n : /\ chain'[i][m].rec = r /\ shown'[i][r] = chain'[i][m]
                                    /\ \A l \in 1..n : chain'[i][l].rec = r => l <= m
    <3>1. \/ /\ shown'[i][r] = Nothing /\ shown[i][r] = Nothing
             /\ \A m \in (o + 1)..n : chain'[i][m].rec # r
          \/ /\ \/ shown'[i][r] = shown[i][r] /\ shown[i][r] # Nothing
                \/ \E m \in (o + 1)..n : shown'[i][r] = chain'[i][m] /\ chain'[i][m].rec = r
             /\ shown[i][r] # Nothing => shown[i][r].rev <= shown'[i][r].rev
             /\ \A m \in (o + 1)..n : chain'[i][m].rec = r => chain'[i][m].rev <= shown'[i][r].rev
      <4>1. \/ /\ shown'[i][r] = Nothing /\ shown[i][r] = Nothing
               /\ \A m \in (Len(chain[i]) + 1)..Len(chain'[i]) : chain'[i][m].rec # r
            \/ /\ \/ shown'[i][r] = shown[i][r] /\ shown[i][r] # Nothing
                  \/ \E m \in (Len(chain[i]) + 1)..Len(chain'[i]) :
                        shown'[i][r] = chain'[i][m] /\ chain'[i][m].rec = r
               /\ shown[i][r] # Nothing => shown[i][r].rev <= shown'[i][r].rev
               /\ \A m \in (Len(chain[i]) + 1)..Len(chain'[i]) :
                     chain'[i][m].rec = r => chain'[i][m].rev <= shown'[i][r].rev
        BY <1>2, MirrorGrows
      <4>2. QED BY <2>1, <4>1
    <3>2. \/ shown[i][r] = Nothing /\ \A m \in 1..o : chain'[i][m].rec # r
          \/ \E m \in 1..o : /\ chain'[i][m].rec = r /\ shown[i][r] = chain'[i][m]
                             /\ \A l \in 1..o : chain'[i][l].rec = r => l <= m
      BY <2>1, <2>2 DEF Mirrored, Places, LastPlace
    <3>3. CASE /\ shown'[i][r] = Nothing /\ shown[i][r] = Nothing
               /\ \A m \in (o + 1)..n : chain'[i][m].rec # r
      <4>1. \A m \in 1..o : chain'[i][m].rec # r
        BY <2>2, <2>6, <3>2, <3>3
      <4>2. {m \in 1..n : chain'[i][m].rec = r} = {}
        BY <2>3, <3>3, <4>1
      <4>3. QED BY <3>3, <4>2
    <3>4. CASE /\ \/ shown'[i][r] = shown[i][r] /\ shown[i][r] # Nothing
                  \/ \E m \in (o + 1)..n : shown'[i][r] = chain'[i][m] /\ chain'[i][m].rec = r
               /\ shown[i][r] # Nothing => shown[i][r].rev <= shown'[i][r].rev
               /\ \A m \in (o + 1)..n : chain'[i][m].rec = r => chain'[i][m].rev <= shown'[i][r].rev
      <4>1. PICK m \in 1..n : chain'[i][m].rec = r /\ shown'[i][r] = chain'[i][m]
        BY <2>2, <3>2, <3>4
      <4>2. ASSUME NEW l \in 1..o, chain'[i][l].rec = r PROVE chain'[i][l].rev <= shown'[i][r].rev
        <5>1. PICK h \in 1..o : /\ chain'[i][h].rec = r /\ shown[i][r] = chain'[i][h]
                                /\ l <= h
          BY <3>2, <4>2
        <5>2. l \in 1..n /\ h \in 1..n
          BY <2>2
        <5>3. chain'[i][h].rev <= chain'[i][m].rev
          BY <2>6, <3>4, <4>1, <5>1, <5>2
        <5>4. l = h \/ chain'[i][l].rev < chain'[i][h].rev
          BY <2>7, <4>2, <5>1, <5>2
        <5>5. /\ chain'[i][l].rev \in Nat /\ chain'[i][h].rev \in Nat /\ chain'[i][m].rev \in Nat
          BY <2>6, <5>2
        <5>6. QED BY <4>1, <5>3, <5>4, <5>5
      <4>3. ASSUME NEW l \in 1..n, chain'[i][l].rec = r PROVE l <= m
        <5>1. chain'[i][l].rev <= chain'[i][m].rev
          BY <2>3, <3>4, <4>1, <4>2, <4>3
        <5>2. m < l => chain'[i][m].rev < chain'[i][l].rev
          BY <2>7, <4>1, <4>3
        <5>3. chain'[i][l].rev \in Nat /\ chain'[i][m].rev \in Nat
          BY <2>6
        <5>4. QED BY <2>2, <5>1, <5>2, <5>3
      <4>4. QED BY <4>1, <4>3
    <3>5. QED BY <3>1, <3>3, <3>4
  <2>9. QED BY <2>1, <2>5, <2>8 DEF Mirrored, Places, LastPlace
<1>3. QED BY <1>1, <1>2, ChainGrows
\* What was read at one cursor stays what the chain says there.
LEMMA MomentStays ==
    ASSUME TypeOK, NEW i \in Instances, NEW v \in Views, OneMoment(v, i),
           Len(chain[i]) <= Len(chain'[i]), \A m \in 1..Len(chain[i]) : chain'[i][m] = chain[i][m],
           Len(chain'[i]) \in Nat
    PROVE  OneMoment(v, i)'
<1>1. v.cursor \in Nat /\ v.cursor <= Len(chain[i]) /\ Len(chain[i]) \in Nat
  BY DEF Views, OneMoment, TypeOK
<1>2. v.cursor <= Len(chain'[i]) /\ \A m \in 1..v.cursor : m \in 1..Len(chain[i])
  BY <1>1
<1>3. \A m \in 1..v.cursor : chain'[i][m] = chain[i][m]
  BY <1>2
<1>4. \A r \in Records : Places(i, v.cursor, r)' = Places(i, v.cursor, r)
  BY <1>3 DEF Places
<1>5. \A r \in Records, m \in 1..v.cursor : LastPlace(i, v.cursor, r, m)' <=> LastPlace(i, v.cursor, r, m)
  BY <1>4 DEF LastPlace
<1>6. ASSUME NEW r \in Records
      PROVE  IF Places(i, v.cursor, r)' = {} THEN v.payload[r] = Nothing
             ELSE \E m \in 1..v.cursor : /\ LastPlace(i, v.cursor, r, m)'
                                         /\ v.payload[r] = chain'[i][m].payload
  <2>1. IF Places(i, v.cursor, r) = {} THEN v.payload[r] = Nothing
        ELSE \E m \in 1..v.cursor : /\ LastPlace(i, v.cursor, r, m)
                                    /\ v.payload[r] = chain[i][m].payload
    BY DEF OneMoment
  <2>2. QED BY <1>3, <1>4, <1>5, <2>1
<1>7. QED BY <1>2, <1>6 DEF OneMoment

\* Nothing has been read.
LEMMA EmptyMoment ==
    ASSUME TypeOK, NEW i \in Instances
    PROVE  OneMoment(Empty, i) /\ Empty \in Views
<1>1. Empty.cursor = 0 /\ \A r \in Records : Empty.payload[r] = Nothing
  BY DEF Empty
<1>2. \A r \in Records : Places(i, 0, r) = {}
  BY DEF Places
<1>3. Len(chain[i]) \in Nat
  BY DEF TypeOK
<1>4. QED BY <1>1, <1>2, <1>3 DEF OneMoment, Empty, Views

\* What the mirror answers is what it has accepted up to now.
LEMMA ReadMoment ==
    ASSUME TypeOK, NEW i \in Instances, Mirrored(i)
    PROVE  OneMoment(MirrorView(i, 0), i) /\ MirrorView(i, 0) \in Views
<1>1. PICK v : v = MirrorView(i, 0)
  OBVIOUS
<1>2. Len(chain[i]) \in Nat /\ chain[i] \in Seq(Envelopes)
  BY DEF TypeOK
<1>3. v.cursor = Len(chain[i])
  BY <1>1 DEF MirrorView
<1>4. \A r \in Records : v.payload[r] = IF shown[i][r] = Nothing THEN Nothing
                                        ELSE IF shown[i][r].cursor > 0 THEN shown[i][r].payload ELSE Nothing
  BY <1>1 DEF MirrorView
<1>5. ASSUME NEW r \in Records
      PROVE  IF Places(i, v.cursor, r) = {} THEN v.payload[r] = Nothing
             ELSE \E m \in 1..v.cursor : /\ LastPlace(i, v.cursor, r, m)
                                         /\ v.payload[r] = chain[i][m].payload
  <2>1. CASE Places(i, v.cursor, r) = {}
    BY <1>3, <1>4, <2>1 DEF Mirrored
  <2>2. CASE Places(i, v.cursor, r) # {}
    <3>1. PICK m \in 1..Len(chain[i]) : /\ LastPlace(i, Len(chain[i]), r, m)
                                        /\ shown[i][r] = chain[i][m]
      BY <1>3, <2>2 DEF Mirrored
    <3>2. chain[i][m] \in Envelopes
      BY <1>2
    <3>3. shown[i][r] # Nothing
      BY <3>1, <3>2, EnvelopeParts
    <3>4. shown[i][r].cursor = m /\ m > 0
      BY <1>2, <3>1 DEF Mirrored
    <3>5. v.payload[r] = chain[i][m].payload
      BY <1>4, <3>1, <3>3, <3>4
    <3>6. QED BY <1>3, <2>2, <3>1, <3>5
  <2>3. QED BY <2>1, <2>2
<1>6. OneMoment(v, i)
  BY <1>2, <1>3, <1>5 DEF OneMoment
<1>7. v \in Views
  <2>1. ASSUME NEW r \in Records, shown[i][r] # Nothing PROVE shown[i][r].payload \in Payloads
    <3>1. shown[i][r] \in Envelopes BY <2>1 DEF TypeOK
    <3>2. QED BY <3>1, EnvelopeParts
  <2>2. [r \in Records |-> IF shown[i][r] = Nothing THEN Nothing
                           ELSE IF shown[i][r].cursor > 0 THEN shown[i][r].payload ELSE Nothing]
          \in [Records -> Payloads \cup {Nothing}]
    BY <2>1
  <2>3. QED BY <1>1, <1>2, <2>2 DEF MirrorView, Views
<1>8. QED BY <1>1, <1>6, <1>7

\* What every pull carries and every copy keeps is what the step found there, what a
\* pull brought, or what the mirror shows.
LEMMA ViewsMove ==
    ASSUME TypeOK, [SyncNext]_syncVars
    PROVE  /\ \A k \in Pulls, i \in Instances :
                 \/ pull'[k].view[i] = pull[k].view[i] \/ pull'[k].view[i] = Empty
                 \/ pull'[k].view[i] = MirrorView(i, 0)
           /\ \A j, i \in Instances :
                 copy'[j][i] = copy[j][i] \/ \E k \in Pulls : copy'[j][i] = pull[k].view[i]
<1> USE DEF source, mirror, bounds
<1>1. \A i \in Instances : NoPull.view[i] = Empty
  BY DEF NoPull
<1>2. \A k \in Pulls : pull[k] \in [at : {"idle", "asked", "answered"}, view : [Instances -> Views]]
  BY DEF TypeOK
<1>3. ASSUME NEW k \in Pulls, PullBegins(k)
      PROVE  copy' = copy /\ \A q \in Pulls : pull'[q].view = pull[q].view
  <2>1. pull' = [pull EXCEPT ![k] = [pull[k] EXCEPT !.at = "asked"]]
    BY <1>3 DEF PullBegins
  <2>2. [pull[k] EXCEPT !.at = "asked"].view = pull[k].view
    BY <1>2
  <2>3. copy' = copy BY <1>3 DEF PullBegins
  <2>4. QED BY <2>1, <2>2, <2>3 DEF TypeOK
<1>4. ASSUME NEW k \in Pulls, MirrorReads(k)
      PROVE  /\ copy' = copy /\ \A q \in Pulls \ {k} : pull'[q] = pull[q]
             /\ \A i \in Instances : pull'[k].view[i] = MirrorView(i, 0)
  <2>1. pull' = [pull EXCEPT ![k] = [at |-> "answered", view |-> [i \in Instances |-> MirrorView(i, 0)]]]
    BY <1>4 DEF MirrorReads, SinceCursor
  <2>2. pull'[k] = [at |-> "answered", view |-> [i \in Instances |-> MirrorView(i, 0)]]
        /\ \A q \in Pulls \ {k} : pull'[q] = pull[q]
    BY <2>1 DEF TypeOK
  <2>3. copy' = copy BY <1>4 DEF MirrorReads
  <2>4. QED BY <2>2, <2>3
<1>5. ASSUME NEW k \in Pulls, PullStored(k)
      PROVE  /\ \A q \in Pulls : pull'[q] = pull[q] \/ pull'[q] = NoPull
             /\ \A j, i \in Instances : copy'[j][i] = copy[j][i] \/ copy'[j][i] = pull[k].view[i]
  <2>1. copy' = [copy EXCEPT ![By[k]] =
                   [i \in Instances |-> IF i = By[k] \/ pull[k].view[i].cursor = 0 THEN copy[By[k]][i]
                                        ELSE pull[k].view[i]]]
        /\ pull' = [pull EXCEPT ![k] = NoPull]
    BY <1>5 DEF PullStored
  <2>2. \A q \in Pulls : pull'[q] = pull[q] \/ pull'[q] = NoPull
    BY <2>1 DEF TypeOK
  <2>3. ASSUME NEW j \in Instances, NEW i \in Instances
        PROVE  copy'[j][i] = copy[j][i] \/ copy'[j][i] = pull[k].view[i]
    BY <2>1 DEF TypeOK
  <2>4. QED BY <2>2, <2>3
<1>6. ASSUME NEW k \in Pulls, PullFails(k)
      PROVE  copy' = copy /\ \A q \in Pulls : pull'[q] = pull[q] \/ pull'[q] = NoPull
  BY <1>6 DEF PullFails, TypeOK
<1>7. ASSUME NEW i \in Instances, Crash(i)
      PROVE  copy' = copy /\ \A q \in Pulls : pull'[q] = pull[q] \/ pull'[q] = NoPull
  <2>1. copy' = copy /\ pull' = [k \in Pulls |-> IF By[k] = i THEN NoPull ELSE pull[k]]
    BY <1>7 DEF Crash
  <2>2. QED BY <2>1
<1>8. CASE \/ UNCHANGED syncVars
           \/ \E j \in Instances : ConfigureSync(j) \/ \E r \in Records, p \in Payloads : Change(j, r, p)
           \/ \E k \in Pushes : \/ PushBegins(k) \/ EnvelopeSaved(k) \/ CursorSaved(k) \/ Sent(k)
                                \/ MirrorAppends(k) \/ PushSettled(k) \/ PushFails(k) \/ LateIsLost(k)
  <2>1. copy' = copy /\ pull' = pull
    BY <1>8 DEF syncVars, ConfigureSync, Change, PushBegins, EnvelopeSaved, CursorSaved, Sent, MirrorAppends,
                PushSettled, PushFails, LateIsLost
  <2>2. QED BY <2>1
<1>9. ASSUME NEW k \in Pulls, PullBegins(k) \/ MirrorReads(k) \/ PullStored(k) \/ PullFails(k)
      PROVE  /\ \A q \in Pulls, i \in Instances :
                   \/ pull'[q].view[i] = pull[q].view[i] \/ pull'[q].view[i] = Empty
                   \/ pull'[q].view[i] = MirrorView(i, 0)
             /\ \A j, i \in Instances :
                   copy'[j][i] = copy[j][i] \/ \E q \in Pulls : copy'[j][i] = pull[q].view[i]
  <2>1. CASE PullBegins(k) BY <1>3, <2>1
  <2>2. CASE MirrorReads(k) BY <1>4, <2>2
  <2>3. CASE PullStored(k) BY <1>1, <1>5, <2>3
  <2>4. CASE PullFails(k) BY <1>1, <1>6, <2>4
  <2>5. QED BY <1>9, <2>1, <2>2, <2>3, <2>4
<1>10. ASSUME NEW i \in Instances, Crash(i)
       PROVE  /\ \A q \in Pulls, j \in Instances :
                   pull'[q].view[j] = pull[q].view[j] \/ pull'[q].view[j] = Empty
              /\ copy' = copy
  BY <1>1, <1>7, <1>10
<1>11. QED BY <1>8, <1>9, <1>10 DEF SyncNext

-----------------------------------------------------------------------------
(* The invariant *)

\* At the start nothing has been made, sent, mirrored or copied.
LEMMA SyncStart == SyncInit => SyncInv
<1> SUFFICES ASSUME SyncInit PROVE SyncInv
  OBVIOUS
<1>1. TypeOK
  <2>1. NoPush \in [at : {"idle", "compiling", "sent", "late", "accepted", "rejected"}, batch : Seq(Envelopes)]
    BY DEF NoPush
  <2>2. Empty \in Views
    BY DEF Empty, Views
  <2>3. NoPull \in [at : {"idle", "asked", "answered"}, view : [Instances -> Views]]
    BY <2>2 DEF NoPull
  <2>4. push \in [Pushes -> [at : {"idle", "compiling", "sent", "late", "accepted", "rejected"},
                             batch : Seq(Envelopes)]]
        /\ pull \in [Pulls -> [at : {"idle", "asked", "answered"}, view : [Instances -> Views]]]
        /\ copy \in [Instances -> [Instances -> Views]]
    BY <2>1, <2>2, <2>3 DEF SyncInit
  <2>5. /\ data \in [Instances -> [Records -> Payloads]]
        /\ env \in [Instances -> SUBSET Envelopes]
        /\ {produced, acked} \subseteq [Instances -> Nat]
        /\ last \in [Instances -> Digests]
        /\ making \in [Instances -> Envelopes \cup {Nothing}]
        /\ chain \in [Instances -> Seq(Envelopes)]
        /\ shown \in [Instances -> [Records -> Envelopes \cup {Nothing}]]
    BY DEF SyncInit, Digests
  <2>6. QED BY <2>4, <2>5 DEF TypeOK
<1>2. ASSUME NEW i \in Instances PROVE Versioned(i) /\ Mirrored(i) /\ Intact(i)
  <2>1. env[i] = {} /\ chain[i] = <<>> /\ Len(chain[i]) = 0 /\ acked[i] = 0 /\ making[i] = Nothing
        /\ \A r \in Records : shown[i][r] = Nothing
    BY DEF SyncInit
  <2>2. \A k \in Pushes : push[k].batch = <<>> /\ push[k].at = "idle"
    BY DEF SyncInit, NoPush
  <2>3. Range(<<>>) = {}
    BY DEF Range
  <2>4. Known(i) = {}
    BY <2>1, <2>2, <2>3 DEF Known
  <2>5. IsFiniteSet(env[i])
    BY <2>1, FS_EmptySet
  <2>6. \A r \in Records : HasLatest(i, r)
    BY <2>1 DEF HasLatest
  <2>7. Versioned(i)
    BY <2>1, <2>4, <2>5, <2>6 DEF Versioned
  <2>8. Intact(i)
    BY <2>1, <2>2, <2>4 DEF Intact
  <2>9. \A r \in Records : Places(i, 0, r) = {}
    BY DEF Places
  <2>10. Mirrored(i)
    BY <2>1, <2>9 DEF Mirrored
  <2>11. QED BY <2>7, <2>8, <2>10
<1>3. \A k \in Pulls, i \in Instances : pull[k].view[i] = Empty
  BY DEF SyncInit, NoPull
<1>4. \A j, i \in Instances : copy[j][i] = Empty
  BY DEF SyncInit
<1>5. \A i \in Instances : OneMoment(Empty, i)
  BY <1>1, EmptyMoment
<1>6. QED BY <1>1, <1>2, <1>3, <1>4, <1>5 DEF SyncInv

\* Every step keeps the invariant.
LEMMA SyncStep == SyncInv /\ [SyncNext]_syncVars => SyncInv'
<1> SUFFICES ASSUME SyncInv, [SyncNext]_syncVars PROVE SyncInv'
  OBVIOUS
<1>1. TypeOK /\ \A i \in Instances : Versioned(i) /\ Mirrored(i) /\ (i \notin torn => Intact(i))
  BY DEF SyncInv
<1>2. TypeOK'
  BY <1>1, TypeStep
<1>3. ASSUME NEW i \in Instances PROVE Versioned(i)' /\ Mirrored(i)' /\ (i \notin torn' => Intact(i)')
  <2>1. Versioned(i)' BY <1>1, <1>2, VersionedStep
  <2>2. Mirrored(i)' BY <1>1, <1>2, MirroredStep
  <2>3. ASSUME i \notin torn' PROVE Intact(i)'
    <3>1. i \notin torn BY <2>3, TornStays
    <3>2. QED BY <1>1, <1>2, <2>3, <3>1, IntactStep
  <2>4. QED BY <2>1, <2>2, <2>3
<1>4. ASSUME NEW i \in Instances, NEW v \in Views, OneMoment(v, i) PROVE OneMoment(v, i)'
  <2>1. Len(chain'[i]) \in Nat BY <1>2 DEF TypeOK
  <2>2. /\ Len(chain[i]) <= Len(chain'[i])
        /\ \A m \in 1..Len(chain[i]) : chain'[i][m] = chain[i][m]
    BY <1>1, ChainGrows
  <2>3. QED BY <1>1, <1>4, <2>1, <2>2, MomentStays
<1>5. \A k \in Pulls, i \in Instances : pull[k].view[i] \in Views /\ OneMoment(pull[k].view[i], i)
  BY DEF SyncInv, TypeOK
<1>6. \A j, i \in Instances : copy[j][i] \in Views /\ OneMoment(copy[j][i], i)
  BY DEF SyncInv, TypeOK
<1>7. \A i \in Instances : /\ OneMoment(Empty, i) /\ Empty \in Views
                           /\ OneMoment(MirrorView(i, 0), i) /\ MirrorView(i, 0) \in Views
  BY <1>1, EmptyMoment, ReadMoment
<1>8. ASSUME NEW k \in Pulls, NEW i \in Instances PROVE OneMoment(pull[k].view[i], i)'
  <2>1. PICK v : v = pull'[k].view[i]
    OBVIOUS
  <2>2. v \in Views /\ OneMoment(v, i)
    BY <1>1, <1>5, <1>7, <2>1, ViewsMove
  <2>3. OneMoment(v, i)'
    BY <1>4, <2>2
  <2>4. QED BY <2>1, <2>3
<1>9. ASSUME NEW j \in Instances, NEW i \in Instances PROVE OneMoment(copy[j][i], i)'
  <2>1. PICK v : v = copy'[j][i]
    OBVIOUS
  <2>2. v \in Views /\ OneMoment(v, i)
    BY <1>1, <1>5, <1>6, <2>1, ViewsMove
  <2>3. OneMoment(v, i)'
    BY <1>4, <2>2
  <2>4. QED BY <2>1, <2>3
<1>10. QED BY <1>2, <1>3, <1>8, <1>9 DEF SyncInv

\* The inductive invariant of the sync: revisions grow with the cursors, the mirror
\* shows the last envelope of every record, a cursor stands for one envelope unless
\* the instance is torn, and whatever was read of a chain is the chain at one cursor.
THEOREM SyncInvariant == SyncSpec => []SyncInv
<1>1. SyncInit => SyncInv
  BY SyncStart
<1>2. SyncInv /\ [SyncNext]_syncVars => SyncInv'
  BY SyncStep
<1>3. QED BY <1>1, <1>2, PTL DEF SyncSpec

-----------------------------------------------------------------------------
(* What it means *)

\* An acknowledged envelope is in the chain: acknowledgements never pass the end of
\* it, every place up to there holds the envelope of its cursor, and there is only
\* one of that cursor.
LEMMA AcknowledgedParts ==
    ASSUME TypeOK, NEW i \in Instances, Versioned(i), Mirrored(i), Intact(i), NEW e \in env[i],
           e.cursor <= acked[i]
    PROVE  /\ e.cursor \in 1..Len(chain[i]) /\ chain[i][e.cursor] = e
           /\ e \in Range(chain[i])
<1>1. e \in Envelopes /\ e.cursor \in Nat /\ 1 <= e.cursor /\ acked[i] \in Nat /\ acked[i] <= Len(chain[i])
  BY EnvelopeParts DEF TypeOK, Versioned, Intact
<1>2. chain[i] \in Seq(Envelopes) /\ Len(chain[i]) \in Nat
  BY DEF TypeOK
<1>3. PICK m \in 1..Len(chain[i]) : m = e.cursor
  BY <1>1, <1>2
<1>4. chain[i][m].cursor = m
  BY DEF Mirrored
<1>5. chain[i][m] \in env[i]
  BY KnownParts DEF Intact
<1>6. chain[i][m] = e
  BY <1>3, <1>4, <1>5 DEF Intact
<1>7. chain[i][m] \in Range(chain[i])
  BY <1>2 DEF Range
<1>8. QED BY <1>3, <1>6, <1>7

\* What an instance will not send again is in the mirror.
THEOREM AcknowledgedIsMirroredHolds == SyncSpec => []AcknowledgedIsMirrored
<1>1. SyncInv => AcknowledgedIsMirrored
  BY AcknowledgedParts DEF SyncInv, AcknowledgedIsMirrored
<1>2. QED BY <1>1, SyncInvariant, PTL

\* With nothing changed and nothing pending the mirror shows the instance as it is.
THEOREM SettledIsShownHolds == SyncSpec => []SettledIsShown
<1>1. ASSUME SyncInv, NEW i \in Instances \ torn, Changed(i) = {}, Pending(i) = {}
      PROVE  MirrorView(i, 0).payload = data[i]
  <2>1. i \in Instances /\ TypeOK /\ Versioned(i) /\ Mirrored(i) /\ Intact(i)
    BY <1>1 DEF SyncInv
  <2>2. \A e \in env[i] : e.cursor <= acked[i]
    <3>1. \A e \in env[i] : e.cursor \in Nat /\ acked[i] \in Nat
      BY <2>1, EnvelopeParts DEF TypeOK
    <3>2. QED BY <1>1, <3>1 DEF Pending
  <2>3. ASSUME NEW r \in Records
        PROVE  /\ shown[i][r] # Nothing /\ shown[i][r].cursor > 0
               /\ shown[i][r].payload = data[i][r]
    <3>1. PICK e : e = LatestOf(i, r)
      OBVIOUS
    <3>2. e # Nothing /\ e.payload = data[i][r]
      BY <1>1, <3>1 DEF Changed
    <3>3. /\ e \in env[i] /\ e.rec = r
          /\ \A d \in env[i] : d.rec = r => d.cursor <= e.cursor
      BY <2>1, <3>1, <3>2, LatestParts
    <3>4. e.cursor \in 1..Len(chain[i]) /\ chain[i][e.cursor] = e
      BY <2>1, <2>2, <3>3, AcknowledgedParts
    <3>5. e.cursor \in Places(i, Len(chain[i]), r)
      BY <3>3, <3>4 DEF Places
    <3>6. PICK m \in 1..Len(chain[i]) : LastPlace(i, Len(chain[i]), r, m) /\ shown[i][r] = chain[i][m]
      BY <2>1, <3>5 DEF Mirrored
    <3>7. e.cursor <= m /\ chain[i][m].rec = r
      BY <3>5, <3>6 DEF LastPlace, Places
    <3>8. chain[i][m] \in env[i] /\ chain[i][m].cursor = m
      BY <2>1, KnownParts DEF Intact, Mirrored
    <3>9. m <= e.cursor
      BY <3>3, <3>7, <3>8
    <3>10. Len(chain[i]) \in Nat
      BY <2>1 DEF TypeOK
    <3>11. m = e.cursor
      BY <3>4, <3>7, <3>9, <3>10
    <3>12. shown[i][r] = e /\ e.cursor > 0
      BY <3>4, <3>6, <3>10, <3>11
    <3>13. QED BY <2>1, <3>2, <3>3, <3>12, KnownParts, EnvelopeParts
  <2>4. data[i] \in [Records -> Payloads]
    BY <2>1 DEF TypeOK
  <2>5. [r \in Records |-> IF shown[i][r] = Nothing THEN Nothing
                           ELSE IF shown[i][r].cursor > 0 THEN shown[i][r].payload ELSE Nothing]
          = [r \in Records |-> data[i][r]]
    BY <2>3
  <2>6. QED BY <2>4, <2>5 DEF MirrorView
<1>2. SyncInv => SettledIsShown
  BY <1>1 DEF SettledIsShown
<1>3. QED BY <1>2, SyncInvariant, PTL

\* A copy is the source's chain up to its cursor, never a mixture of moments.
THEOREM CopyIsOneMomentHolds == SyncSpec => []CopyIsOneMoment
<1>1. ASSUME SyncInv, NEW j \in Instances, NEW i \in Instances, NEW r \in Records, NEW n, n = copy[j][i].cursor,
             NEW of, of = {m \in 1..n : chain[i][m].rec = r}
      PROVE  copy[j][i].payload[r] =
                IF of = {} THEN Nothing
                ELSE chain[i][CHOOSE m \in of : \A l \in of : l <= m].payload
  <2>1. /\ of = Places(i, n, r)
        /\ IF of = {} THEN copy[j][i].payload[r] = Nothing
           ELSE \E m \in 1..n : /\ LastPlace(i, n, r, m)
                                /\ copy[j][i].payload[r] = chain[i][m].payload
    BY <1>1 DEF SyncInv, OneMoment, Places
  <2>2. CASE of = {}
    BY <2>1, <2>2
  <2>3. CASE of # {}
    <3>1. PICK m \in 1..n : LastPlace(i, n, r, m) /\ copy[j][i].payload[r] = chain[i][m].payload
      BY <2>1, <2>3
    <3>2. m \in of /\ \A l \in of : l <= m
      BY <2>1, <3>1 DEF LastPlace
    <3>3. PICK h : h = CHOOSE p \in of : \A l \in of : l <= p
      OBVIOUS
    <3>4. h \in of /\ \A l \in of : l <= h
      BY <3>2, <3>3
    <3>5. h <= m /\ m <= h /\ h \in Int /\ m \in Int
      BY <1>1, <3>2, <3>4
    <3>6. h = m
      BY <3>5
    <3>7. QED BY <2>3, <3>1, <3>3, <3>6
  <2>4. QED BY <2>2, <2>3
<1>2. ASSUME SyncInv, NEW j \in Instances, NEW i \in Instances \ {j}, NEW r \in Records
      PROVE  LET n == copy[j][i].cursor
                 of == {m \in 1..n : chain[i][m].rec = r}
             IN  copy[j][i].payload[r] =
                   IF of = {} THEN Nothing
                   ELSE chain[i][CHOOSE m \in of : \A l \in of : l <= m].payload
  <2>1. PICK n, of : n = copy[j][i].cursor /\ of = {m \in 1..n : chain[i][m].rec = r}
    OBVIOUS
  <2>2. copy[j][i].payload[r] = IF of = {} THEN Nothing
                                ELSE chain[i][CHOOSE m \in of : \A l \in of : l <= m].payload
    BY <1>1, <1>2, <2>1
  <2>3. QED BY <2>1, <2>2
<1>3. SyncInv => CopyIsOneMoment
  BY <1>2 DEF CopyIsOneMoment
<1>4. QED BY <1>3, SyncInvariant, PTL

-----------------------------------------------------------------------------
(* Observations: one call moves *)

USE ObservationAssumption


\* A step of one call leaves every other call where it stands.
LEMMA MoveCall ==
  ASSUME call = [c \in Calls |-> call[c]], NEW c \in Calls, NEW s,
         call' = [call EXCEPT ![c] = s]
  PROVE  /\ call' = [d \in Calls |-> call'[d]]
         /\ call'[c] = s
         /\ \A d \in Calls \ {c} : call'[d] = call[d]
OBVIOUS

\* A call that works on, under its id and with its intent, keeps the invariant
\* when it knows what its new step asks.
LEMMA WorksOn ==
  ASSUME ObservationInv, NEW c \in Calls, NEW s, call' = [call EXCEPT ![c] = s],
         call[c].pc # "idle", s.pc # "idle",
         s.id = call[c].id, s.binding = call[c].binding, s.method = call[c].method,
         UNCHANGED <<bound, requested, observed, announced, settled>>,
         CallHolds(c)'
  PROVE  ObservationInv'
<1>1. /\ call' = [d \in Calls |-> call'[d]]
      /\ call'[c] = s
      /\ \A d \in Calls \ {c} : call'[d] = call[d]
  BY MoveCall DEF ObservationInv
<1>2. \A d \in Calls : CallHolds(d)'
  BY <1>1 DEF ObservationInv, CallHolds
<1>3. OneIntentPerObservation'
  BY <1>1 DEF ObservationInv, OneIntentPerObservation, Intent
<1>4. \A id : Under(id)' = Under(id)
  BY <1>1 DEF Under
<1>5. GivenEvidenceIsFinal'
  BY <1>4 DEF ObservationInv, GivenEvidenceIsFinal
<1>6. EvidenceIsOfItsTarget'
  BY <1>2 DEF ObservationInv, EvidenceIsOfItsTarget, CallHolds
<1> QED
  BY <1>1, <1>2, <1>3, <1>5, <1>6 DEF ObservationInv

\* A new call takes an id nobody has evidence for, and the same request if there
\* is one (the replayed event of observeProvider).
LEMMA Requested ==
  ASSUME ObservationInv, NEW c \in Calls, NEW b \in bound, NEW m, NEW name,
         Request(c, b, m, name)
  PROVE  ObservationInv'
<1> DEFINE id == ObservationId(b, m, name)
           r == [id |-> id, binding |-> b, method |-> m]
           s == [pc |-> "fetching", id |-> id, binding |-> b, method |-> m,
                 url |-> b.url, hops |-> 0]
<1>1. /\ call[c].pc = "idle" /\ Existing(id) = {} /\ SameRequest(r)
      /\ requested' = requested \cup {r}
      /\ call' = [call EXCEPT ![c] = s]
      /\ UNCHANGED <<now, bound, observed, announced, settled>>
  BY DEF Request
<1> HIDE DEF id
<1>2. /\ call' = [d \in Calls |-> call'[d]]
      /\ call'[c] = s
      /\ \A d \in Calls \ {c} : call'[d] = call[d]
  BY <1>1, MoveCall DEF ObservationInv
<1>3. CallHolds(c)'
  BY <1>2 DEF CallHolds, ObservationInv
<1>4. \A d \in Calls : CallHolds(d)'
  BY <1>2, <1>3 DEF ObservationInv, CallHolds
<1>5. \A q, p \in requested' : q.id = p.id => q = p
  BY <1>1 DEF SameRequest, ObservationInv, OneIntentPerObservation
<1>6. \A d \in Calls : call'[d].pc # "idle" => Intent(call'[d]) \in requested'
  BY <1>1, <1>2 DEF ObservationInv, OneIntentPerObservation, Intent
<1>7. OneIntentPerObservation'
  BY <1>1, <1>5, <1>6 DEF ObservationInv, OneIntentPerObservation, Intent
<1>8. \A o \in observed : o.id # id
  BY <1>1 DEF Existing
<1>9. \A o \in settled : o \in observed /\ Under(o.id) = {}
  BY DEF ObservationInv, GivenEvidenceIsFinal
<1>10. \A o \in settled : Under(o.id)' = {}
  BY <1>2, <1>8, <1>9 DEF Under
<1>11. GivenEvidenceIsFinal'
  BY <1>1, <1>9, <1>10 DEF GivenEvidenceIsFinal
<1>12. EvidenceIsOfItsTarget'
  BY <1>1, <1>4 DEF ObservationInv, EvidenceIsOfItsTarget, CallHolds
<1> QED
  BY <1>1, <1>2, <1>4, <1>7, <1>11, <1>12 DEF ObservationInv

-----------------------------------------------------------------------------
(* Evidence is saved *)

\* Saving replaces what has the same id by evidence of the same intent.
LEMMA Saved ==
  ASSUME ObservationInv, NEW c \in Calls, call[c].pc = "bounded", Save(Observation(c))
  PROVE  /\ Observation(c).id = call[c].id
         /\ Observation(c) \in observed'
         /\ \A o \in observed' : o \in observed \/ o = Observation(c)
         /\ \A o \in observed : o \in observed' \/ o.id = call[c].id
         /\ \A o \in observed' : Intent(o) \in requested
         /\ \A o \in observed' : /\ Origin[o.final] = Origin[o.binding.url]
                                 /\ o.state = "succeeded" <=> o.status = "ok"
<1> DEFINE new == Observation(c)
<1>1. /\ new.id = call[c].id /\ new.binding = call[c].binding /\ new.method = call[c].method
      /\ new.final = call[c].result.final
      /\ new.state = call[c].result.state /\ new.status = call[c].result.status
  BY DEF Observation
<1>2. observed' = {p \in observed : p.id # new.id} \cup {new}
  BY DEF Save
<1>3. Intent(new) = Intent(call[c]) /\ Intent(call[c]) \in requested
  BY <1>1 DEF Intent, ObservationInv, OneIntentPerObservation
<1>4. /\ Origin[new.final] = Origin[new.binding.url]
      /\ new.state = "succeeded" <=> new.status = "ok"
  BY <1>1 DEF ObservationInv, CallHolds
<1> HIDE DEF new
<1>5. \A o \in observed : /\ Intent(o) \in requested
                          /\ Origin[o.final] = Origin[o.binding.url]
                          /\ o.state = "succeeded" <=> o.status = "ok"
  BY DEF ObservationInv, OneIntentPerObservation, EvidenceIsOfItsTarget
<1>6. \A o \in observed' : o \in observed \/ o = new
  BY <1>2
<1>7. new \in observed' /\ \A o \in observed : o \in observed' \/ o.id = call[c].id
  BY <1>1, <1>2
<1>8. \A o \in observed' : /\ Intent(o) \in requested
                           /\ Origin[o.final] = Origin[o.binding.url]
                           /\ o.state = "succeeded" <=> o.status = "ok"
  BY <1>3, <1>4, <1>5, <1>6
<1> QED
  BY <1>1, <1>6, <1>7, <1>8 DEF new

\* Evidence a caller was given alone is not what a later save replaces.
LEMMA SettledStays ==
  ASSUME ObservationInv, NEW c \in Calls, call[c].pc = "bounded", Save(Observation(c))
  PROVE  settled \subseteq observed' /\ \A o \in settled : o.id # call[c].id
<1>1. c \in Under(call[c].id)
  BY DEF Under
<1>2. \A o \in settled : o \in observed /\ o.id # call[c].id
  BY <1>1 DEF ObservationInv, GivenEvidenceIsFinal
<1> QED
  BY <1>2, Saved

\* A call records what it found and ends; alone under its id, its evidence is
\* settled (recordObservation).
LEMMA Recorded ==
  ASSUME ObservationInv, NEW c \in Calls, Record(c)
  PROVE  ObservationInv'
<1>1. PICK new : new = Observation(c)
  OBVIOUS
<1>2. /\ call[c].pc = "bounded" /\ Save(Observation(c)) /\ announced' = announced \cup {new.id}
      /\ settled' = IF Under(new.id) = {c} THEN settled \cup {new} ELSE settled
      /\ call' = [call EXCEPT ![c] = Idle]
      /\ UNCHANGED <<now, bound, requested>>
  BY <1>1 DEF Record
<1>3. /\ new.id = call[c].id /\ new \in observed'
      /\ \A o \in observed : o \in observed' \/ o.id = new.id
      /\ \A o \in observed' : Intent(o) \in requested
      /\ \A o \in observed' : /\ Origin[o.final] = Origin[o.binding.url]
                              /\ o.state = "succeeded" <=> o.status = "ok"
  BY <1>1, <1>2, Saved
<1>4. settled \subseteq observed'
  BY <1>2, SettledStays
<1>5. /\ call' = [d \in Calls |-> call'[d]]
      /\ call'[c] = Idle
      /\ \A d \in Calls \ {c} : call'[d] = call[d]
  BY <1>2, MoveCall DEF ObservationInv
<1>6. \A d \in Calls : CallHolds(d)'
  BY <1>5 DEF ObservationInv, CallHolds, Idle
<1>7. OneIntentPerObservation'
  <2>1. announced' \subseteq {o.id : o \in observed'}
    BY <1>2, <1>3 DEF ObservationInv, OneIntentPerObservation
  <2>2. \A d \in Calls : call'[d].pc # "idle" => Intent(call'[d]) \in requested
    BY <1>5 DEF ObservationInv, OneIntentPerObservation, Idle, Intent
  <2> QED
    BY <1>2, <1>3, <2>1, <2>2 DEF ObservationInv, OneIntentPerObservation, Intent
<1>8. \A id : Under(id)' = Under(id) \ {c}
  BY <1>5 DEF Under, Idle
<1>9. \A o \in settled' : Under(o.id) \ {c} = {}
  BY <1>2 DEF ObservationInv, GivenEvidenceIsFinal
<1>10. GivenEvidenceIsFinal'
  BY <1>2, <1>3, <1>4, <1>8, <1>9 DEF GivenEvidenceIsFinal
<1>11. EvidenceIsOfItsTarget'
  <2>1. ASSUME NEW d \in Calls, call'[d].pc \in {"fetching", "cancelling"}
        PROVE  Origin[call'[d].url] = Origin[call'[d].binding.url] /\ call'[d].hops <= MaxRedirects
    BY <2>1, <1>6 DEF CallHolds
  <2> QED
    BY <1>3, <2>1 DEF EvidenceIsOfItsTarget
<1> QED
  BY <1>2, <1>5, <1>6, <1>7, <1>10, <1>11 DEF ObservationInv

\* No call survives a restart; what one of them may have saved before it does.
LEMMA Restarted ==
  ASSUME ObservationInv, Restart \/ \E c \in Calls : RestartUnannounced(c)
  PROVE  ObservationInv'
<1>1. call' = [c \in Calls |-> Idle] /\ UNCHANGED <<bound, requested, announced, settled>>
  BY DEF Restart, RestartUnannounced
<1>2. \A c \in Calls : call'[c].pc = "idle"
  BY <1>1 DEF Idle
<1>3. \A c \in Calls : CallHolds(c)'
  BY <1>2 DEF CallHolds
<1>4. \A id : Under(id)' = {}
  BY <1>2 DEF Under
<1>5. /\ settled \subseteq observed'
      /\ \A o \in observed : \E p \in observed' : p.id = o.id
      /\ \A o \in observed' : Intent(o) \in requested
      /\ \A o \in observed' : /\ Origin[o.final] = Origin[o.binding.url]
                              /\ o.state = "succeeded" <=> o.status = "ok"
  <2>1. CASE Restart
    <3>1. observed' = observed
      BY <2>1 DEF Restart
    <3> QED
      BY <3>1 DEF ObservationInv, OneIntentPerObservation, EvidenceIsOfItsTarget,
                  GivenEvidenceIsFinal
  <2>2. ASSUME NEW c \in Calls, RestartUnannounced(c)
        PROVE  <1>5!:
    <3>1. call[c].pc = "bounded" /\ Save(Observation(c))
      BY <2>2 DEF RestartUnannounced
    <3> QED
      BY <3>1, Saved, SettledStays
  <2> QED
    BY <2>1, <2>2
<1>6. announced' \subseteq {o.id : o \in observed'}
  BY <1>1, <1>5 DEF ObservationInv, OneIntentPerObservation
<1>7. OneIntentPerObservation'
  BY <1>1, <1>2, <1>5, <1>6 DEF ObservationInv, OneIntentPerObservation, Intent
<1>8. GivenEvidenceIsFinal'
  BY <1>1, <1>4, <1>5 DEF GivenEvidenceIsFinal
<1>9. EvidenceIsOfItsTarget'
  BY <1>2, <1>5 DEF EvidenceIsOfItsTarget
<1> QED
  BY <1>1, <1>3, <1>7, <1>8, <1>9 DEF ObservationInv

-----------------------------------------------------------------------------
(* The fetches *)

\* A redirect that is followed stays on the approved origin, one hop further.
LEMMA Fetches ==
  ASSUME ObservationInv, NEW c \in Calls,
         Fail(c) \/ (\E a \in Answers : Respond(c, a)) \/ Follow(c)
  PROVE  ObservationInv'
<1>1. call = [d \in Calls |-> call[d]] /\ CallHolds(c)
  BY DEF ObservationInv
<1>2. CASE Fail(c)
  <2>0. PICK s : s = [pc |-> "bounded", id |-> call[c].id, binding |-> call[c].binding,
                   method |-> call[c].method,
                   result |-> Bounded("failed", "unanswered", None, call[c].url, call[c].hops)]
    OBVIOUS
  <2>1. /\ call[c].pc = "fetching" /\ call' = [call EXCEPT ![c] = s]
        /\ UNCHANGED <<bound, requested, observed, announced, settled>>
    BY <1>1, <1>2, <2>0 DEF Fail
  <2>2. call'[c] = s
    BY <1>1, <2>1
  <2>3. CallHolds(c)'
    BY <1>1, <2>0, <2>1, <2>2 DEF CallHolds, Bounded
  <2>4. /\ s.pc # "idle" /\ s.id = call[c].id
        /\ s.binding = call[c].binding /\ s.method = call[c].method
    BY <2>0
  <2> QED
    BY <2>1, <2>3, <2>4, WorksOn
<1>3. ASSUME NEW a \in Answers, Respond(c, a) PROVE ObservationInv'
  <2>0. PICK s : s = [pc |-> "cancelling", id |-> call[c].id, binding |-> call[c].binding,
                   method |-> call[c].method, url |-> call[c].url, hops |-> call[c].hops,
                   answer |-> a]
    OBVIOUS
  <2>1. /\ call[c].pc = "fetching" /\ call' = [call EXCEPT ![c] = s]
        /\ UNCHANGED <<bound, requested, observed, announced, settled>>
    BY <1>1, <1>3, <2>0 DEF Respond
  <2>2. call'[c] = s
    BY <1>1, <2>1
  <2>3. CallHolds(c)'
    BY <1>1, <2>0, <2>1, <2>2 DEF CallHolds
  <2>4. /\ s.pc # "idle" /\ s.id = call[c].id
        /\ s.binding = call[c].binding /\ s.method = call[c].method
    BY <2>0
  <2> QED
    BY <2>1, <2>3, <2>4, WorksOn
<1>4. CASE Follow(c)
  <2>0. PICK s : s = [pc |-> "fetching", id |-> call[c].id, binding |-> call[c].binding,
                   method |-> call[c].method, url |-> call[c].answer.to,
                   hops |-> call[c].hops + 1]
    OBVIOUS
  <2>1. /\ call[c].pc = "cancelling" /\ call[c].answer.kind = "redirect"
        /\ call[c].hops < MaxRedirects /\ OnApprovedOrigin(c, call[c].answer.to)
        /\ call' = [call EXCEPT ![c] = s]
        /\ UNCHANGED <<bound, requested, observed, announced, settled>>
    BY <1>1, <1>4, <2>0 DEF Follow
  <2>2. call'[c] = s
    BY <1>1, <2>1
  <2>3. call[c].answer.to \in Urls /\ Origin[call[c].answer.to] = Origin[call[c].binding.url]
    BY <1>1, <2>1 DEF CallHolds, Answers, OnApprovedOrigin, External
  <2>4. call[c].hops + 1 \in 0..MaxRedirects
    BY <1>1, <2>1 DEF CallHolds
  <2>5. CallHolds(c)'
    BY <2>0, <2>2, <2>3, <2>4 DEF CallHolds
  <2>6. /\ s.pc # "idle" /\ s.id = call[c].id
        /\ s.binding = call[c].binding /\ s.method = call[c].method
    BY <2>0
  <2> QED
    BY <2>1, <2>5, <2>6, WorksOn
<1> QED
  BY <1>2, <1>3, <1>4

\* What an answer makes of an observation names its own origin, and only an
\* answered fetch is a success.
LEMMA Concluded ==
  ASSUME ObservationInv, NEW c \in Calls, Conclude(c)
  PROVE  ObservationInv'
<1>0. PICK s : s = [pc |-> "bounded", id |-> call[c].id, binding |-> call[c].binding,
                    method |-> call[c].method, result |-> Outcome(c)]
  OBVIOUS
<1>1. call = [d \in Calls |-> call[d]] /\ CallHolds(c)
  BY DEF ObservationInv
<1>2. /\ call[c].pc = "cancelling" /\ call' = [call EXCEPT ![c] = s]
      /\ UNCHANGED <<bound, requested, observed, announced, settled>>
  BY <1>0, <1>1 DEF Conclude
<1>3. call'[c] = s
  BY <1>1, <1>2
<1>4. call[c].answer.kind \in {"invalid", "ok", "error", "redirect"}
  BY <1>1, <1>2 DEF CallHolds, Answers
<1>5. Origin[call[c].url] = Origin[call[c].binding.url]
  BY <1>1, <1>2 DEF CallHolds
<1>6. /\ Origin[Outcome(c).final] = Origin[call[c].binding.url]
      /\ Outcome(c).state = "succeeded" <=> Outcome(c).status = "ok"
  BY <1>4, <1>5 DEF Outcome, Bounded
<1>7. CallHolds(c)'
  BY <1>0, <1>3, <1>6 DEF CallHolds
<1>8. /\ s.pc # "idle" /\ s.id = call[c].id
      /\ s.binding = call[c].binding /\ s.method = call[c].method
  BY <1>0
<1> QED
  BY <1>2, <1>7, <1>8, WorksOn

\* A target that is bound, an answer from what is there and the clock disturb no call.
LEMMA OthersStep ==
  ASSUME ObservationInv,
         \/ \E id \in BindingIds, u \in Urls : BindProviderTarget(id, u)
         \/ \E b \in bound, m \in Methods, n \in Names \cup {None} : Replay(b, m, n)
         \/ Tick \/ UNCHANGED vars
  PROVE  ObservationInv'
<1>1. UNCHANGED <<requested, observed, announced, call>>
  BY DEF BindProviderTarget, Replay, Tick, vars
<1>2. \A b \in bound' : b.url \in Urls
  BY DEF BindProviderTarget, Replay, Tick, vars, ObservationInv
<1>3. \A o \in settled' : o \in settled \/ (o \in observed /\ Under(o.id) = {})
  <2>1. ASSUME NEW b \in bound, NEW m, NEW n, Replay(b, m, n)
        PROVE  \A o \in settled' : o \in settled \/ (o \in observed /\ Under(o.id) = {})
    <3>1. PICK o \in Existing(ObservationId(b, m, n)) :
            settled' = IF Under(o.id) = {} THEN settled \cup {o} ELSE settled
      BY <2>1 DEF Replay
    <3>2. o \in observed
      BY <3>1 DEF Existing
    <3> QED
      BY <3>1, <3>2
  <2>2. CASE settled' = settled
    BY <2>2
  <2> QED
    BY <2>1, <2>2 DEF BindProviderTarget, Tick, vars
<1>4. \A c \in Calls : CallHolds(c)'
  BY <1>1 DEF ObservationInv, CallHolds
<1>5. OneIntentPerObservation' /\ EvidenceIsOfItsTarget'
  BY <1>1 DEF ObservationInv, OneIntentPerObservation, EvidenceIsOfItsTarget
<1>6. GivenEvidenceIsFinal'
  BY <1>1, <1>3 DEF ObservationInv, GivenEvidenceIsFinal, Under
<1> QED
  BY <1>1, <1>2, <1>4, <1>5, <1>6 DEF ObservationInv

-----------------------------------------------------------------------------
(* Theorems *)

\* The inductive invariant: every step of observeProvider leaves each call with
\* what its next step relies on, whatever the other calls do.
THEOREM ObservationInvariant == Spec => []ObservationInv
<1>1. Init => ObservationInv
  BY DEF Init, ObservationInv, CallHolds, Idle, OneIntentPerObservation,
         GivenEvidenceIsFinal, EvidenceIsOfItsTarget
<1>2. ObservationInv /\ [Next]_vars => ObservationInv'
  <2>. SUFFICES ASSUME ObservationInv, [Next]_vars PROVE ObservationInv'
    OBVIOUS
  <2>1. ASSUME NEW c \in Calls, NEW b \in bound, NEW m, NEW n, Request(c, b, m, n)
        PROVE  ObservationInv'
    BY <2>1, Requested
  <2>2. ASSUME NEW c \in Calls,
               Fail(c) \/ (\E a \in Answers : Respond(c, a)) \/ Follow(c) \/ Conclude(c)
        PROVE  ObservationInv'
    BY <2>2, Fetches, Concluded
  <2>3. ASSUME NEW c \in Calls, Record(c) PROVE ObservationInv'
    BY <2>3, Recorded
  <2>4. CASE Restart \/ \E c \in Calls : RestartUnannounced(c)
    BY <2>4, Restarted
  <2>5. CASE \/ \E id \in BindingIds, u \in Urls : BindProviderTarget(id, u)
             \/ \E b \in bound, m \in Methods, n \in Names \cup {None} : Replay(b, m, n)
             \/ Tick \/ UNCHANGED vars
    BY <2>5, OthersStep
  <2> QED
    BY <2>1, <2>2, <2>3, <2>4, <2>5 DEF Next
<1> QED
  BY <1>1, <1>2, PTL DEF Spec

\* An id stands for one intent, in the log, in the calls and in the evidence
\* (the request key of observeProvider), for any number of calls and restarts.
THEOREM OneIntentPerObservationHolds == Spec => []OneIntentPerObservation
<1>1. ObservationInv => OneIntentPerObservation
  BY DEF ObservationInv
<1> QED
  BY <1>1, ObservationInvariant, PTL

\* Evidence given to a caller alone under its id stays what the id returns
\* (the replay of observeProvider).
THEOREM GivenEvidenceIsFinalHolds == Spec => []GivenEvidenceIsFinal
<1>1. ObservationInv => GivenEvidenceIsFinal
  BY DEF ObservationInv
<1> QED
  BY <1>1, ObservationInvariant, PTL

\* No redirect leaves the approved origin (validateRedirect), for any number of
\* redirects allowed.
THEOREM EvidenceIsOfItsTargetHolds == Spec => []EvidenceIsOfItsTarget
<1>1. ObservationInv => EvidenceIsOfItsTarget
  BY DEF ObservationInv
<1> QED
  BY <1>1, ObservationInvariant, PTL
=============================================================================
