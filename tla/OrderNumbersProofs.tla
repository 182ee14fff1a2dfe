------------------------- MODULE OrderNumbersProofs -------------------------
(***************************************************************************)
(* Order numbers are unique, for every number of requests, attempts and    *)
(* years.  The argument: the object's version lets a value be stored only  *)
(* if no other has been stored since it was worked out, so that within a   *)
(* year the stored values rise, and the year of the object never falls.    *)
(***************************************************************************)
EXTENDS OrderNumbers, TLAPS

Stored(r) == numbering[r].step \in {"stored", "issued"}

\* A value worked out from the object as it is now is the next one, unless the year is
\* over in which the object was changed last.
CountedIsNext ==
  \A r \in Requests : numbering[r].step = "counted" =>
    /\ numbering[r].version <= counter.version
    /\ numbering[r].version = counter.version /\ counter.year = year
         => numbering[r].value = counter.value + 1

\* No stored value is ahead of the object.
StoredIsCounted ==
  \A r \in Requests : Stored(r) =>
    /\ numbering[r].year <= counter.year
    /\ numbering[r].year = counter.year => numbering[r].value <= counter.value

\* No two values are stored in the same year.
StoredOnce ==
  \A r, s \in Requests :
    r # s /\ Stored(r) /\ Stored(s) /\ numbering[r].year = numbering[s].year
      => numbering[r].value # numbering[s].value

NumberInv ==
  /\ NumberTypeOK
  /\ counter.year <= year
  /\ CountedIsNext
  /\ StoredIsCounted
  /\ StoredOnce

-----------------------------------------------------------------------------
(* What each action does to a request's numbering. *)

NumberRecord ==
  [step : {"none", "counted", "stored", "issued"}, value : Nat, year : 0..MaxYear,
   version : Nat, prefix : 0..MaxYear, tries : 0..(Attempts - 1)]

\* The invariant holds at the start.
LEMMA NumberInitInv == NumberInit => NumberInv
<1> SUFFICES ASSUME NumberInit PROVE NumberInv
  OBVIOUS
<1>1. NoNumber(0) \in NumberRecord
  BY OrderNumbersAssumption DEF NoNumber, NumberRecord
<1>2. NumberTypeOK
  BY <1>1, OrderNumbersAssumption DEF NumberInit, NumberTypeOK, NumberRecord
<1>3. \A r \in Requests : numbering[r].step = "none"
  BY DEF NumberInit, NoNumber
<1> QED
  BY <1>2, <1>3 DEF NumberInit, NumberInv, CountedIsNext, StoredIsCounted, StoredOnce, Stored

\* New Year leaves the object behind.
LEMMA NewYearInv == NumberInv /\ NewYear => NumberInv'
<1> SUFFICES ASSUME NumberInv, NewYear PROVE NumberInv'
  OBVIOUS
<1>1. NumberTypeOK'
  BY OrderNumbersAssumption DEF NumberInv, NumberTypeOK, NewYear
<1>2. (counter.year <= year)'
  BY DEF NumberInv, NumberTypeOK, NewYear
<1>3. CountedIsNext'
  BY DEF NumberInv, NumberTypeOK, NewYear, CountedIsNext
<1>4. StoredIsCounted'
  BY DEF NumberInv, NewYear, StoredIsCounted, Stored
<1>5. StoredOnce'
  BY DEF NumberInv, NewYear, StoredOnce, Stored
<1> QED
  BY <1>1, <1>2, <1>3, <1>4, <1>5 DEF NumberInv

\* A value is worked out.
LEMMA CountInv ==
  ASSUME NEW r \in Requests, NumberInv, _get_order_number_custom_object(r)
  PROVE  NumberInv'
<1> DEFINE n == [step |-> "counted", value |-> NextValue(counter), year |-> 0,
                 version |-> counter.version, prefix |-> 0, tries |-> numbering[r].tries]
<1>1. /\ numbering \in [Requests -> NumberRecord]
      /\ counter \in [value : Nat, year : 1..MaxYear, version : Nat]
      /\ year \in 1..MaxYear
  BY DEF NumberInv, NumberTypeOK, NumberRecord
<1>2. numbering' = [numbering EXCEPT ![r] = n] /\ UNCHANGED <<year, counter>>
  BY DEF _get_order_number_custom_object
<1>3. NextValue(counter) \in Nat /\ (counter.year = year => NextValue(counter) = counter.value + 1)
  BY <1>1 DEF NextValue
<1>4. numbering[r].tries \in 0..(Attempts - 1)
  BY <1>1 DEF NumberRecord
<1>5. n \in NumberRecord
  BY <1>1, <1>3, <1>4, OrderNumbersAssumption DEF NumberRecord
<1>6. /\ n.step = "counted" /\ n.value = NextValue(counter) /\ n.version = counter.version
  OBVIOUS
<1> HIDE DEF n
<1>7. numbering' \in [Requests -> NumberRecord]
  BY <1>1, <1>2, <1>5
<1>8. \A s \in Requests : numbering'[s] = IF s = r THEN n ELSE numbering[s]
  BY <1>1, <1>2
<1>9. NumberTypeOK'
  BY <1>1, <1>2, <1>7 DEF NumberTypeOK, NumberRecord
<1>10. CountedIsNext'
  BY <1>1, <1>2, <1>3, <1>6, <1>8 DEF NumberInv, CountedIsNext
<1>11. StoredIsCounted' /\ StoredOnce'
  BY <1>2, <1>6, <1>8 DEF NumberInv, StoredIsCounted, StoredOnce, Stored
<1> QED
  BY <1>2, <1>9, <1>10, <1>11 DEF NumberInv

\* A stale value is refused.
LEMMA RefusedInv ==
  ASSUME NEW r \in Requests, NumberInv, CounterRefused(r)
  PROVE  NumberInv'
<1> DEFINE n == NoNumber(numbering[r].tries + 1)
<1>1. /\ numbering \in [Requests -> NumberRecord]
      /\ year \in 1..MaxYear
  BY DEF NumberInv, NumberTypeOK, NumberRecord
<1>2. numbering' = [numbering EXCEPT ![r] = n] /\ UNCHANGED <<year, counter>>
  BY DEF CounterRefused
<1>3. numbering[r].tries \in 0..(Attempts - 1) /\ numbering[r].tries + 1 < Attempts
  BY <1>1 DEF NumberRecord, CounterRefused
<1>4. numbering[r].tries + 1 \in 0..(Attempts - 1)
  BY <1>3, OrderNumbersAssumption
<1>5. n \in NumberRecord /\ n.step = "none"
  BY <1>4, OrderNumbersAssumption DEF NoNumber, NumberRecord
<1> HIDE DEF n
<1>6. numbering' \in [Requests -> NumberRecord]
  BY <1>1, <1>2, <1>5
<1>7. \A s \in Requests : numbering'[s] = IF s = r THEN n ELSE numbering[s]
  BY <1>1, <1>2
<1>8. NumberTypeOK'
  BY <1>2, <1>6 DEF NumberInv, NumberTypeOK, NumberRecord
<1>9. CountedIsNext' /\ StoredIsCounted' /\ StoredOnce'
  BY <1>2, <1>5, <1>7 DEF NumberInv, CountedIsNext, StoredIsCounted, StoredOnce, Stored
<1> QED
  BY <1>2, <1>8, <1>9 DEF NumberInv

\* A value is stored: it is above all that were stored this year.
LEMMA StoreInv ==
  ASSUME NEW r \in Requests, NumberInv, _update_order_number_custom_object(r)
  PROVE  NumberInv'
<1>1. /\ numbering \in [Requests -> NumberRecord]
      /\ counter \in [value : Nat, year : 1..MaxYear, version : Nat]
      /\ year \in 1..MaxYear
  BY DEF NumberInv, NumberTypeOK, NumberRecord
<1>2. /\ numbering[r].step = "counted"
      /\ numbering[r].version = counter.version
      /\ year' = year
  BY DEF _update_order_number_custom_object, CurrentCounter
<1>3. counter' = [value |-> numbering[r].value, year |-> year, version |-> counter.version + 1]
  BY DEF _update_order_number_custom_object
<1>4. /\ counter'.value = numbering[r].value
      /\ counter'.year = year
      /\ counter'.version = counter.version + 1
  BY <1>3
<1>5. counter' \in [value : Nat, year : 1..MaxYear, version : Nat]
  BY <1>1, <1>3 DEF NumberRecord
<1>6. numbering' = [numbering EXCEPT ![r] = [numbering[r] EXCEPT !.step = "stored",
                                                !.year = year, !.version = 0]]
  BY <1>1 DEF _update_order_number_custom_object, NumberRecord
<1> DEFINE n == [numbering[r] EXCEPT !.step = "stored", !.year = year, !.version = 0]
<1>7. n \in NumberRecord
  <2>1. numbering[r] \in NumberRecord /\ year \in 0..MaxYear
    BY <1>1, OrderNumbersAssumption
  <2> QED
    BY <2>1 DEF NumberRecord
<1>8. n.step = "stored" /\ n.year = year /\ n.value = numbering[r].value
  BY <1>1 DEF NumberRecord
<1>9. numbering' \in [Requests -> NumberRecord]
  BY <1>1, <1>6, <1>7
<1>10. \A s \in Requests : numbering'[s] = IF s = r THEN n ELSE numbering[s]
  BY <1>1, <1>6
<1> HIDE DEF n
<1>11. NumberTypeOK'
  BY <1>1, <1>2, <1>5, <1>9 DEF NumberTypeOK, NumberRecord
<1>12. \A s \in Requests : Stored(s) =>
         /\ numbering[s].year <= year
         /\ numbering[s].year = year => numbering[s].value < numbering[r].value
  <2> SUFFICES ASSUME NEW s \in Requests, Stored(s)
               PROVE  /\ numbering[s].year <= year
                      /\ numbering[s].year = year => numbering[s].value < numbering[r].value
    OBVIOUS
  <2>1. /\ numbering[s].year \in 0..MaxYear
        /\ numbering[s].value \in Nat
    BY <1>1 DEF NumberRecord
  <2>2. /\ numbering[s].year <= counter.year
        /\ numbering[s].year = counter.year => numbering[s].value <= counter.value
        /\ counter.year <= year
    BY DEF NumberInv, StoredIsCounted
  <2>3. counter.year = year => numbering[r].value = counter.value + 1
    BY <1>2 DEF NumberInv, CountedIsNext
  <2> QED
    BY <1>1, <2>1, <2>2, <2>3
<1>13. \A s \in Requests : Stored(s)' => s = r \/ Stored(s)
  BY <1>10 DEF Stored
<1>14. CountedIsNext'
  <2> SUFFICES ASSUME NEW s \in Requests, (numbering[s].step = "counted")'
               PROVE  numbering'[s].version < counter'.version
    BY <1>5, <1>9 DEF CountedIsNext, NumberRecord
  <2>1. s # r /\ numbering'[s] = numbering[s]
    BY <1>8, <1>10
  <2> QED
    BY <1>1, <1>4, <2>1 DEF NumberInv, CountedIsNext, NumberRecord
<1>15. StoredIsCounted'
  <2> SUFFICES ASSUME NEW s \in Requests, Stored(s)'
               PROVE  /\ numbering'[s].year <= counter'.year
                      /\ numbering'[s].value <= counter'.value
                           \/ numbering'[s].year # counter'.year
    BY DEF StoredIsCounted
  <2>1. CASE s = r
    BY <1>1, <1>4, <1>8, <1>10, <2>1 DEF NumberRecord
  <2>2. CASE s # r
    <3>1. Stored(s) /\ numbering'[s] = numbering[s]
      BY <1>10, <1>13, <2>2
    <3> QED
      BY <1>1, <1>4, <1>12, <3>1 DEF NumberRecord
  <2> QED
    BY <2>1, <2>2
<1>16. StoredOnce'
  <2> SUFFICES ASSUME NEW s \in Requests, NEW t \in Requests, s # t, Stored(s)', Stored(t)',
                      numbering'[s].year = numbering'[t].year
               PROVE  numbering'[s].value # numbering'[t].value
    BY DEF StoredOnce
  <2>1. numbering[r].value \in Nat /\ numbering[s].value \in Nat /\ numbering[t].value \in Nat
    BY <1>1 DEF NumberRecord
  <2>2. CASE s = r
    BY <1>8, <1>10, <1>12, <1>13, <2>1, <2>2
  <2>3. CASE t = r
    BY <1>8, <1>10, <1>12, <1>13, <2>1, <2>3
  <2>4. CASE s # r /\ t # r
    BY <1>10, <1>13, <2>4 DEF NumberInv, StoredOnce
  <2> QED
    BY <2>2, <2>3, <2>4
<1> QED
  BY <1>1, <1>2, <1>4, <1>11, <1>14, <1>15, <1>16 DEF NumberInv

\* The year is put before a stored value.
LEMMA IssueInv ==
  ASSUME NEW r \in Requests, NumberInv, get_new_order_number(r)
  PROVE  NumberInv'
<1>1. /\ numbering \in [Requests -> NumberRecord]
      /\ year \in 1..MaxYear
  BY DEF NumberInv, NumberTypeOK, NumberRecord
<1>2. numbering[r].step = "stored" /\ UNCHANGED <<year, counter>>
  BY DEF get_new_order_number
<1> DEFINE n == [numbering[r] EXCEPT !.step = "issued", !.prefix = year]
<1>3. numbering' = [numbering EXCEPT ![r] = n]
  BY <1>1 DEF get_new_order_number, NumberRecord
<1>4. n \in NumberRecord
  <2>1. numbering[r] \in NumberRecord /\ year \in 0..MaxYear
    BY <1>1, OrderNumbersAssumption
  <2> QED
    BY <2>1 DEF NumberRecord
<1>5. n.step = "issued" /\ n.year = numbering[r].year /\ n.value = numbering[r].value
  BY <1>1 DEF NumberRecord
<1> HIDE DEF n
<1>6. numbering' \in [Requests -> NumberRecord]
  BY <1>1, <1>3, <1>4
<1>7. \A s \in Requests : numbering'[s] = IF s = r THEN n ELSE numbering[s]
  BY <1>1, <1>3
<1>8. NumberTypeOK'
  BY <1>2, <1>6 DEF NumberInv, NumberTypeOK, NumberRecord
<1>9. \A s \in Requests : /\ Stored(s)' <=> Stored(s)
                          /\ numbering'[s].year = numbering[s].year
                          /\ numbering'[s].value = numbering[s].value
  BY <1>2, <1>5, <1>7 DEF Stored
<1>10. CountedIsNext'
  BY <1>2, <1>5, <1>7 DEF NumberInv, CountedIsNext
<1>11. StoredIsCounted' /\ StoredOnce'
  BY <1>2, <1>9 DEF NumberInv, StoredIsCounted, StoredOnce
<1> QED
  BY <1>2, <1>8, <1>10, <1>11 DEF NumberInv

\* Every step keeps the invariant.
LEMMA NumberStepInv == NumberInv /\ [NumberNext]_numberVars => NumberInv'
<1> SUFFICES ASSUME NumberInv, [NumberNext]_numberVars PROVE NumberInv'
  OBVIOUS
<1>1. CASE NewYear
  BY <1>1, NewYearInv
<1>2. ASSUME NEW r \in Requests, _get_order_number_custom_object(r) PROVE NumberInv'
  BY <1>2, CountInv
<1>3. ASSUME NEW r \in Requests, CounterRefused(r) PROVE NumberInv'
  BY <1>3, RefusedInv
<1>4. ASSUME NEW r \in Requests, _update_order_number_custom_object(r) PROVE NumberInv'
  BY <1>4, StoreInv
<1>5. ASSUME NEW r \in Requests, get_new_order_number(r) PROVE NumberInv'
  BY <1>5, IssueInv
<1>6. CASE UNCHANGED numberVars
  BY <1>6 DEF numberVars, NumberInv, NumberTypeOK, CountedIsNext, StoredIsCounted,
              StoredOnce, Stored
<1> QED
  BY <1>1, <1>2, <1>3, <1>4, <1>5, <1>6 DEF NumberNext, NumberStep

LEMMA NumberInvUnique == NumberInv => NumbersUnique
  BY DEF NumberInv, StoredOnce, Stored, NumbersUnique, Issued, Straddled, SameNumber

\* The invariant holds in every behaviour.
LEMMA NumberInvariant == NumberSpec => []NumberInv
<1>1. NumberInit => NumberInv
  BY NumberInitInv
<1>2. NumberInv /\ [NumberNext]_numberVars => NumberInv'
  BY NumberStepInv
<1> QED
  BY <1>1, <1>2, PTL DEF NumberSpec

(* The counter, the clock and every request's numbering stay well formed, and
   a request tries no more often than conditional_retry allows. *)
THEOREM NumbersTyped == NumberSpec => []NumberTypeOK
<1>1. NumberInv => NumberTypeOK
  BY DEF NumberInv
<1> QED
  BY <1>1, NumberInvariant, PTL

(* No two requests are issued the same order number, unless New Year fell
   between the storing of one's value and its prefix. *)
THEOREM NumbersAreUnique == NumberSpec => []NumbersUnique
  BY NumberInvariant, NumberInvUnique, PTL
=============================================================================
