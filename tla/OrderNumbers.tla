---------------------------- MODULE OrderNumbers ----------------------------
(***************************************************************************)
(* The numbers of mobile orders.  A custom object of Commercetools counts  *)
(* the orders of a year.  A request reads it, works out the next value     *)
(* with the year on its own clock, writes the value back at the version it *)
(* has read, and puts the year on its clock, read once more, before it.    *)
(***************************************************************************)
EXTENDS Naturals

CONSTANTS
  Requests, \* requests for a mobile order
  MaxYear,  \* bound on the year
  Attempts  \* attempts at a call that Commercetools refuses (3 in the code)

ASSUME OrderNumbersAssumption == {MaxYear, Attempts} \subseteq Nat \ {0}

VARIABLES
  year,      \* the clock
  counter,   \* Commercetools: the custom object, its version and year of last change
  numbering  \* for every request, how far it is with its number

numberVars == <<year, counter, numbering>>

\* value: the number without its year; version: of the object as it was read; year: in
\* which the value was stored; prefix: the year put before it.
NoNumber(tries) ==
  [step |-> "none", value |-> 0, year |-> 0, version |-> 0, prefix |-> 0, tries |-> tries]

NumberInit ==
  /\ year = 1
  /\ counter = [value |-> 0, year |-> 1, version |-> 0]
  /\ numbering = [r \in Requests |-> NoNumber(0)]

\* New Year.
NewYear ==
  /\ year < MaxYear
  /\ year' = year + 1
  /\ UNCHANGED <<counter, numbering>>

NextValue(seen) == IF year > seen.year THEN 1 ELSE seen.value + 1

\* The object is read and the next value worked out; a New Year between the two is one
\* that came before.
_get_order_number_custom_object(r) ==
  /\ numbering[r].step = "none"
  /\ numbering' = [numbering EXCEPT ![r] =
       [step |-> "counted", value |-> NextValue(counter), year |-> 0,
        version |-> counter.version, prefix |-> 0, tries |-> @.tries]]
  /\ UNCHANGED <<year, counter>>

CurrentCounter_Unchecked(r) == TRUE \* a mutant

CurrentCounter(r) == numbering[r].version = counter.version

\* Commercetools stores the value ...
_update_order_number_custom_object(r) ==
  /\ numbering[r].step = "counted"
  /\ CurrentCounter(r)
  /\ counter' = [value |-> numbering[r].value, year |-> year,
                 version |-> counter.version + 1]
  /\ numbering' = [numbering EXCEPT ![r].step = "stored", ![r].year = year,
                                    ![r].version = 0]
  /\ UNCHANGED year

CounterRefused_Endless(r) == \* a mutant
  /\ numbering[r].step = "counted"
  /\ ~CurrentCounter(r)
  /\ numbering' = [numbering EXCEPT ![r] = NoNumber(numbering[r].tries + 1)]
  /\ UNCHANGED <<year, counter>>

\* ... or refuses a stale version, and get_new_order_number starts over.
CounterRefused(r) ==
  /\ numbering[r].step = "counted"
  /\ ~CurrentCounter(r)
  /\ numbering[r].tries + 1 < Attempts
  /\ numbering' = [numbering EXCEPT ![r] = NoNumber(numbering[r].tries + 1)]
  /\ UNCHANGED <<year, counter>>

OutOfAttempts(r) ==
  /\ numbering[r].step = "counted"
  /\ ~CurrentCounter(r)
  /\ numbering[r].tries + 1 >= Attempts

get_new_order_number(r) ==
  /\ numbering[r].step = "stored"
  /\ numbering' = [numbering EXCEPT ![r].step = "issued", ![r].prefix = year]
  /\ UNCHANGED <<year, counter>>

NumberStep(r) ==
  \/ _get_order_number_custom_object(r)
  \/ CounterRefused(r)

NumberNext ==
  \/ NewYear
  \/ \E r \in Requests : \/ NumberStep(r)
                         \/ _update_order_number_custom_object(r)
                         \/ get_new_order_number(r)

NumberSpec == NumberInit /\ [][NumberNext]_numberVars

-----------------------------------------------------------------------------
(* Properties. *)

\* Every variable stays in its set; the calls for a number stop at Attempts.
NumberTypeOK ==
  /\ year \in 1..MaxYear
  /\ counter \in [value : Nat, year : 1..MaxYear, version : Nat]
  /\ numbering \in
       [Requests -> [step : {"none", "counted", "stored", "issued"},
                     value : Nat, year : 0..MaxYear, version : Nat,
                     prefix : 0..MaxYear, tries : 0..(Attempts - 1)]]

Issued(r) == numbering[r].step = "issued"

SameNumber(r, s) ==
  /\ numbering[r].prefix = numbering[s].prefix
  /\ numbering[r].value = numbering[s].value

\* New Year fell between the storing of the value and the second look at the clock.
Straddled(r) == Issued(r) /\ numbering[r].prefix # numbering[r].year

\* Two requests that run side by side, over a change of year or not, never get the
\* same order number, although the counter restarts every year and its readers do not
\* lock it.  One case is not covered: a request whose value was stored before New Year
\* and given its prefix after it takes a number that the new year will count up to.
NumbersUnique ==
  \A r, s \in Requests :
    /\ r # s
    /\ Issued(r) /\ Issued(s)
    /\ SameNumber(r, s)
    => Straddled(r) \/ Straddled(s)

=============================================================================
