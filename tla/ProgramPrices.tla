--------------------------- MODULE ProgramPrices ---------------------------
(***************************************************************************)
(* The price of a program for the courses that a learner still needs.  The *)
(* courses of the program are cached, with the program being edited and    *)
(* the cache's entry expiring meanwhile; offers and prices are looked up   *)
(* for every answer.  A price is in cents, a relative discount in parts of *)
(* ten thousand.                                                           *)
(***************************************************************************)
EXTENDS Integers, FiniteSets, Functions, SequencesExt

CONSTANTS
  Courses,  \* courses that a program may hold
  Price,    \* the standalone price of every course that has one
  Offers,   \* what the query for offers may find: offers in their order
  PricePage,\* prices in the first page of a query
  Readers,  \* requests for a price
  MaxEdits  \* bound on changes to the program

ASSUME ProgramPricesAssumption ==
  /\ DOMAIN Price \subseteq Courses
  /\ IsFiniteSet(DOMAIN Price)
  /\ \A c \in DOMAIN Price : Price[c] \in Nat
  /\ {PricePage, MaxEdits} \subseteq Nat

\* What a predicate says of programs: comparisons of the bundle's id, joined by and or
\* or.  other: whether its other conditions hold of the program's cart.
Comparisons == [op : {"=", "!=", "in"}, names : SUBSET STRING]

OfferType ==
  [key : STRING, join : {"and", "or"}, tests : SUBSET Comparisons, other : BOOLEAN,
   type : {"absolute", "relative"}, value : Nat]

\* The key of a discount is unique at Commercetools, and its value is not negative.
ASSUME OffersAssumption ==
  /\ Offers \subseteq Seq(OfferType)
  /\ \A list \in Offers : \A k, l \in DOMAIN list :
       list[k].key = "default" /\ list[l].key = "default" => k = l

VARIABLES
  program, \* Commercetools: the courses of the program
  offers,  \* Commercetools: the active offers without a code
  kept,    \* the cache's entry for the program
  fetched, \* the courses that a request has read and not yet cached
  quote,   \* the last answer
  recent,  \* history: programs since there was neither an entry nor a request
  edits    \* changes so far

priceVars == <<program, offers, kept, fetched, quote, recent, edits>>

NoEntry == [filled |-> FALSE, courses |-> {}]
NotFetched == [open |-> FALSE, courses |-> {}]
NoOffer == [key |-> "none", join |-> "or", tests |-> {}, other |-> FALSE,
            type |-> "relative", value |-> 0]
NoQuote == [status |-> 0, asked |-> {}, courses |-> {}, total |-> 0, price |-> 0, offer |-> NoOffer]

PricesIdle ==
  /\ program = {} /\ offers = <<>> /\ kept = NoEntry
  /\ fetched = [r \in Readers |-> NotFetched]
  /\ quote = NoQuote /\ recent = {} /\ edits = 0

PricesInit ==
  /\ program \in SUBSET Courses
  /\ offers \in Offers
  /\ kept = NoEntry
  /\ fetched = [r \in Readers |-> NotFetched]
  /\ quote = NoQuote
  /\ recent = {program}
  /\ edits = 0

Quotable == recent # {}

\* Nobody remembers an older program.
Forgotten == ~kept.filled /\ \A r \in Readers : ~fetched[r].open

-----------------------------------------------------------------------------
EditProgram ==
  /\ Quotable
  /\ edits < MaxEdits
  /\ edits' = edits + 1
  /\ program' \in SUBSET Courses \ {program}
  /\ recent' = IF Forgotten THEN {program'} ELSE recent \cup {program'}
  /\ quote' = NoQuote
  /\ UNCHANGED <<offers, kept, fetched>>

ExpireEntry ==
  /\ kept.filled
  /\ kept' = NoEntry
  /\ recent' = IF \A r \in Readers : ~fetched[r].open THEN {program} ELSE recent
  /\ quote' = NoQuote
  /\ UNCHANGED <<program, offers, fetched, edits>>

-----------------------------------------------------------------------------
(* The offer on the program. *)
Bundle == "bundle"

Default(offer) == offer.key = "default"

\* The names that a predicate compares with = or !=, whichever it is; not those of a
\* list, and whatever else the predicate asks.
extract_uuids_from_predicate(offer) ==
  UNION {test.names : test \in {t \in offer.tests : t.op # "in"}}

Named(offer) == Bundle \in extract_uuids_from_predicate(offer)

LastDefault == SelectLastInSeq(offers, Default)

FirstOwn == SelectInSeq(offers, LAMBDA o : ~Default(o) /\ Named(o))

\* a mutant: the default offer excludes nobody
get_program_offer_Unexcluded ==
  CASE FirstOwn # 0 -> offers[FirstOwn]
    [] FirstOwn = 0 /\ LastDefault # 0 -> offers[LastDefault]
    [] OTHER -> NoOffer

get_program_offer ==
  CASE FirstOwn # 0 -> offers[FirstOwn]
    [] FirstOwn = 0 /\ LastDefault # 0 /\ ~Named(offers[LastDefault]) -> offers[LastDefault]
    [] OTHER -> NoOffer

_calculate_discounted_price(offer, total) ==
  LET price == IF offer.type = "absolute" THEN total - offer.value
               ELSE total - (total * offer.value) \div 10000
  IN IF price < 0 THEN 0 ELSE price

\* The prices a query for courses finds.  What a query for none finds is left
\* open.
get_standalone_prices_for_skus(courses) ==
  LET priced == DOMAIN Price \cap courses
  IN IF courses = {} THEN SUBSET DOMAIN Price
     ELSE IF Cardinality(priced) <= PricePage THEN {priced}
     ELSE {p \in SUBSET priced : Cardinality(p) = PricePage}

Failed(status) == [NoQuote EXCEPT !.status = status]

\* The answer for those of the program's courses that were asked for.  Each
\* lookup may fail after its attempts, and answers nothing then.
Quotes(courses, asked) ==
  IF courses = {} THEN {Failed(404)}
  ELSE {Failed(500)} \cup
    {[status |-> 200, asked |-> asked, courses |-> courses \cap asked,
      total |-> SumFunctionOnSet(Price, found),
      price |-> _calculate_discounted_price(get_program_offer, SumFunctionOnSet(Price, found)),
      offer |-> get_program_offer] :
        found \in IF offers = <<>> THEN {}
                  ELSE get_standalone_prices_for_skus(courses \cap asked) \ {{}}}

-----------------------------------------------------------------------------
\* A request that names no course, or that finds an entry.
ProgramPriceView ==
  /\ Quotable
  /\ quote = NoQuote
  /\ \/ quote' = Failed(400)
     \/ /\ kept.filled
        /\ \E asked \in SUBSET Courses \ {{}} : quote' \in Quotes(kept.courses, asked)
  /\ UNCHANGED <<program, offers, kept, fetched, recent, edits>>

\* a mutant: a program that could not be read is kept as one without courses
AfterFailure_Kept == [filled |-> TRUE, courses |-> {}]

AfterFailure == kept

\* A request that finds none, and the program cannot be read.
_make_request_Fails ==
  /\ Quotable
  /\ quote = NoQuote
  /\ ~kept.filled
  /\ quote' = Failed(404)
  /\ kept' = AfterFailure
  /\ UNCHANGED <<program, offers, fetched, recent, edits>>

\* A request that finds none reads the program from Commercetools.
ReadProgram(r) ==
  /\ Quotable
  /\ ~fetched[r].open
  /\ ~kept.filled
  /\ fetched' = [fetched EXCEPT ![r] = [open |-> TRUE, courses |-> program]]
  /\ quote' = NoQuote
  /\ UNCHANGED <<program, offers, kept, recent, edits>>

\* Fills the entry, also of a program without courses.
get_program_variants(r) ==
  /\ fetched[r].open
  /\ quote = NoQuote
  /\ kept' = [filled |-> TRUE, courses |-> fetched[r].courses]
  /\ fetched' = [fetched EXCEPT ![r] = NotFetched]
  /\ \E asked \in SUBSET Courses \ {{}} : quote' \in Quotes(fetched[r].courses, asked)
  /\ UNCHANGED <<program, offers, recent, edits>>

\* The answer has been given.
Answered ==
  /\ quote # NoQuote
  /\ quote' = NoQuote
  /\ UNCHANGED <<program, offers, kept, fetched, recent, edits>>

PricesNext ==
  \/ EditProgram \/ ExpireEntry \/ Answered
  \/ ProgramPriceView \/ _make_request_Fails
  \/ \E r \in Readers : ReadProgram(r) \/ get_program_variants(r)

PricesSpec == (PricesIdle \/ PricesInit) /\ [][PricesNext]_priceVars

-----------------------------------------------------------------------------
\* An offer's predicate holds of the program.
Passes(test) == IF test.op = "!=" THEN Bundle \notin test.names ELSE Bundle \in test.names

Applies(offer) ==
  /\ offer.other
  /\ IF offer.join = "and" THEN \A test \in offer.tests : Passes(test)
                           ELSE \E test \in offer.tests : Passes(test)

\* An offer as the code takes it to be, and as its tests have it: the default one
\* excludes programs with !=, others name theirs with =, and nothing else is asked.
Conventional(offer) ==
  /\ offer.other
  /\ offer.join = IF Default(offer) THEN "and" ELSE "or"
  /\ \A test \in offer.tests : test.op = IF Default(offer) THEN "!=" ELSE "="

\* An offer that the program should be given.
Given(offer) == Conventional(offer) /\ Applies(offer)

(* The cache holds, and an answer prices, the courses of one program there was
   since the entry was last absent with nobody about to fill it.  Where each of
   them has a price on the first page, the total is theirs. *)
PricedFromRecentProgram ==
  /\ kept.filled => kept.courses \in recent
  /\ quote.status = 200 => \E p \in recent : quote.courses = p \cap quote.asked
  /\ quote.status = 200 /\ quote.courses # {} /\ quote.courses \subseteq DOMAIN Price
       /\ Cardinality(quote.courses) <= PricePage
       => quote.total = SumFunctionOnSet(Price, quote.courses)

(* Where the offers keep to the convention, the discount is that of an offer whose
   predicate holds of the program, an offer of its own before the default one, and
   there is none only if no offer's predicate holds. *)
DiscountIsOffered ==
  quote.status = 200 =>
    /\ quote.price <= quote.total
    /\ Conventional(quote.offer) => Applies(quote.offer)
    /\ quote.offer = NoOffer => \A k \in DOMAIN offers : ~Given(offers[k])
    /\ Default(quote.offer) =>
         \A k \in DOMAIN offers : Given(offers[k]) => Default(offers[k])
=============================================================================
