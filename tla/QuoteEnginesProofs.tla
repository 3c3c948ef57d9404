-------------------------- MODULE QuoteEnginesProofs --------------------------
(***************************************************************************)
(* What the engines and the event list compute, for any tables: orders,    *)
(* best quotes, filters and sums.  The finite sets they are about have no  *)
(* bound on their size, so the arguments by induction are arguments about  *)
(* a first counterexample (FirstOf).                                       *)
(***************************************************************************)
EXTENDS EventReads, SequenceTheorems, FiniteSetTheorems, FunctionTheorems,
        WellFoundedInduction, TLAPS

\* Of numbers there is a first one, and a last one up to a bound.
LEMMA FirstOf ==
  ASSUME NEW S, S \subseteq Nat, S # {}
  PROVE  \E n \in S : \A m \in S : n <= m
<1>. DEFINE less == OpToRel(<, Nat)
<1>1. IsWellFoundedOn(less, Nat)
  BY NatLessThanWellFounded
<1>2. ASSUME NEW m \in Nat, NEW n \in Nat, m < n PROVE <<m, n>> \in less
  BY <1>2 DEF OpToRel
<1>. HIDE DEF less
<1>3. PICK n \in S : \A m \in S : ~(<<m, n>> \in less)
  BY <1>1, WFMin
<1>4. ASSUME NEW m \in S PROVE n <= m
  <2>1. m \in Nat /\ n \in Nat
    OBVIOUS
  <2>2. ~(m < n)
    BY <1>2, <1>3, <2>1
  <2>. QED
    BY <2>1, <2>2
<1>. QED
  BY <1>4

\* The last one of numbers that have a bound.
LEMMA LastOf ==
  ASSUME NEW bound \in Nat, NEW S, S \subseteq 0..bound, S # {}
  PROVE  \E n \in S : \A m \in S : m <= n
<1>. DEFINE T == {bound - m : m \in S}
<1>1. T \subseteq Nat /\ T # {}
  <2>1. ASSUME NEW m \in S PROVE bound - m \in Nat
    <3>1. m \in 0..bound
      OBVIOUS
    <3>. QED
      BY <3>1
  <2>. QED
    BY <2>1
<1>2. PICK t \in T : \A u \in T : t <= u
  BY <1>1, FirstOf
<1>3. PICK n \in S : t = bound - n
  OBVIOUS
<1>4. ASSUME NEW m \in S PROVE m <= n
  <2>1. t <= bound - m
    BY <1>2
  <2>. QED
    BY <1>3, <2>1
<1>. QED
  BY <1>4

-----------------------------------------------------------------------------
\* A strict total order, as a set of pairs.
TotalOrder(R, S) ==
    /\ \A x \in S : <<x, x>> \notin R
    /\ \A x, y, z \in S : <<x, y>> \in R /\ <<y, z>> \in R => <<x, z>> \in R
    /\ \A x, y \in S : x # y => <<x, y>> \in R \/ <<y, x>> \in R

\* How many elements of S come before x.
Rank(S, R, x) == Cardinality({y \in S : <<y, x>> \in R})

\* Later elements have a greater rank, less than the number of elements.
LEMMA RankGrows ==
  ASSUME NEW S, IsFiniteSet(S), NEW R, TotalOrder(R, S)
  PROVE  /\ \A x \in S : Rank(S, R, x) \in 0..(Cardinality(S) - 1)
         /\ \A x, y \in S : <<x, y>> \in R => Rank(S, R, x) < Rank(S, R, y)
<1>. DEFINE below(x) == {y \in S : <<y, x>> \in R}
<1>1. ASSUME NEW x \in S
      PROVE  IsFiniteSet(below(x)) /\ Cardinality(below(x)) \in Nat
  BY FS_Subset, FS_CardinalityType
<1>2. ASSUME NEW x \in S PROVE Cardinality(below(x)) \in 0..(Cardinality(S) - 1)
  <2>1. below(x) \in SUBSET (S \ {x})
    BY DEF TotalOrder
  <2>2. IsFiniteSet(S \ {x}) /\ Cardinality(S \ {x}) = Cardinality(S) - 1
    BY FS_RemoveElement
  <2>3. Cardinality(below(x)) <= Cardinality(S \ {x})
    BY <2>1, <2>2, FS_Subset
  <2>. QED
    BY <1>1, <2>2, <2>3, FS_CardinalityType
<1>3. ASSUME NEW x \in S, NEW y \in S, <<x, y>> \in R
      PROVE  Cardinality(below(x)) < Cardinality(below(y))
  <2>1. below(x) \cup {x} \in SUBSET below(y) /\ x \notin below(x)
    BY <1>3 DEF TotalOrder
  <2>2. Cardinality(below(x) \cup {x}) = Cardinality(below(x)) + 1
    BY <1>1, <2>1, FS_AddElement
  <2>3. Cardinality(below(x) \cup {x}) <= Cardinality(below(y))
    BY <1>1, <2>1, FS_Subset
  <2>. QED
    BY <1>1, <2>2, <2>3
<1>. QED
  BY <1>2, <1>3 DEF Rank

\* Every rank is somebody's, and only one element's.
LEMMA RanksTaken ==
  ASSUME NEW S, IsFiniteSet(S), NEW R, TotalOrder(R, S)
  PROVE  /\ \A x, y \in S : Rank(S, R, x) = Rank(S, R, y) => x = y
         /\ \A k \in 0..(Cardinality(S) - 1) : \E x \in S : Rank(S, R, x) = k
<1>. DEFINE T == 0..(Cardinality(S) - 1)
            f == [x \in S |-> Rank(S, R, x)]
<1>1. \A x, y \in S : Rank(S, R, x) = Rank(S, R, y) => x = y
  <2>. SUFFICES ASSUME NEW x \in S, NEW y \in S, Rank(S, R, x) = Rank(S, R, y), x # y
                PROVE  FALSE
    OBVIOUS
  <2>1. <<x, y>> \in R \/ <<y, x>> \in R
    BY DEF TotalOrder
  <2>2. Rank(S, R, x) \in Int /\ Rank(S, R, y) \in Int
    BY RankGrows
  <2>. QED
    BY <2>1, <2>2, RankGrows
<1>2. Cardinality(S) \in Nat
  BY FS_CardinalityType
<1>3. IsFiniteSet(T) /\ Cardinality(T) = Cardinality(S)
  BY <1>2, FS_Interval
<1>4. f \in Injection(S, T)
  BY <1>1, RankGrows DEF Injection, IsInjective
<1>5. f \in Surjection(S, T)
  BY <1>3, <1>4, FS_Injection
<1>. QED
  BY <1>1, <1>5 DEF Surjection

\* The element of each rank is at its place.
ByRank(s, S, R) ==
    /\ s \in [1..Cardinality(S) -> S]
    /\ \A i \in 1..Cardinality(S) : Rank(S, R, s[i]) = i - 1

\* Every element is listed once, the earlier one first.
Sorts(s, S, R) ==
    /\ s \in Seq(S) /\ Len(s) = Cardinality(S)
    /\ \A i \in 1..Len(s) : s[i] \in S
    /\ \A x \in S : \E i \in 1..Len(s) : s[i] = x
    /\ \A i, j \in 1..Len(s) : s[i] = s[j] => i = j
    /\ \A i, j \in 1..Len(s) : i < j => <<s[i], s[j]>> \in R

\* To sort is to put the element of each rank at its place.
LEMMA InOrder ==
  ASSUME NEW S, IsFiniteSet(S), NEW R, TotalOrder(R, S), NEW s, ByRank(s, S, R)
  PROVE  Sorts(s, S, R)
<1>. DEFINE n == Cardinality(S)
<1>1. n \in Nat
  BY FS_CardinalityType
<1>2. ASSUME NEW i \in 1..n PROVE s[i] \in S /\ Rank(S, R, s[i]) = i - 1
  BY DEF ByRank
<1>3. s \in Seq(S) /\ Len(s) = n
  BY <1>1 DEF ByRank
<1>4. ASSUME NEW x \in S PROVE \E i \in 1..n : s[i] = x
  <2>1. Rank(S, R, x) \in 0..(n - 1)
    BY RankGrows
  <2>2. Rank(S, R, x) + 1 \in 1..n
    BY <1>1, <2>1
  <2>3. Rank(S, R, s[Rank(S, R, x) + 1]) = Rank(S, R, x) /\ s[Rank(S, R, x) + 1] \in S
    BY <1>2, <2>1, <2>2
  <2>. QED
    BY <2>2, <2>3, RanksTaken
<1>5. ASSUME NEW i \in 1..n, NEW j \in 1..n, s[i] = s[j] PROVE i = j
  BY <1>1, <1>2, <1>5
<1>6. ASSUME NEW i \in 1..n, NEW j \in 1..n, i < j PROVE <<s[i], s[j]>> \in R
  <2>1. s[i] \in S /\ s[j] \in S /\ s[i] # s[j]
    BY <1>1, <1>2, <1>5, <1>6
  <2>2. CASE <<s[j], s[i]>> \in R
    <3>1. Rank(S, R, s[j]) < Rank(S, R, s[i])
      BY <2>1, <2>2, RankGrows
    <3>. QED
      BY <1>1, <1>2, <1>6, <3>1
  <2>. QED
    BY <2>1, <2>2 DEF TotalOrder
<1>. QED
  BY <1>1, <1>2, <1>3, <1>4, <1>5, <1>6 DEF Sorts

\* Numbers, as places in a sequence, are put in their order.
LEMMA PlacesAscend ==
  ASSUME NEW P, IsFiniteSet(P), \A x \in P : x \in Int
  PROVE  /\ Ascending(P) \in Seq(P) /\ Len(Ascending(P)) = Cardinality(P)
         /\ \A i \in 1..Len(Ascending(P)) : Ascending(P)[i] \in P
         /\ \A x \in P : \E i \in 1..Len(Ascending(P)) : Ascending(P)[i] = x
         /\ \A i, j \in 1..Len(Ascending(P)) : i < j => Ascending(P)[i] < Ascending(P)[j]
<1>. DEFINE s == Ascending(P)
<1>11. PICK R : R = {p \in P \X P : p[1] < p[2]}
  OBVIOUS
<1>1. TotalOrder(R, P)
  BY <1>11 DEF TotalOrder
<1>2. ASSUME NEW x \in P PROVE Rank(P, R, x) = Cardinality({y \in P : y < x})
  <2>1. {y \in P : <<y, x>> \in R} = {y \in P : y < x}
    BY <1>11
  <2>. QED
    BY <2>1 DEF Rank
<1>3. s = [i \in 1..Cardinality(P) |-> CHOOSE x \in P : Cardinality({y \in P : y < x}) = i - 1]
  BY DEF Ascending, Sorted
<1>4. \A x, y \in P : <<x, y>> \in R => x < y
  BY <1>11
<1>5. Cardinality(P) \in Nat
  BY FS_CardinalityType
<1>. HIDE DEF s
<1>6. ASSUME NEW i \in 1..Cardinality(P) PROVE s[i] \in P /\ Rank(P, R, s[i]) = i - 1
  <2>1. i - 1 \in 0..(Cardinality(P) - 1)
    BY <1>5
  <2>4. \E x \in P : Rank(P, R, x) = i - 1
    BY <1>1, <2>1, RanksTaken
  <2>2. \E x \in P : Cardinality({y \in P : y < x}) = i - 1
    BY <1>2, <2>4
  <2>3. s[i] \in P /\ Cardinality({y \in P : y < s[i]}) = i - 1
    BY <1>3, <2>2
  <2>. QED
    BY <1>2, <2>3
<1>7. ByRank(s, P, R)
  BY <1>3, <1>6 DEF ByRank
<1>8. Sorts(s, P, R)
  BY <1>1, <1>7, InOrder
<1>9. \A i, j \in 1..Len(s) : i < j => s[i] < s[j]
  BY <1>4, <1>8 DEF Sorts
<1>. QED
  BY <1>8, <1>9 DEF s, Sorts

\* What is mapped of some places of a sequence keeps to the type of each.
LEMMA PlacesMapped ==
  ASSUME NEW P, IsFiniteSet(P), \A x \in P : x \in Int, NEW T, NEW f \in [P -> T]
  PROVE  [i \in DOMAIN Ascending(P) |-> f[Ascending(P)[i]]] \in Seq(T)
<1>. DEFINE places == Ascending(P)
<1>1. places \in Seq(P)
  BY PlacesAscend
<1>4. Len(places) \in Nat /\ DOMAIN places = 1..Len(places)
  BY <1>1
<1>2. \A i \in 1..Len(places) : places[i] \in P
  BY PlacesAscend
<1>. HIDE DEF places
<1>3. [i \in DOMAIN places |-> f[places[i]]] \in [1..Len(places) -> T]
  BY <1>2, <1>4
<1>. QED
  BY <1>3, <1>4 DEF places

-----------------------------------------------------------------------------
\* The places of a sequence that pass a test are finitely many.
LEMMA PlacesFinite ==
  ASSUME NEW S, NEW s \in Seq(S), NEW P, P \subseteq DOMAIN s
  PROVE  IsFiniteSet(P) /\ \A x \in P : x \in Int
<1>1. DOMAIN s = 1..Len(s) /\ Len(s) \in Nat
  OBVIOUS
<1>2. IsFiniteSet(1..Len(s))
  BY <1>1, FS_Interval
<1>3. P \in SUBSET (1..Len(s))
  BY <1>1
<1>. QED
  BY <1>2, <1>3, FS_Subset

\* What is kept of a sequence has elements of the set, and of those that pass.
LEMMA ListedEventKept ==
  ASSUME NEW S, NEW s \in Seq(S), NEW k
  PROVE  Kept(s, LAMBDA o : o.id = k) \in Seq({o \in S : o.id = k})
<1>. DEFINE P == {i \in DOMAIN s : s[i].id = k}
            f == [i \in P |-> s[i]]
<1>1. IsFiniteSet(P) /\ \A x \in P : x \in Int
  <2>1. DOMAIN s = 1..Len(s) /\ Len(s) \in Nat
    OBVIOUS
  <2>2. IsFiniteSet(1..Len(s))
    BY <2>1, FS_Interval
  <2>3. P \in SUBSET (1..Len(s))
    BY <2>1
  <2>. QED
    BY <2>2, <2>3, FS_Subset
<1>2. f \in [P -> {o \in S : o.id = k}]
  OBVIOUS
<1>3. [i \in DOMAIN Ascending(P) |-> f[Ascending(P)[i]]] \in Seq({o \in S : o.id = k})
  BY <1>1, <1>2, PlacesMapped
<1>4. \A i \in DOMAIN Ascending(P) : Ascending(P)[i] \in P
  BY <1>1, PlacesAscend
<1>. QED
  BY <1>3, <1>4 DEF Kept

-----------------------------------------------------------------------------
\* One quote per book, each with a price.
PricedQuotes(Q) ==
    /\ IsFiniteSet(Q)
    /\ \A q \in Q : q.price \in Int /\ q.sportsbook \in Nat
    /\ \A q, r \in Q : q.sportsbook = r.sportsbook => q = r

Ranking(Q) == {p \in Q \X Q : Better(p[1], p[2])}

\* Higher prices first, and of equal ones the first book, is a total order.
LEMMA RankingOrders ==
  ASSUME NEW Q, PricedQuotes(Q)
  PROVE  TotalOrder(Ranking(Q), Q)
<1>1. \A q, r \in Q : <<q, r>> \in Ranking(Q) <=> Better(q, r)
  BY DEF Ranking
<1>2. \A q \in Q : ~Better(q, q)
  BY DEF Better, PricedQuotes
<1>3. ASSUME NEW q \in Q, NEW r \in Q, NEW t \in Q, Better(q, r), Better(r, t)
      PROVE  Better(q, t)
  BY <1>3 DEF Better, PricedQuotes
<1>4. ASSUME NEW q \in Q, NEW r \in Q, q # r PROVE Better(q, r) \/ Better(r, q)
  <2>1. q.sportsbook # r.sportsbook
    BY <1>4 DEF PricedQuotes
  <2>. QED
    BY <2>1 DEF Better, PricedQuotes
<1>. QED
  BY <1>1, <1>2, <1>3, <1>4 DEF TotalOrder

\* A ranking lists every quote once, the better one first.
THEOREM RankingSorts ==
  ASSUME NEW Q, PricedQuotes(Q)
  PROVE  Sorts(RankQuotes(Q), Q, Ranking(Q))
<1>. DEFINE R == Ranking(Q)
            s == RankQuotes(Q)
<1>1. IsFiniteSet(Q) /\ TotalOrder(R, Q)
  BY RankingOrders DEF PricedQuotes
<1>2. ASSUME NEW x \in Q PROVE Rank(Q, R, x) = Cardinality({y \in Q : Better(y, x)})
  <2>1. {y \in Q : <<y, x>> \in R} = {y \in Q : Better(y, x)}
    BY DEF Ranking
  <2>. QED
    BY <2>1 DEF Rank
<1>3. s = [i \in 1..Cardinality(Q) |->
             CHOOSE x \in Q : Cardinality({y \in Q : Better(y, x)}) = i - 1]
  BY DEF RankQuotes, Sorted
<1>4. Cardinality(Q) \in Nat
  BY <1>1, FS_CardinalityType
<1>. HIDE DEF R, s
<1>5. ASSUME NEW i \in 1..Cardinality(Q) PROVE s[i] \in Q /\ Rank(Q, R, s[i]) = i - 1
  <2>1. i - 1 \in 0..(Cardinality(Q) - 1)
    BY <1>4
  <2>2. \E x \in Q : Rank(Q, R, x) = i - 1
    BY <1>1, <2>1, RanksTaken
  <2>3. \E x \in Q : Cardinality({y \in Q : Better(y, x)}) = i - 1
    BY <1>2, <2>2
  <2>4. s[i] \in Q /\ Cardinality({y \in Q : Better(y, s[i])}) = i - 1
    BY <1>3, <2>3
  <2>. QED
    BY <1>2, <2>4
<1>6. ByRank(s, Q, R)
  BY <1>3, <1>5 DEF ByRank
<1>. QED
  BY <1>1, <1>6, InOrder DEF R, s

\* The first of the ranking is better than all others.
LEMMA BestIsBetter ==
  ASSUME NEW Q, PricedQuotes(Q), Q # {}
  PROVE  Best(Q) \in Q /\ \A q \in Q : q # Best(Q) => Better(Best(Q), q)
<1>. DEFINE s == RankQuotes(Q)
<1>1. Sorts(s, Q, Ranking(Q))
  BY RankingSorts
<1>. HIDE DEF s
<1>2. Cardinality(Q) \in Nat /\ Cardinality(Q) # 0
  BY FS_CardinalityType, FS_EmptySet DEF PricedQuotes
<1>3. 1 \in 1..Len(s) /\ Len(s) \in Nat
  BY <1>1, <1>2 DEF Sorts
<1>4. Best(Q) = s[1]
  BY DEF Best, s
<1>5. s[1] \in Q
  BY <1>1, <1>3 DEF Sorts
<1>6. ASSUME NEW q \in Q, q # s[1] PROVE Better(s[1], q)
  <2>1. PICK i \in 1..Len(s) : s[i] = q
    BY <1>1 DEF Sorts
  <2>2. 1 < i
    BY <1>3, <1>6, <2>1
  <2>3. <<s[1], q>> \in Ranking(Q)
    BY <1>1, <1>3, <2>1, <2>2 DEF Sorts
  <2>. QED
    BY <2>3 DEF Ranking
<1>. QED
  BY <1>4, <1>5, <1>6

\* If any quote can be filled, the best one can, and is the best of those.
THEOREM BestCanBeFilled ==
  ASSUME NEW Q, PricedQuotes(Q), NEW intent, intent.target_price \in Int,
         Fillable(intent, Q) # {}
  PROVE  Best(Fillable(intent, Q)) = Best(Q)
<1>. DEFINE F == Fillable(intent, Q)
<1>1. F \subseteq Q /\ \A q \in Q : q \in F <=> q.price >= intent.target_price
  BY DEF Fillable, IsPriceFillable
<1>. HIDE DEF F
<1>2. PricedQuotes(F)
  BY <1>1, FS_Subset DEF PricedQuotes
<1>3. Best(F) \in F /\ \A q \in F : q # Best(F) => Better(Best(F), q)
  BY <1>2, BestIsBetter DEF F
<1>4. Best(Q) \in Q /\ \A q \in Q : q # Best(Q) => Better(Best(Q), q)
  BY <1>1, <1>3, BestIsBetter
<1>5. CASE Best(Q) # Best(F)
  <2>1. Better(Best(Q), Best(F))
    BY <1>1, <1>3, <1>4, <1>5
  <2>2. Best(Q).price >= Best(F).price /\ Best(F).price >= intent.target_price
    BY <1>1, <1>3, <1>4, <2>1 DEF Better, PricedQuotes
  <2>3. Best(Q) \in F
    BY <1>1, <1>3, <1>4, <2>2 DEF PricedQuotes
  <2>4. Better(Best(F), Best(Q))
    BY <1>3, <1>5, <2>3
  <2>. QED
    BY <1>1, <1>3, <1>4, <2>1, <2>4 DEF Better, PricedQuotes
<1>. QED
  BY <1>5 DEF F

-----------------------------------------------------------------------------
\* Tables as the engines need them: markets named by their key, and one priced
\* row of a book in a market.
BookTables(mkts, rows) ==
    /\ IsFiniteSet(rows)
    /\ \A m \in mkts : m.id = MarketId(m)
    /\ \A r \in rows : r.price \in Int /\ r.sportsbook \in Nat
    /\ \A r, s \in rows :
         r.market_id = s.market_id /\ r.sportsbook = s.sportsbook => r = s

\* Of the quotes of its event an intent matches those of its market and line.
LEMMA MatchedQuotes ==
  ASSUME NEW mkts, NEW rows, BookTables(mkts, rows), NEW m \in mkts, NEW intent,
         intent.event_id = m.event_id, intent.market_type = m.market_type,
         intent.selection = m.selection, intent.line = m.line
  PROVE  MatchQuotes(intent, ListLatestQuotes(m.event_id, mkts, rows)) = QuotesOf(m, rows)
<1>. DEFINE all == ListLatestQuotes(m.event_id, mkts, rows)
<1>1. ASSUME NEW q \in MatchQuotes(intent, all) PROVE q \in QuotesOf(m, rows)
  <2>1. PICK n \in mkts : n.event_id = m.event_id /\ q \in QuotesOf(n, rows)
    BY DEF MatchQuotes, ListLatestQuotes, MarketsOf
  <2>2. PICK r \in rows : r.market_id = n.id /\ q = RowToQuote(n, r)
    BY <2>1 DEF QuotesOf
  <2>3. n.market_type = m.market_type /\ n.selection = m.selection /\ n.line = m.line
    BY <2>2 DEF MatchQuotes, RowToQuote
  <2>4. n.id = m.id /\ RowToQuote(n, r) = RowToQuote(m, r)
    BY <2>1, <2>3 DEF BookTables, MarketId, RowToQuote
  <2>. QED
    BY <2>2, <2>4 DEF QuotesOf
<1>2. ASSUME NEW q \in QuotesOf(m, rows) PROVE q \in MatchQuotes(intent, all)
  <2>1. PICK r \in rows : q = RowToQuote(m, r)
    BY DEF QuotesOf
  <2>2. q \in all
    BY DEF ListLatestQuotes, MarketsOf
  <2>. QED
    BY <2>1, <2>2 DEF MatchQuotes, RowToQuote
<1>. QED
  BY <1>1, <1>2

\* The quotes of a market are one per book.
LEMMA MarketQuotesPriced ==
  ASSUME NEW mkts, NEW rows, BookTables(mkts, rows), NEW m \in mkts
  PROVE  PricedQuotes(QuotesOf(m, rows))
<1>. DEFINE mine == {r \in rows : r.market_id = m.id}
            f == [r \in mine |-> RowToQuote(m, r)]
<1>1. IsFiniteSet(mine)
  BY FS_Subset DEF BookTables
<1>2. f \in Surjection(mine, QuotesOf(m, rows))
  BY DEF Surjection, QuotesOf
<1>3. IsFiniteSet(QuotesOf(m, rows))
  BY <1>1, <1>2, FS_Surjection
<1>. QED
  BY <1>3 DEF PricedQuotes, QuotesOf, RowToQuote, BookTables

\* What a recommendation returns for a market's own line.
LEMMA RecommendsBest ==
  ASSUME NEW Q, PricedQuotes(Q), Q # {}, NEW intent, intent.target_price \in Int
  PROVE  LET advice == GenerateRecommendation(intent, Q) IN
           /\ advice.fillable <=> Fillable(intent, Q) # {}
           /\ advice.best_quote = Best(Q)
<1>1. Fillable(intent, Q) # {} => Best(Fillable(intent, Q)) = Best(Q)
  BY BestCanBeFilled
<1>. QED
  BY <1>1 DEF GenerateRecommendation

-----------------------------------------------------------------------------
\* Events as a listing needs them: one row of each id.
EventTable(S) ==
    /\ IsFiniteSet(S)
    /\ \A e \in S : e.external_id \in Int
    /\ \A e \in S : e.starts_at # None => e.starts_at \in Int
    /\ \A e, f \in S : e.external_id = f.external_id => e = f

Soonest(S) == {p \in S \X S : Sooner(p[1], p[2])}

\* By start, the unknown ones last, then by id, is a total order.
LEMMA SoonestOrders ==
  ASSUME NEW S, EventTable(S)
  PROVE  TotalOrder(Soonest(S), S)
<1>1. \A e, f \in S : <<e, f>> \in Soonest(S) <=> Sooner(e, f)
  BY DEF Soonest
<1>2. \A e \in S : ~Sooner(e, e)
  BY DEF Sooner, EventTable
<1>3. ASSUME NEW e \in S, NEW f \in S, NEW g \in S, Sooner(e, f), Sooner(f, g)
      PROVE  Sooner(e, g)
  <2>1. /\ e.starts_at # None => e.starts_at \in Int
        /\ f.starts_at # None => f.starts_at \in Int
        /\ g.starts_at # None => g.starts_at \in Int
        /\ e.external_id \in Int /\ f.external_id \in Int /\ g.external_id \in Int
    BY DEF EventTable
  <2>2. CASE e.starts_at = None
    BY <1>3, <2>1, <2>2 DEF Sooner
  <2>3. CASE e.starts_at # None /\ g.starts_at = None
    BY <2>3 DEF Sooner
  <2>4. CASE e.starts_at # None /\ g.starts_at # None
    BY <1>3, <2>1, <2>4 DEF Sooner
  <2>. QED
    BY <2>2, <2>3, <2>4
<1>4. ASSUME NEW e \in S, NEW f \in S, e # f PROVE Sooner(e, f) \/ Sooner(f, e)
  <2>1. e.external_id # f.external_id
    BY <1>4 DEF EventTable
  <2>. QED
    BY <2>1 DEF Sooner, EventTable
<1>. QED
  BY <1>1, <1>2, <1>3, <1>4 DEF TotalOrder

\* The listing has every event once, in that order.
LEMMA ListingSorts ==
  ASSUME NEW S, EventTable(S)
  PROVE  Sorts(SortedEvents(S), S, Soonest(S))
<1>. DEFINE R == Soonest(S)
            s == SortedEvents(S)
<1>1. IsFiniteSet(S) /\ TotalOrder(R, S)
  BY SoonestOrders DEF EventTable
<1>2. ASSUME NEW x \in S PROVE Rank(S, R, x) = Cardinality({y \in S : Sooner(y, x)})
  <2>1. {y \in S : <<y, x>> \in R} = {y \in S : Sooner(y, x)}
    BY DEF Soonest
  <2>. QED
    BY <2>1 DEF Rank
<1>3. s = [i \in 1..Cardinality(S) |->
             CHOOSE x \in S : Cardinality({y \in S : Sooner(y, x)}) = i - 1]
  BY DEF SortedEvents, Sorted
<1>4. Cardinality(S) \in Nat
  BY <1>1, FS_CardinalityType
<1>. HIDE DEF R, s
<1>5. ASSUME NEW i \in 1..Cardinality(S) PROVE s[i] \in S /\ Rank(S, R, s[i]) = i - 1
  <2>1. i - 1 \in 0..(Cardinality(S) - 1)
    BY <1>4
  <2>2. \E x \in S : Rank(S, R, x) = i - 1
    BY <1>1, <2>1, RanksTaken
  <2>3. \E x \in S : Cardinality({y \in S : Sooner(y, x)}) = i - 1
    BY <1>2, <2>2
  <2>4. s[i] \in S /\ Cardinality({y \in S : Sooner(y, s[i])}) = i - 1
    BY <1>3, <2>3
  <2>. QED
    BY <1>2, <2>4
<1>6. ByRank(s, S, R)
  BY <1>3, <1>5 DEF ByRank
<1>. QED
  BY <1>1, <1>6, InOrder DEF R, s

\* The p-th page of n rows.
ShowsRows(page, rows, n, p, size) ==
    /\ Len(page) \in Nat
    /\ (p - 1) * size >= n => page = <<>>
    /\ \A i \in 1..size : i <= Len(page) <=> (p - 1) * size + i <= n
    /\ \A i \in 1..Len(page) : page[i].id = rows[(p - 1) * size + i].external_id

\* A page has the next page_size rows of the listing, if there are as many.
LEMMA PageRows ==
  ASSUME NEW E, NEW filter, NEW now, EventTable(ApplyFilter(E, filter, now)),
         NEW mkts, NEW quotes, NEW p \in Nat \ {0}, NEW size \in Nat \ {0}
  PROVE  ShowsRows(EventPage(E, filter, now, p, size, mkts, quotes).events,
                   SortedEvents(ApplyFilter(E, filter, now)),
                   Cardinality(ApplyFilter(E, filter, now)), p, size)
<1>. DEFINE S == ApplyFilter(E, filter, now)
            n == Cardinality(S)
            rows == SortedEvents(S)
            offset == (p - 1) * size
            page == EventPage(E, filter, now, p, size, mkts, quotes).events
<1>1. Sorts(rows, S, Soonest(S)) /\ n \in Nat
  BY ListingSorts, FS_CardinalityType DEF EventTable
<1>2. rows \in Seq(S) /\ Len(rows) = n
  BY <1>1 DEF Sorts
<1>3. offset \in Nat
  OBVIOUS
<1>4. page = IF offset < n THEN ListEvents(E, filter, now, size, offset, mkts, quotes) ELSE <<>>
  BY DEF EventPage, CountEvents
<1>. HIDE DEF S, n, rows, offset, page
<1>5. CASE offset < n
  <2>. DEFINE last == Min({offset + size, Len(rows)})
              slice == SubSeq(rows, offset + 1, last)
  <2>1. last = IF offset + size <= n THEN offset + size ELSE n
    BY <1>1, <1>2, <1>3 DEF Min
  <2>2. /\ last \in Nat /\ offset + 1 <= last /\ last <= n
        /\ last <= offset + size
    BY <1>1, <1>3, <1>5, <2>1
  <2>3. page = [i \in DOMAIN slice |-> EventSummary(slice[i], mkts, quotes)]
    BY <1>4, <1>5 DEF ListEvents, rows, S
  <2>. HIDE DEF last
  <2>4. Len(slice) = last - offset /\ DOMAIN slice = 1..(last - offset)
    BY <1>1, <1>2, <1>3, <2>2
  <2>5. \A i \in 1..(last - offset) : slice[i] = rows[offset + i]
    BY <1>1, <1>2, <1>3, <2>2
  <2>. HIDE DEF slice
  <2>6. Len(page) = last - offset
    <3>1. DOMAIN page = 1..(last - offset) /\ last - offset \in Nat
      BY <1>3, <2>2, <2>3, <2>4
    <3>2. page \in Seq({page[i] : i \in 1..(last - offset)})
      BY <2>3, <2>4, <3>1
    <3>. QED
      BY <3>1, <3>2
  <2>7. \A i \in 1..(last - offset) : page[i].id = rows[offset + i].external_id
    BY <2>3, <2>4, <2>5 DEF EventSummary
  <2>8. \A i \in 1..size : i <= last - offset <=> offset + i <= n
    BY <1>1, <1>3, <2>1
  <2>. QED
    BY <1>1, <1>3, <1>5, <2>2, <2>6, <2>7, <2>8 DEF ShowsRows, S, n, rows, offset, page
<1>6. CASE ~(offset < n)
  <2>1. page = <<>>
    BY <1>4, <1>6
  <2>. QED
    BY <1>1, <1>3, <1>6, <2>1 DEF ShowsRows, S, n, rows, offset, page
<1>. QED
  BY <1>5, <1>6

\* A multiple of the page size below the number of events is a page further on.
LEMMA PagesApart ==
  ASSUME NEW a \in Int, NEW b \in Int, NEW c \in Nat \ {0}, a < b
  PROVE  a * c + c <= b * c
OBVIOUS

\* The last page ends with the last event, or after it.
LEMMA PagesEnough ==
  ASSUME NEW n \in Nat, NEW size \in Nat \ {0}
  PROVE  /\ TotalPages(n, size) \in Nat
         /\ n <= TotalPages(n, size) * size
         /\ TotalPages(n, size) * size < n + size
<1>1. TotalPages(n, size) = (n + size - 1) \div size
  BY DEF TotalPages
<1>2. n + size - 1 \in Nat
  OBVIOUS
<1>3. ASSUME NEW a \in Nat
      PROVE  /\ a \div size \in Nat /\ a % size \in 0..(size - 1)
             /\ a = (a \div size) * size + (a % size)
  OBVIOUS
<1>. QED
  BY <1>1, <1>2, <1>3

\* The pages of any size show every event once, and nothing comes after them.
THEOREM PagesShowAll ==
  ASSUME NEW E, NEW filter, NEW now, EventTable(ApplyFilter(E, filter, now)),
         NEW mkts, NEW quotes, NEW size \in Nat \ {0}
  PROVE  LET page(p) == EventPage(E, filter, now, p, size, mkts, quotes)
             pages   == page(1).total_pages
         IN  /\ \A e \in ApplyFilter(E, filter, now) :
                  \E place \in (1..pages) \X (1..size) :
                    {at \in (1..pages) \X (1..size) :
                       /\ at[2] <= Len(page(at[1]).events)
                       /\ page(at[1]).events[at[2]].id = e.external_id} = {place}
             /\ page(pages + 1).events = <<>>
<1>. DEFINE S == ApplyFilter(E, filter, now)
            n == Cardinality(S)
            rows == SortedEvents(S)
            shown(p) == EventPage(E, filter, now, p, size, mkts, quotes).events
            pages == TotalPages(n, size)
<1>1. Sorts(rows, S, Soonest(S)) /\ n \in Nat
  BY ListingSorts, FS_CardinalityType DEF EventTable
<1>2. Len(rows) = n
  BY <1>1 DEF Sorts
<1>3. EventPage(E, filter, now, 1, size, mkts, quotes).total_pages = pages
  BY DEF EventPage, CountEvents
<1>4. pages \in Nat /\ n <= pages * size /\ pages * size < n + size
  BY <1>1, PagesEnough
<1>5. ASSUME NEW p \in Nat \ {0} PROVE ShowsRows(shown(p), rows, n, p, size)
  BY PageRows
<1>6. \A e, f \in S : e.external_id = f.external_id => e = f
  BY DEF EventTable
<1>. HIDE DEF S, n, rows, shown, pages
<1>7. shown(pages + 1) = <<>>
  <2>1. pages + 1 \in Nat \ {0} /\ pages + 1 - 1 = pages
    BY <1>4
  <2>. QED
    BY <1>4, <1>5, <2>1 DEF ShowsRows
<1>8. ASSUME NEW e \in S
      PROVE  \E place \in (1..pages) \X (1..size) :
               {at \in (1..pages) \X (1..size) :
                  at[2] <= Len(shown(at[1])) /\ shown(at[1])[at[2]].id = e.external_id} = {place}
  <2>1. PICK k \in 1..n : rows[k] = e
    BY <1>1, <1>2 DEF Sorts
  <2>2. PICK a \in Nat, i \in 1..size : k = a * size + i
    <3>1. k - 1 \in Nat
      OBVIOUS
    <3>2. /\ (k - 1) \div size \in Nat /\ (k - 1) % size \in 0..(size - 1)
          /\ k - 1 = ((k - 1) \div size) * size + ((k - 1) % size)
      BY <3>1
    <3>3. ((k - 1) % size) + 1 \in 1..size
      BY <3>2
    <3>4. k = ((k - 1) \div size) * size + (((k - 1) % size) + 1)
      BY <3>2
    <3>. QED
      BY <3>2, <3>3, <3>4
  <2>3. a < pages
    <3>1. CASE pages < a \/ pages = a
      <4>1. pages * size <= a * size
        BY <1>4, <3>1, PagesApart
      <4>2. a * size \in Nat /\ pages * size \in Nat
        BY <1>4
      <4>. QED
        BY <1>1, <1>4, <2>2, <4>1, <4>2
    <3>. QED
      BY <1>4, <3>1
  <2>4. a + 1 \in 1..pages /\ a + 1 \in Nat \ {0} /\ a + 1 - 1 = a
    BY <1>4, <2>3
  <2>5. i <= Len(shown(a + 1)) /\ shown(a + 1)[i].id = e.external_id
    <3>1. i <= Len(shown(a + 1))
      BY <1>1, <1>5, <2>2, <2>4 DEF ShowsRows
    <3>2. i \in 1..Len(shown(a + 1))
      BY <1>5, <2>4, <3>1 DEF ShowsRows
    <3>3. shown(a + 1)[i].id = rows[(a + 1 - 1) * size + i].external_id
      BY <1>5, <2>4, <3>2 DEF ShowsRows
    <3>4. (a + 1 - 1) * size + i = k
      BY <2>2, <2>4
    <3>. QED
      BY <2>1, <3>1, <3>3, <3>4
  <2>6. ASSUME NEW b \in 1..pages, NEW j \in 1..size,
               j <= Len(shown(b)), shown(b)[j].id = e.external_id
        PROVE  b = a + 1 /\ j = i
    <3>1. b \in Nat \ {0} /\ b - 1 \in Nat /\ j \in 1..Len(shown(b))
      BY <1>4, <1>5, <2>6 DEF ShowsRows
    <3>2. (b - 1) * size \in Nat
      BY <3>1
    <3>3. (b - 1) * size + j \in 1..n
      BY <1>1, <1>5, <2>6, <3>1, <3>2 DEF ShowsRows
    <3>4. rows[(b - 1) * size + j] \in S /\ rows[(b - 1) * size + j].external_id = e.external_id
      BY <1>1, <1>2, <1>5, <2>6, <3>1, <3>3 DEF Sorts, ShowsRows
    <3>5. rows[(b - 1) * size + j] = rows[k]
      BY <1>6, <2>1, <3>4
    <3>6. (b - 1) * size + j = a * size + i
      BY <1>1, <1>2, <2>2, <3>3, <3>5 DEF Sorts
    <3>7. ~(b - 1 < a)
      <4>1. a * size \in Nat
        OBVIOUS
      <4>. QED
        BY <3>1, <3>2, <3>6, <4>1, PagesApart
    <3>8. ~(a < b - 1)
      <4>1. a * size \in Nat
        OBVIOUS
      <4>. QED
        BY <3>1, <3>2, <3>6, <4>1, PagesApart
    <3>9. b - 1 = a
      BY <3>1, <3>7, <3>8
    <3>. QED
      BY <3>1, <3>2, <3>6, <3>9
  <2>. WITNESS <<a + 1, i>> \in (1..pages) \X (1..size)
  <2>. QED
    BY <2>4, <2>5, <2>6
<1>. QED
  BY <1>3, <1>7, <1>8 DEF S, n, rows, shown, pages

-----------------------------------------------------------------------------
\* A sum over the subsets of B, an element at a time.
Sums(sum, B, w) ==
    sum = [s \in SUBSET B |->
             IF s = {} THEN 0
             ELSE w[CHOOSE x \in s : TRUE] + sum[s \ {CHOOSE x \in s : TRUE}]]

\* Such a sum exists: if it did not for subsets of some size, it would for all
\* smaller ones.
LEMMA SumExists ==
  ASSUME NEW B, IsFiniteSet(B), NEW w
  PROVE  \E sum : Sums(sum, B, w)
<1>. DEFINE one(s)  == CHOOSE x \in s : TRUE
            rest(s) == s \ {one(s)}
            At(sum, s) == sum[s] = IF s = {} THEN 0 ELSE w[one(s)] + sum[rest(s)]
            UpTo(n) == \E sum : \A s \in SUBSET B : Cardinality(s) <= n => At(sum, s)
            Wrong == {n \in Nat : ~UpTo(n)}
<1>1. ASSUME NEW s \in SUBSET B
      PROVE  /\ Cardinality(s) \in Nat
             /\ Cardinality(s) = 0 <=> s = {}
             /\ s # {} => rest(s) \in SUBSET B /\ Cardinality(rest(s)) = Cardinality(s) - 1
  <2>1. IsFiniteSet(s)
    BY FS_Subset
  <2>2. s # {} => one(s) \in s
    OBVIOUS
  <2>. HIDE DEF one
  <2>. QED
    BY <2>1, <2>2, FS_CardinalityType, FS_EmptySet, FS_RemoveElement
<1>. HIDE DEF one, rest
<1>2. UpTo(0)
  <2>1. \A s \in SUBSET B : Cardinality(s) <= 0 => At([t \in SUBSET B |-> 0], s)
    BY <1>1
  <2>. QED
    BY <2>1
<1>3. ASSUME NEW n \in Nat, UpTo(n) PROVE UpTo(n + 1)
  <2>1. PICK sum : \A s \in SUBSET B : Cardinality(s) <= n => At(sum, s)
    BY <1>3
  <2>. DEFINE next == [s \in SUBSET B |-> IF Cardinality(s) <= n THEN sum[s]
                                         ELSE w[one(s)] + sum[rest(s)]]
  <2>2. \A s \in SUBSET B : Cardinality(s) <= n => next[s] = sum[s]
    OBVIOUS
  <2>3. \A s \in SUBSET B : ~(Cardinality(s) <= n) => next[s] = w[one(s)] + sum[rest(s)]
    OBVIOUS
  <2>. HIDE DEF next
  <2>4. ASSUME NEW s \in SUBSET B, Cardinality(s) <= n + 1 PROVE At(next, s)
    <3>1. CASE s = {}
      BY <1>1, <2>1, <2>2, <3>1
    <3>2. CASE s # {}
      <4>1. rest(s) \in SUBSET B /\ Cardinality(rest(s)) <= n
        BY <1>1, <2>4, <3>2
      <4>2. next[rest(s)] = sum[rest(s)]
        BY <2>2, <4>1
      <4>3. next[s] = w[one(s)] + sum[rest(s)]
        BY <2>1, <2>2, <2>3, <3>2
      <4>. QED
        BY <3>2, <4>2, <4>3
    <3>. QED
      BY <3>1, <3>2
  <2>. QED
    BY <2>4
<1>4. UpTo(Cardinality(B))
  <2>. HIDE DEF UpTo
  <2>1. Cardinality(B) \in Nat
    BY FS_CardinalityType
  <2>. SUFFICES ASSUME ~UpTo(Cardinality(B)) PROVE FALSE
    OBVIOUS
  <2>2. PICK n \in Wrong : \A m \in Wrong : n <= m
    <3>1. Wrong # {} /\ Wrong \subseteq Nat
      BY <2>1
    <3>. QED
      BY <3>1, FirstOf
  <2>3. n \in Nat /\ n # 0 /\ ~UpTo(n)
    BY <1>2, <2>2
  <2>4. n - 1 \in Nat /\ n - 1 \notin Wrong
    BY <2>2, <2>3
  <2>. QED
    BY <1>3, <2>3, <2>4
<1>5. PICK sum : \A s \in SUBSET B : Cardinality(s) <= Cardinality(B) => At(sum, s)
  BY <1>4
<1>6. \A s \in SUBSET B : At(sum, s)
  BY <1>5, FS_Subset
<1>7. Sums([s \in SUBSET B |-> sum[s]], B, w)
  <2>. DEFINE it == [s \in SUBSET B |-> sum[s]]
  <2>1. ASSUME NEW s \in SUBSET B
        PROVE  it[s] = IF s = {} THEN 0 ELSE w[one(s)] + it[rest(s)]
    BY <1>1, <1>6
  <2>2. it = [s \in SUBSET B |-> IF s = {} THEN 0 ELSE w[one(s)] + it[rest(s)]]
    <3>. HIDE DEF At
    <3>. QED
      BY <2>1
  <2>. QED
    BY <2>2 DEF Sums, one, rest
<1>. QED
  BY <1>7

\* Every a is sorted into B, at most w[b] of them under each b.
Fits(A, g, B, w) ==
    /\ IsFiniteSet(A)
    /\ \A b \in B : w[b] \in Nat
    /\ \A a \in A : g[a] \in B
    /\ \A b \in B : Cardinality({a \in A : g[a] = b}) <= w[b]

\* What is sorted into B, at most w[b] under each b, is no more than the sum.
LEMMA SumBounds ==
  ASSUME NEW B, IsFiniteSet(B), NEW w, NEW sum, Sums(sum, B, w),
         NEW A, NEW g, Fits(A, g, B, w)
  PROVE  Cardinality(A) <= sum[B]
<1>. DEFINE one(s)  == CHOOSE x \in s : TRUE
            rest(s) == s \ {one(s)}
            Under(s) == {a \in A : g[a] \in s}
            Good(s) == sum[s] \in Nat /\ Cardinality(Under(s)) <= sum[s]
            Wrong == {n \in Nat : \E s \in SUBSET B : Cardinality(s) = n /\ ~Good(s)}
<1>1. ASSUME NEW s \in SUBSET B
      PROVE  /\ Cardinality(s) \in Nat
             /\ s # {} => /\ one(s) \in s /\ one(s) \in B /\ rest(s) \in SUBSET B
                          /\ Cardinality(rest(s)) = Cardinality(s) - 1
                          /\ s = rest(s) \cup {one(s)}
  <2>1. IsFiniteSet(s)
    BY FS_Subset
  <2>2. s # {} => one(s) \in s
    OBVIOUS
  <2>. HIDE DEF one
  <2>. QED
    BY <2>1, <2>2, FS_CardinalityType, FS_RemoveElement
<1>2. ASSUME NEW s \in SUBSET B
      PROVE  sum[s] = IF s = {} THEN 0 ELSE w[one(s)] + sum[rest(s)]
  BY DEF Sums
<1>. HIDE DEF one, rest
<1>3. ASSUME NEW s PROVE IsFiniteSet(Under(s)) /\ Cardinality(Under(s)) \in Nat
  BY FS_Subset, FS_CardinalityType DEF Fits
<1>4. Good({})
  <2>1. Under({}) = {}
    OBVIOUS
  <2>2. sum[{}] = 0
    BY <1>2
  <2>. QED
    BY <2>1, <2>2, FS_EmptySet
<1>5. ASSUME NEW s \in SUBSET B, s # {}, Good(rest(s)) PROVE Good(s)
  <2>1. sum[s] = w[one(s)] + sum[rest(s)] /\ one(s) \in B /\ s = rest(s) \cup {one(s)}
    BY <1>1, <1>2, <1>5
  <2>. DEFINE F == {a \in A : g[a] = one(s)}
  <2>2. IsFiniteSet(F) /\ Cardinality(F) \in Nat /\ Cardinality(F) <= w[one(s)]
    BY <2>1, FS_Subset, FS_CardinalityType DEF Fits
  <2>3. Under(s) = Under(rest(s)) \cup F
    BY <2>1
  <2>. HIDE DEF F, Under
  <2>4. Cardinality(Under(s)) = Cardinality(Under(rest(s))) + Cardinality(F)
                                  - Cardinality(Under(rest(s)) \cap F)
    BY <1>3, <2>2, <2>3, FS_Union
  <2>5. Cardinality(Under(rest(s)) \cap F) \in Nat
    <3>1. Under(rest(s)) \cap F \in SUBSET F
      OBVIOUS
    <3>. QED
      BY <2>2, <3>1, FS_Subset, FS_CardinalityType
  <2>6. w[one(s)] \in Nat
    BY <2>1 DEF Fits
  <2>. QED
    BY <1>3, <1>5, <2>1, <2>2, <2>4, <2>5, <2>6
<1>6. Good(B)
  <2>. HIDE DEF Good
  <2>. SUFFICES ASSUME ~Good(B) PROVE FALSE
    OBVIOUS
  <2>1. PICK n \in Wrong : \A m \in Wrong : n <= m
    <3>1. Cardinality(B) \in Wrong /\ Wrong \subseteq Nat
      BY <1>1
    <3>. QED
      BY <3>1, FirstOf
  <2>2. PICK s \in SUBSET B : Cardinality(s) = n /\ ~Good(s)
    BY <2>1
  <2>3. s # {} /\ n \in Nat
    BY <1>4, <2>1, <2>2
  <2>4. Cardinality(rest(s)) \in Nat /\ Cardinality(rest(s)) = n - 1 /\ ~Good(rest(s)) /\ rest(s) \in SUBSET B
    BY <1>1, <1>5, <2>2, <2>3
  <2>5. n - 1 \in Wrong
    BY <2>4
  <2>. QED
    BY <2>1, <2>3, <2>5
<1>7. Under(B) = A
  BY DEF Fits
<1>. QED
  BY <1>6, <1>7

\* The same of the quotes shown of a set of markets.
LEMMA QuotesSummed ==
  ASSUME NEW B, IsFiniteSet(B), \A b \in B : Len(b.quotes) \in Nat,
         NEW A, IsFiniteSet(A), NEW g, \A a \in A : g[a] \in B,
         \A b \in B : Cardinality({a \in A : g[a] = b}) <= Len(b.quotes)
  PROVE  Cardinality(A) <= MapThenSumSet(LAMBDA m : Len(m.quotes), B)
<1>. DEFINE w == [b \in B |-> Len(b.quotes)]
            Recursive(sum) ==
              sum = [s \in SUBSET B |->
                       IF s = {} THEN 0
                       ELSE Len((CHOOSE x \in s : TRUE).quotes) + sum[s \ {CHOOSE x \in s : TRUE}]]
<1>1. \A s \in SUBSET B : s # {} => (CHOOSE x \in s : TRUE) \in B
  OBVIOUS
<1>2. ASSUME NEW sum PROVE Sums(sum, B, w) <=> Recursive(sum)
  <2>1. \A s \in SUBSET B : s # {} =>
          w[CHOOSE x \in s : TRUE] = Len((CHOOSE x \in s : TRUE).quotes)
    BY <1>1
  <2>. HIDE DEF w
  <2>. QED
    BY <2>1 DEF Sums
<1>3. \E sum : Recursive(sum)
  <2>. HIDE DEF w, Recursive
  <2>1. \E sum : Sums(sum, B, w)
    BY SumExists
  <2>. QED
    BY <1>2, <2>1
<1>4. PICK sum : Recursive(sum) /\ MapThenSumSet(LAMBDA m : Len(m.quotes), B) = sum[B]
  <2>1. Recursive(CHOOSE sum : Recursive(sum))
    <3>. HIDE DEF Recursive
    <3>. QED
      BY <1>3
  <2>2. MapThenSumSet(LAMBDA m : Len(m.quotes), B) = (CHOOSE sum : Recursive(sum))[B]
    BY DEF MapThenSumSet, MapThenFoldSet
  <2>. HIDE DEF Recursive
  <2>. QED
    BY <2>1, <2>2
<1>5. Sums(sum, B, w) /\ \A b \in B : w[b] \in Nat /\ w[b] = Len(b.quotes)
  BY <1>2, <1>4
<1>. HIDE DEF w, Recursive
<1>6. Fits(A, g, B, w)
  BY <1>5 DEF Fits
<1>7. Cardinality(A) <= sum[B]
  BY <1>5, <1>6, SumBounds
<1>. QED
  BY <1>4, <1>7
=============================================================================
