---------------------------- MODULE MCHandRules ----------------------------
(***************************************************************************)
(* Every hand and every table that two small decks allow: cards are drawn  *)
(* one by one, so that the reachable states are all pairs of disjoint      *)
(* multisets of cards.  The rule engine is compared with definitions that  *)
(* say what each hand type IS, instead of how it is recognised.            *)
(***************************************************************************)
EXTENDS HandRules, TLC

VARIABLES deck, hand, lastCards

vars == << deck, hand, lastCards >>

MCRank == 9..17

\* The top ranks, where straights and planes stop: K, A, 2 and the jokers.
HighDeck == [r \in MCRank |-> IF r < 13 THEN 0 ELSE IF r < 16 THEN 4 ELSE 1]

\* Long runs: straights of five and six cards, three pairs in a row.
RunDeck == [r \in MCRank |-> IF r < 12 THEN 2 ELSE IF r < 16 THEN 1 ELSE 0]

MCDeck == [r \in MCRank |-> IF r < 16 THEN 4 ELSE 1]

Init == deck \in {HighDeck, RunDeck} /\ hand = NoCards /\ lastCards = NoCards

Free(r) == deck[r] - hand[r] - lastCards[r]

DrawToHand(r) ==
  Free(r) > 0 /\ hand' = Plus(hand, One(r)) /\ UNCHANGED << deck, lastCards >>
DrawToTable(r) ==
  Free(r) > 0 /\ lastCards' = Plus(lastCards, One(r)) /\ UNCHANGED << deck, hand >>

Next == \E r \in Rank : DrawToHand(r) \/ DrawToTable(r)
Spec == Init /\ [][Next]_vars

-----------------------------------------------------------------------------
(* What the hand types are                                                 *)

Bundle(ranks, n) == [r \in Rank |-> IF r \in ranks THEN n ELSE 0]
RunOf(key, length) == key..(key + length - 1)
IsRun(key, length) == RunOf(key, length) \subseteq Rank \cap 3..14

\* core with n cards of each of k other ranks attached.
WithKickers(core, k, n) ==
  { Plus(core, Bundle(kickers, n)) :
      kickers \in {K \in SUBSET {r \in Rank : core[r] = 0} : Cardinality(K) = k} }

Runs(key, length, shortest, n) ==
  IF length >= shortest /\ IsRun(key, length)
  THEN {Bundle(RunOf(key, length), n)} ELSE {}

\* The multisets of cards that are a hand of this type, key rank and length.
Meaning(h) ==
  LET of(n) == IF h.length = 0 THEN {Bundle({h.keyRank}, n)} ELSE {}
      planes == Runs(h.keyRank, h.length, 2, 3)
      kicked(cores, k, n) == UNION {WithKickers(c, k, n) : c \in cores}
  IN  CASE h.type = "Single" -> of(1)
        [] h.type = "Pair"   -> of(2)
        [] h.type = "Trio"   -> of(3)
        [] h.type = "Bomb"   -> of(4)
        [] h.type = "Rocket" ->
             IF h.keyRank = 17 /\ h.length = 0 /\ {16, 17} \subseteq Rank
             THEN {Bundle({16, 17}, 1)} ELSE {}
        [] h.type = "TrioWithSingle" -> kicked(of(3), 1, 1)
        [] h.type = "TrioWithPair"   -> kicked(of(3), 1, 2)
        [] h.type = "FourWithTwo"    -> kicked(of(4), 2, 1) \cup kicked(of(4), 1, 2)
        [] h.type = "FourWithTwoPairs" -> kicked(of(4), 2, 2)
        [] h.type = "Straight"     -> Runs(h.keyRank, h.length, 5, 1)
        [] h.type = "PairStraight" -> Runs(h.keyRank, h.length, 3, 2)
        [] h.type = "Plane"        -> planes
        [] h.type = "PlaneWithSingles" -> kicked(planes, h.length, 1)
        [] h.type = "PlaneWithPairs"   -> kicked(planes, h.length, 2)
        [] OTHER -> {}

AllHands == [type : HandType, keyRank : Rank, length : 0..8]
Meanings == [h \in AllHands |-> Meaning(h)]
ReadHands ==
  {ParseHand(cards) : cards \in SubHands(HighDeck) \cup SubHands(RunDeck)}
    \ {EmptyHand}

-----------------------------------------------------------------------------
(* Properties                                                              *)

\* A multiset of cards has at most one meaning and ParseHand finds it: the
\* order in which the eight checks are tried (rule.go:143-158) never matters.
ParseHandIsExact ==
  lastCards = NoCards =>
    {h \in AllHands : hand \in Meanings[h]} =
      IF IsEmpty(ParseHand(hand)) THEN {} ELSE {ParseHand(hand)}

\* Beating is a strict order on the hands one deck can hold (CanBeat,
\* rule.go:164-190): no play, and no circle of plays, beats itself.
BeatingIsStrictOrder ==
  LET a == ParseHand(hand)
      b == ParseHand(lastCards)
  IN  ~IsEmpty(a) /\ ~IsEmpty(b) /\ CanBeat(a, b) =>
        /\ ~CanBeat(b, a)
        /\ \A c \in ReadHands : CanBeat(b, c) => CanBeat(a, c)

\* The rules are rules: every hand has one meaning, which ParseHand finds, and
\* no play is beaten by itself or by what it beats (rule.go:134-190).
RulesAreSound == ParseHandIsExact /\ BeatingIsStrictOrder

OnTable == lastCards = NoCards \/ ~IsEmpty(ParseHand(lastCards))

\* Searching only responses of two, four or the table's number of cards
\* (responses.go:151-164) loses no play that CanBeat would accept.
NoResponseIsMissed ==
  OnTable =>
    ListLegalResponses(hand, lastCards) =
      {c \in SubHands(hand) :
         /\ ~IsEmpty(ParseHand(c))
         /\ lastCards # NoCards => CanBeat(ParseHand(c), ParseHand(lastCards))}

\* The automatic play is the weakest legal one: of the type on the table if
\* there is one, else a bomb, else the rocket (autoplay.go:9-10), of the lowest
\* key rank. A lead is the lowest single, which the code takes without a search
\* (autoplay.go:16-30) and the order of the search would put first as well. The
\* order leaves no ties.
AutoPlayIsWeakest ==
  LET legal == ListLegalResponses(hand, lastCards)
      table == ParseHand(lastCards)
      auto  == FindSmallestBeatingCards(hand, lastCards)
  IN  OnTable =>
        /\ auto = NoCards <=> legal = {}
        /\ legal # {} => auto \in legal
        /\ \A c \in legal \ {auto} :
             LET a == ParseHand(auto)
                 h == ParseHand(c)
             IN  /\ Precedes(auto, c, table) /\ ~Precedes(c, auto, table)
                 /\ h.type = a.type => a.keyRank <= h.keyRank
                 /\ h.type = table.type => a.type = table.type
                 /\ a.type = "Rocket" => h.type # "Bomb"
                 /\ IsEmpty(table) => Size(auto) = 1

\* The search for responses, pruned as it is, answers for the rules: it finds
\* every play CanBeat accepts and puts the weakest first (responses.go:32-199,
\* autoplay.go:9-47).
ResponsesAreRight == NoResponseIsMissed /\ AutoPlayIsWeakest
=============================================================================
