-------------------------------- MODULE Deck --------------------------------
(***************************************************************************)
(* The pack of a room: cards are drawn without repetition by trying the    *)
(* numbers of a generator that is started anew, with the time in seconds,  *)
(* for every try (Card.cpp:180-294, Random.cpp:11-15).  Within a second    *)
(* every try gives the same number.                                        *)
(***************************************************************************)
EXTENDS Naturals, Sequences, FiniteSets

CONSTANTS
  CardNum,          \* m_CardNum
  Drawn,            \* cards drawn in a hand: two for each player and five
  Rands,            \* what rand() may give at the beginning of a second
  ConfigFile,       \* the ranges of pokerParse.yaml; <<>> if there is no file
  AssertsCompiled   \* whether SERVER_ASSERT evaluates its argument

ASSUME DeckAssumption ==
  /\ CardNum \in Nat \ {0, 1} /\ Drawn \in Nat \ {0}
  /\ Rands \subseteq Nat /\ Rands # {}
  /\ AssertsCompiled \in BOOLEAN
  /\ ConfigFile \in Seq([min : Nat, max : Nat, type : Nat])
  /\ \A i \in DOMAIN ConfigFile : ConfigFile[i].min <= ConfigFile[i].max

VARIABLES
  rand,        \* what srand(time(NULL)); rand() gives in this second
  generated,   \* m_GeneratedCards
  cards,       \* the cards drawn in this hand
  config       \* m_ParseConfig

vars == <<rand, generated, cards, config>>

(* CardType; a card that no range holds stays a Cover of 0 points. *)
Cover == 0
Club == 1
Diamond == 2
Spade == 3
Heart == 4
Joker == 5
NoCard == 255

RangeOf(min, max, type) == [min |-> min, max |-> max, type |-> type]

DefaultConfig ==
  <<RangeOf(0, 12, Club), RangeOf(13, 25, Heart), RangeOf(26, 39, Spade),
    RangeOf(40, 52, Diamond), RangeOf(53, 54, Joker)>>

(* The constructor calls GenParseConfig inside SERVER_ASSERT. *)
GenParseConfig ==
  IF ~AssertsCompiled THEN <<>>
  ELSE IF ConfigFile = <<>> THEN DefaultConfig
  ELSE ConfigFile

Init ==
  /\ rand \in Rands
  /\ generated = {} /\ cards = <<>>
  /\ config = GenParseConfig

RandomInt(min, max) == min + (rand % (max - min))

(* The last range that holds the card counts. *)
ParseCard_BelowMax(card) ==
  LET holds == {i \in DOMAIN config : config[i].min <= card /\ card < config[i].max}
      last == CHOOSE i \in holds : \A j \in holds : j <= i
  IN  IF holds = {} THEN [type |-> Cover, point |-> 0]
      ELSE [type |-> config[last].type, point |-> card - config[last].min + 1]

ParseCard(card) ==
  LET holds == {i \in DOMAIN config : config[i].min <= card /\ card <= config[i].max}
      last == CHOOSE i \in holds : \A j \in holds : j <= i
  IN  IF holds = {} THEN [type |-> Cover, point |-> 0]
      ELSE [type |-> config[last].type, point |-> card - config[last].min + 1]

Draws == Len(cards) < Drawn

Take(card) ==
  /\ generated' = generated \cup {card}
  /\ cards' = Append(cards, ParseCard(card))

GenerateOneCard_OneLess ==
  LET card == RandomInt(0, CardNum - 2)
  IN  /\ Draws /\ card \notin generated /\ Take(card)
      /\ UNCHANGED <<rand, config>>

(* The try that ends the loop; those before leave everything as it is.     *)
(* From an empty pack 255 is drawn.                                        *)
GenerateOneCard ==
  LET card == RandomInt(0, CardNum - 1)
  IN  /\ Draws
      /\ IF Cardinality(generated) = CardNum
           THEN cards' = Append(cards, ParseCard(NoCard)) /\ UNCHANGED generated
           ELSE card \notin generated /\ Take(card)
      /\ UNCHANGED <<rand, config>>

(* The next hand. *)
Shuffle ==
  /\ ~Draws
  /\ generated' = {} /\ cards' = <<>>
  /\ UNCHANGED <<rand, config>>

NextSecond(r) ==
  /\ rand' = r
  /\ UNCHANGED <<generated, cards, config>>

Next ==
  \/ GenerateOneCard \/ Shuffle
  \/ \E r \in Rands : NextSecond(r)

Spec == Init /\ [][Next]_vars

(* The loop tries a number of every second, and every number comes again.  *)
FairSpec ==
  /\ Spec
  /\ SF_vars(GenerateOneCard)
  /\ \A r \in Rands : WF_vars(NextSecond(r))
-----------------------------------------------------------------------------
(* No two cards of a hand look alike, and each is a card: also after the   *)
(* pack was shuffled in the same second (Card.cpp:252-256, 269-293).       *)
NoTwoAlike ==
  \A i, j \in DOMAIN cards :
    cards[i].type # Cover /\ (cards[i] = cards[j] => i = j)

(* A hand that leaves a card in the pack is dealt to the end: every draw    *)
(* finds a card at last (Card.cpp:252-255, Random.cpp:11-15).              *)
HandIsDealt == \A n \in 0 .. Drawn - 1 : (Len(cards) = n) ~> (Len(cards) = n + 1)

(* Card.cpp:249 expects the pack to be dealt out: "Out of {} cards,        *)
(* shuffle please".  A draw from a pack that still has a card gets it.     *)
LastCardComesOut ==
  (Draws /\ Cardinality(generated) < CardNum) ~> (Cardinality(generated) = CardNum \/ ~Draws)

(* Card.cpp:289: "1~13".                                                   *)
PointsInRange ==
  \A i \in DOMAIN cards : cards[i].type \notin {Cover, Joker} => cards[i].point \in 1 .. 13

(* The assertion of Card.cpp:292: no "illegal card".                       *)
CardsAreLegal == \A i \in DOMAIN cards : cards[i].type # Cover
=============================================================================
