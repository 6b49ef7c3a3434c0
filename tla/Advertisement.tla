--------------------------- MODULE Advertisement ----------------------------
\* A beacon or probe response on its way to the desktop: the observer walks its
\* information elements (advertisement() of NativeScanObservation), the store walks
\* them again before it keeps the entry (NativeScanCache), and the encoder of a
\* scan result a third time (NativeWclBeacon).  Three walks of the same bytes, each
\* with rules of its own: what one lets through the next must be able to use.
\* Tags: 0 is the SSID, 1 the rates, 2 stands for the elements that may come once
\* (HT, RSN, WPA), 3 is the DS parameter; bytes are small.
EXTENDS Naturals, Sequences, SequencesExt, FiniteSets

CONSTANTS AdSsid,  \* the longest SSID
          AdRates, \* the longest list of rates
          AdStore, \* maxIeBytes of the store
          AdDraft  \* maxIeBytes of the encoder

VARIABLES adFrame,   \* the elements' bytes, and what is known of the frame's header
          adStage,   \* how far it came
          adEntry    \* the SSID the observer found, as the store keeps it

adVars == <<adFrame, adStage, adEntry>>

AdChannel == 1
AdByte == 0..3

AdElementsOf == {<<0, 0>>, <<0, 1, 2>>, <<0, 2, 1, 1>>, <<1, 0>>, <<1, 1, 2>>, <<1, 2, 0, 0>>,
                 <<2, 0>>, <<2, 1, 0>>, <<3, 1, 1>>, <<3, 1, 2>>}
AdBuilt == {a \o b \o c : a, b \in AdElementsOf, c \in AdElementsOf \cup {<<>>}}

\* Any few bytes, and elements one after another, the last of them whole or cut.
AdFrames ==
    [ies : SeqOf(AdByte, 5) \cup {s \in AdBuilt : Len(s) <= 8}
           \cup {Front(s) : s \in {t \in AdBuilt : Len(t) \in 6..8}},
     header : BOOLEAN, draftable : BOOLEAN]

AdInit ==
    /\ adFrame \in AdFrames
    /\ adStage = "heard" /\ adEntry = <<>>

----------------------------------------------------------------------------
(* The walk                                                                *)

AdBad == [tag |-> 9, value |-> <<>>]

\* The elements from an offset on; the walk ends at one that does not fit.
\* Mutant: the length is compared with what was left before the element's header.
AdElementsLoose(b) ==
    LET n == Len(b)
        w[o \in 0..n] ==
            IF o = n THEN <<>>
            ELSE IF n - o < 2 \/ b[o + 2] > n - o THEN <<AdBad>>
            ELSE LET end == IF o + 2 + b[o + 2] > n THEN n ELSE o + 2 + b[o + 2]
                 IN  <<[tag |-> b[o + 1], value |-> SubSeq(b, o + 3, end)]>> \o w[end]
    IN  w[0]
AdElements(b) ==
    LET n == Len(b)
        w[o \in 0..n] ==
            IF o = n THEN <<>>
            ELSE IF n - o < 2 \/ b[o + 2] > n - (o + 2) THEN <<AdBad>>
            ELSE LET end == o + 2 + b[o + 2]
                 IN  <<[tag |-> b[o + 1], value |-> SubSeq(b, o + 3, end)]>> \o w[end]
    IN  w[0]

AdWhole(es) == \A i \in DOMAIN es : es[i] # AdBad
AdAll(es, tag) == {es[i].value : i \in {j \in DOMAIN es : es[j].tag = tag}}
AdOnce(es, tag) == Cardinality({i \in DOMAIN es : es[i].tag = tag}) <= 1

----------------------------------------------------------------------------
(* Three walkers                                                           *)

\* advertisement()
AdObserves(f) ==
    LET es == AdElements(f.ies)
    IN  /\ f.header /\ AdWhole(es)
        /\ \A tag \in 0..3 : AdOnce(es, tag)
        /\ \A v \in AdAll(es, 0) : Len(v) <= AdSsid
        /\ \A v \in AdAll(es, 1) : Len(v) \in 1..AdRates
        /\ \A v \in AdAll(es, 3) : v = <<AdChannel>>
        /\ AdAll(es, 0) # {} /\ AdAll(es, 1) # {}

AdObserve ==
    /\ adStage = "heard"
    /\ IF AdObserves(adFrame)
       THEN adStage' = "observed" /\ adEntry' = CHOOSE v \in AdAll(AdElements(adFrame.ies), 0) : TRUE
       ELSE adStage' = "ignored" /\ UNCHANGED adEntry
    /\ UNCHANGED adFrame

\* Store::informationElements()
AdStorable(b, ssid) ==
    LET es == AdElements(b)
    IN  /\ AdWhole(es) /\ AdOnce(es, 0)
        /\ \A v \in AdAll(es, 0) : Len(v) <= AdSsid /\ v = ssid
        /\ AdAll(es, 0) # {} \/ ssid = <<>>

\* Store::add(), as far as the elements decide.
AdAdd ==
    /\ adStage = "observed"
    /\ adStage' = IF Len(adFrame.ies) > AdStore THEN "overflow"
                  ELSE IF AdStorable(adFrame.ies, adEntry) THEN "stored" ELSE "invalid"
    /\ UNCHANGED <<adFrame, adEntry>>

\* completeIes()
\* Mutant: a hidden network's empty SSID is taken for none.
AdCompleteNamed(b, ssid) == AdStorable(b, ssid) /\ ssid # <<>>
AdComplete(b, ssid) ==
    LET es == AdElements(b)
    IN  /\ AdWhole(es) /\ AdOnce(es, 0) /\ AdAll(es, 0) # {}
        /\ \A v \in AdAll(es, 0) : Len(v) <= AdSsid /\ v = ssid

\* encode(): a channel it cannot draft, elements it cannot, or a draft.
AdEncode ==
    /\ adStage = "stored"
    /\ adStage' = IF ~adFrame.draftable THEN "unsupported"
                  ELSE IF Len(adFrame.ies) <= AdDraft /\ AdComplete(adFrame.ies, adEntry) THEN "drafted"
                  ELSE "undraftable"
    /\ UNCHANGED <<adFrame, adEntry>>

AdNext == AdObserve \/ AdAdd \/ AdEncode

AdSpec == AdInit /\ [][AdNext]_adVars

----------------------------------------------------------------------------
(* Properties                                                              *)

\* What one walker lets through, the next can use: an entry that was observed is
\* stored, or is too long for the store, and one that is stored is drafted unless it
\* is longer than a draft; a hidden network's too.
AdWalkersAgree ==
    /\ adStage # "invalid"
    /\ adStage = "undraftable" => Len(adFrame.ies) > AdDraft

\* The cuts of a frame into elements, guessed instead of walked.
AdCuts(b) ==
    {C \in SUBSET (0..(Len(b) - 1)) :
        /\ 0 \in C
        /\ \A c \in C : c + 2 <= Len(b) /\ c + 2 + b[c + 2] \in C \cup {Len(b)}
        /\ \A c \in C \ {0} : \E e \in C : c = e + 2 + b[e + 2]}
AdValueAt(b, c) == SubSeq(b, c + 3, c + 2 + b[c + 2])

\* The observer takes exactly the frames that can be cut into whole elements with one
\* SSID and one list of rates within their bounds, no second of the others and no other
\* channel than it was heard on; and it keeps the SSID of this frame.
AdObservesExactly ==
    adStage \in {"observed", "ignored"} =>
        LET b == adFrame.ies
        IN  (adStage = "observed") <=>
                /\ adFrame.header
                /\ \E C \in AdCuts(b) :
                       /\ \A tag \in 0..3 : Cardinality({c \in C : b[c + 1] = tag}) <= 1
                       /\ \E c \in C : b[c + 1] = 0 /\ Len(AdValueAt(b, c)) <= AdSsid
                                       /\ (adStage = "observed" => adEntry = AdValueAt(b, c))
                       /\ \E c \in C : b[c + 1] = 1 /\ Len(AdValueAt(b, c)) \in 1..AdRates
                       /\ \A c \in C : b[c + 1] = 3 => AdValueAt(b, c) = <<AdChannel>>

=============================================================================
