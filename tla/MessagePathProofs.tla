-------------------------- MODULE MessagePathProofs --------------------------
(***************************************************************************)
(* Proofs about MessagePath, for every set of uplinks.                     *)
(***************************************************************************)
EXTENDS MessagePath, InductionLemmas, SequenceTheorems, TLAPS

\* What is published and parsed is what the two programs make of the uplink.
Followed ==
  /\ uplink \in Uplinks
  /\ stage \in {"uplink", "queued", "parsed"}
  /\ stage = "queued" => body \in FilterMessageData(uplink) /\ id = MessageId(uplink)
  /\ stage = "parsed" => \E m \in FilterMessageData(uplink) : parsed = ParseBody(m)

\* Followed is an invariant.
LEMMA FollowedCorrect == Spec => []Followed
<1>1. Init => Followed
  BY DEF Init, Followed
<1>2. Followed /\ [Next]_vars => Followed'
  BY DEF Followed, Next, OnUplink, OnMessage, vars
<1> QED BY <1>1, <1>2, PTL DEF Spec

\* The uplink that the filter hands on unchanged is no reading, and is garbage only if
\* it was.
LEMMA OriginalParsed ==
  ASSUME NEW u
  PROVE  ParseBody(Original(u)).kind = IF u.json THEN "no_eui" ELSE "garbage"
<1>1. Original(u).json = u.json /\ Original(u).dev_eui.type = "absent"
  BY DEF Original, Absent
<1>2. ~IsString(Original(u).dev_eui)
  BY <1>1 DEF IsString
<1> QED BY <1>1, <1>2 DEF ParseBody, NoReading

\* A filtered message is garbage exactly when a string was copied that needs escaping,
\* and otherwise lacks a reading only when the uplink lacks the EUI or the time.
LEMMA FilteredParsed ==
  ASSUME NEW u
  PROVE  LET b == Filtered(u)
         IN  /\ ParseBody(b).kind = "garbage" <=> ~Escaped(u)
             /\ Escaped(u) /\ ParseBody(b).kind # "reading" =>
                  \/ ~IsString(u.dev_eui) \/ u.dev_eui.text = Nothing
                  \/ ~IsString(u.received_at)
<1> DEFINE b == Filtered(u)
<1>1. /\ b.json = Escaped(u)
      /\ b.dev_eui = StringOnly(u.dev_eui)
      /\ b.received_at = StringOnly(u.received_at)
  BY DEF Filtered
<1>2. ASSUME NEW v, IsString(v)
      PROVE  StringOnly(v) = v
  BY <1>2 DEF StringOnly
<1> HIDE DEF b
<1>3. ParseBody(b).kind \in {"garbage", "no_eui", "no_time", "reading"}
      /\ (ParseBody(b).kind = "garbage" <=> ~b.json)
      /\ (b.json /\ ParseBody(b).kind # "reading" =>
            \/ ~IsString(b.dev_eui) \/ b.dev_eui.text = Nothing
            \/ ~IsString(b.received_at))
  BY DEF ParseBody, NoReading
<1>4. ParseBody(b).kind = "garbage" <=> ~Escaped(u)
  BY <1>1, <1>3
<1>5. ASSUME Escaped(u), ParseBody(b).kind # "reading"
      PROVE  \/ ~IsString(u.dev_eui) \/ u.dev_eui.text = Nothing
             \/ ~IsString(u.received_at)
  BY <1>1, <1>2, <1>3, <1>5
<1> QED BY <1>4, <1>5 DEF b

\* An uplink is lost, whatever else it holds, only if it was not JSON, has no EUI or no
\* time, holds a string that the filter should have escaped, or a measurement of a type
\* that the filter does not expect (Producer main.cpp:27-299, Consumer main.cpp:134-232).
THEOREM LossCorrect == Spec => []LossExplained
<1>1. Followed => LossExplained
  <2> SUFFICES ASSUME Followed, stage = "parsed", parsed.kind # "reading",
                      uplink.json, ~CastsThrow(uplink.decoded_payload), Escaped(uplink)
               PROVE  \/ ~IsString(uplink.dev_eui) \/ uplink.dev_eui.text = Nothing
                      \/ ~IsString(uplink.received_at)
    BY DEF LossExplained
  <2>1. parsed = ParseBody(Filtered(uplink))
    BY DEF Followed, FilterMessageData
  <2> QED BY <2>1, FilteredParsed
<1> QED BY <1>1, FollowedCorrect, PTL

\* The Consumer meets garbage only for what was not JSON, or when the filter copied a
\* string that it should have escaped (Producer main.cpp:45-284, Consumer main.cpp:136).
THEOREM GarbageCorrect == Spec => []GarbageOnlyFromGarbage
<1>1. Followed => GarbageOnlyFromGarbage
  <2> SUFFICES ASSUME Followed, stage = "parsed", parsed.kind = "garbage", uplink.json
               PROVE  ~CastsThrow(uplink.decoded_payload) /\ ~Escaped(uplink)
    BY DEF GarbageOnlyFromGarbage
  <2>1. PICK m \in FilterMessageData(uplink) : parsed = ParseBody(m)
    BY DEF Followed
  <2>2. m # Original(uplink)
    <3> SUFFICES ASSUME m = Original(uplink) PROVE FALSE
      OBVIOUS
    <3> QED BY <2>1, OriginalParsed
  <2>3. ~CastsThrow(uplink.decoded_payload)
    BY <2>1, <2>2 DEF FilterMessageData
  <2>4. ~Escaped(uplink)
    <3> SUFFICES ASSUME Escaped(uplink) PROVE FALSE
      OBVIOUS
    <3>1. m = Filtered(uplink)
      BY <2>1, <2>2 DEF FilterMessageData
    <3> QED BY <2>1, <3>1, FilteredParsed
  <2> QED BY <2>3, <2>4
<1> QED BY <1>1, FollowedCorrect, PTL

\* A reading without a string that needs escaping is one of the filtered message.
LEMMA ReadingFiltered ==
  ASSUME Followed, stage = "parsed", parsed.kind = "reading", Escaped(uplink)
  PROVE  /\ ~CastsThrow(uplink.decoded_payload)
         /\ parsed = ParseBody(Filtered(uplink))
<1>1. PICK m \in FilterMessageData(uplink) : parsed = ParseBody(m)
  BY DEF Followed
<1>2. m # Original(uplink)
  <2> SUFFICES ASSUME m = Original(uplink) PROVE FALSE
    OBVIOUS
  <2> QED BY <1>1, OriginalParsed
<1> QED BY <1>1, <1>2 DEF FilterMessageData

-----------------------------------------------------------------------------
(* Numbers *)

\* There is a nearest number, so that Nearest is one.
LEMMA NearestIs ==
  ASSUME NEW S, S \subseteq Int, S # {}, NEW n \in Int
  PROVE  IsNearest(Nearest(n, S), n, S)
<1> DEFINE D == {Abs(k - n) : k \in S}
<1>1. \A k \in S : Abs(k - n) \in Nat
  BY DEF Abs
<1>2. PICK d \in D : \A e \in D : d <= e
  <2>1. D \subseteq Nat /\ D # {}
    BY <1>1
  <2> HIDE DEF D
  <2> QED BY <2>1, LeastNumber
<1>3. PICK m \in S : d = Abs(m - n)
  OBVIOUS
<1>4. IsNearest(m, n, S)
  BY <1>2, <1>3 DEF IsNearest
<1> QED BY <1>4 DEF Nearest

\* A number of the set is nearest only to itself.
LEMMA NearestIsExact ==
  ASSUME NEW S, S \subseteq Int, NEW n \in S, NEW k, IsNearest(k, n, S)
  PROVE  k = n
<1>1. k \in Int /\ n \in Int /\ Abs(k - n) <= Abs(n - n)
  BY DEF IsNearest
<1> QED BY <1>1 DEF Abs

\* A number that the filter writes and the parser reads as a double arrives; the filter
\* gives up on a measurement that is none.
LEMMA DoubleArrives ==
  ASSUME NEW v \in Values
  PROVE  /\ Arrives(ReadDouble(NumberOnly(v)), v)
         /\ CastsToDouble(v) => Arrives(ReadDouble(PrintDouble(v)), v)
<1>1. IsNearest(Nearest(v.number, Printed(v)), v.number, Printed(v))
  <2>1. v.number \in Int
    BY DEF Values
  <2>2. Printed(v) \subseteq Int /\ Printed(v) # {}
    BY NumbersAssumption DEF Printed
  <2> QED BY <2>1, <2>2, NearestIs
<1>2. ASSUME IsNumber(v)
      PROVE  /\ ReadDouble(PrintDouble(v)) = Nearest(v.number, Printed(v))
             /\ ReadDouble(NumberOnly(v)) = Nearest(v.number, Printed(v))
  <2>1. PrintDouble(v).type = "double" /\ PrintDouble(v).number = Nearest(v.number, Printed(v))
    BY <1>2 DEF PrintDouble, Values
  <2>2. /\ NumberOnly(v).type = v.type
        /\ NumberOnly(v).number =
             IF v.type = "double" THEN Nearest(v.number, Decimals) ELSE v.number
    BY <1>2 DEF NumberOnly, PrintNumber, Values
  <2>3. ReadDouble(PrintDouble(v)) = Nearest(v.number, Printed(v))
    BY <2>1 DEF ReadDouble
  <2>4. ReadDouble(NumberOnly(v)) = Nearest(v.number, Printed(v))
    BY <1>2, <2>2 DEF ReadDouble, IsNumber, Printed
  <2> QED BY <2>3, <2>4
<1>3. ASSUME ~IsNumber(v)
      PROVE  /\ ReadDouble(NumberOnly(v)) = Zero
             /\ CastsToDouble(v) => ReadDouble(PrintDouble(v)) = Zero
  <2>1. NumberOnly(v).type = "absent" /\ PrintDouble(v) = v
    BY <1>3 DEF NumberOnly, PrintDouble, Absent
  <2> QED BY <1>3, <2>1 DEF ReadDouble, IsNumber, CastsToDouble
<1> QED BY <1>1, <1>2, <1>3 DEF Arrives

\* An int arrives, and what is not an integer is 0.
LEMMA IntArrives ==
  ASSUME NEW v \in Values
  PROVE  /\ v.type = "int" /\ FitsInt(v.number) => ReadInt(NumberOnly(v)) = v.number
         /\ v.type # "int" => ReadInt(NumberOnly(v)) = Zero
<1>1. CASE v.type = "int"
  <2>1. NumberOnly(v).type = "int" /\ NumberOnly(v).number = v.number
    BY <1>1 DEF NumberOnly, PrintNumber, IsNumber, Values
  <2>2. ASSUME FitsInt(v.number)
        PROVE  ((v.number + IntRange \div 2) % IntRange) - IntRange \div 2 = v.number
    <3> DEFINE h == IntRange \div 2
    <3>1. h \in Nat /\ IntRange = 2 * h /\ h > 0
      BY IntRangeAssumption
    <3>2. v.number \in Int /\ v.number + h \in 0..(IntRange - 1)
      BY <2>2, <3>1 DEF FitsInt
    <3> HIDE DEF h
    <3>3. (v.number + h) % IntRange = v.number + h
      BY <3>2, IntRangeAssumption
    <3>4. ((v.number + h) % IntRange) - h = v.number
      BY <3>1, <3>2, <3>3
    <3> QED BY <3>4 DEF h
  <2> QED BY <1>1, <2>1, <2>2 DEF ReadInt
<1>2. CASE v.type # "int"
  <2>1. NumberOnly(v).type # "int"
    BY <1>2 DEF NumberOnly, PrintNumber, Absent, Values
  <2> QED BY <1>2, <2>1 DEF ReadInt
<1> QED BY <1>1, <1>2

\* A measurement that is stored is the one of the uplink, to six decimals.
LEMMA MeasurementsArrive ==
  ASSUME Followed, stage = "parsed", parsed.kind = "reading", Escaped(uplink)
  PROVE  LET p == uplink.decoded_payload
         IN  /\ CastsToDouble(p.temperature_c) /\ CastsToDouble(p.humidity)
             /\ Arrives(parsed.temperature, p.temperature_c)
             /\ Arrives(parsed.humidity, p.humidity)
<1> DEFINE p == uplink.decoded_payload
           b == Filtered(uplink)
<1>1. parsed = ParseBody(b) /\ ~CastsThrow(p)
  BY ReadingFiltered
<1>2. CastsToDouble(p.temperature_c) /\ CastsToDouble(p.humidity)
  BY <1>1 DEF CastsThrow
<1>3. b.temperature_c = PrintDouble(p.temperature_c) /\ b.humidity = PrintDouble(p.humidity)
  BY DEF Filtered
<1>4. p.temperature_c \in Values /\ p.humidity \in Values
  BY UplinksAssumption DEF Followed, Uplink, Payloads
<1> HIDE DEF b, p
<1>5. parsed.temperature = ReadDouble(b.temperature_c) /\ parsed.humidity = ReadDouble(b.humidity)
  BY <1>1 DEF ParseBody, NoReading
<1> QED BY <1>2, <1>3, <1>4, <1>5, DoubleArrives DEF p

\* Unless a string should have been escaped, a measurement is stored as it was measured,
\* to six decimals, and as 0 without having been measured only if the uplink lacks it
\* (Producer main.cpp:62-83, Consumer main.cpp:146-220).
THEOREM MeasurementsCorrect == Spec => []MeasurementsKept
<1>1. Followed => MeasurementsKept
  BY MeasurementsArrive DEF MeasurementsKept, CastsToDouble
<1> QED BY <1>1, FollowedCorrect, PTL

-----------------------------------------------------------------------------
(* The loop over a list of gateways *)

\* f holds what the loop has kept after each of the first n entries.
Kept(f, entries, n) ==
  f = [i \in 0..n |-> IF i = 0 THEN <<>> ELSE Keep(f[i - 1], entries[i])]

\* The loop has a result after any number of entries.
LEMMA KeptExists ==
  ASSUME NEW entries
  PROVE  \A n \in Nat : \E f : Kept(f, entries, n)
<1> DEFINE S == {n \in Nat : \E f : Kept(f, entries, n)}
<1>1. 0 \in S
  <2>1. Kept([i \in 0..0 |-> <<>>], entries, 0)
    BY DEF Kept
  <2> QED BY <2>1
<1>2. ASSUME NEW n \in Nat, n \in S
      PROVE  n + 1 \in S
  <2>1. PICK f : Kept(f, entries, n)
    BY <1>2
  <2> DEFINE g == [i \in 0..(n + 1) |-> IF i = n + 1 THEN Keep(f[n], entries[n + 1]) ELSE f[i]]
             h == [i \in 0..(n + 1) |-> IF i = 0 THEN <<>> ELSE Keep(g[i - 1], entries[i])]
  <2>2. ASSUME NEW i \in 0..(n + 1)
        PROVE  g[i] = h[i]
    <3>1. CASE i = n + 1
      BY <3>1
    <3>2. CASE i \in 0..n
      <4>1. f[i] = IF i = 0 THEN <<>> ELSE Keep(f[i - 1], entries[i])
        BY <2>1, <3>2 DEF Kept
      <4>2. g[i] = f[i] /\ (i # 0 => g[i - 1] = f[i - 1])
        BY <3>2
      <4> QED BY <4>1, <4>2
    <3> QED BY <3>1, <3>2
  <2>3. g = h
    BY <2>2
  <2>4. Kept(g, entries, n + 1)
    BY <2>3 DEF Kept
  <2> QED BY <2>4
<1> HIDE DEF S
<1>3. \A n \in Nat : n \in S
  BY <1>1, <1>2, SetInduction
<1> QED BY <1>3 DEF S

\* WithEui is what the loop has kept at its end.
LEMMA KeptAtEnd ==
  ASSUME NEW R, NEW entries \in Seq(R)
  PROVE  \E f : Kept(f, entries, Len(entries)) /\ WithEui(entries) = f[Len(entries)]
<1> DEFINE f == CHOOSE f : Kept(f, entries, Len(entries))
<1>1. Kept(f, entries, Len(entries))
  BY KeptExists
<1>2. WithEui(entries) = f[Len(entries)]
  BY DEF WithEui, Kept
<1> QED BY <1>1, <1>2

\* What is kept are entries of the list, each with an EUI.
LEMMA KeptHasEui ==
  ASSUME NEW R, NEW entries \in Seq(R)
  PROVE  WithEui(entries) \in Seq({r \in R : IsString(r.eui)})
<1> DEFINE Named == {r \in R : IsString(r.eui)}
           N == Len(entries)
<1>1. PICK f : Kept(f, entries, N) /\ WithEui(entries) = f[N]
  BY KeptAtEnd
<1> DEFINE S == {n \in 0..N : f[n] \in Seq(Named)}
<1>2. N \in Nat
  OBVIOUS
<1>3. 0 \in S
  BY <1>1, <1>2 DEF Kept
<1>4. ASSUME NEW n \in 0..N, n \in S, n < N
      PROVE  n + 1 \in S
  <2>1. f[n + 1] = Keep(f[n], entries[n + 1])
    BY <1>1, <1>2, <1>4 DEF Kept
  <2>2. entries[n + 1] \in R
    BY <1>4
  <2>3. f[n + 1] \in Seq(Named)
    BY <1>4, <2>1, <2>2, AppendProperties DEF Keep
  <2> QED BY <1>4, <2>3
<1> HIDE DEF S
<1>5. N \in S
  <2> HIDE DEF N
  <2>1. \A n \in 0..N : n \in S
    BY <1>2, <1>3, <1>4, BoundedInduction
  <2> QED BY <1>2, <2>1
<1> QED BY <1>1, <1>5 DEF S

\* A list in which all entries have an EUI is kept as it is.
LEMMA AllKept ==
  ASSUME NEW R, NEW entries \in Seq(R), \A i \in DOMAIN entries : IsString(entries[i].eui)
  PROVE  WithEui(entries) = entries
<1> DEFINE N == Len(entries)
<1>1. PICK f : Kept(f, entries, N) /\ WithEui(entries) = f[N]
  BY KeptAtEnd
<1> DEFINE S == {n \in 0..N : /\ f[n] \in Seq(R) /\ Len(f[n]) = n
                              /\ \A i \in 1..n : f[n][i] = entries[i]}
<1>2. N \in Nat
  OBVIOUS
<1>3. 0 \in S
  BY <1>1, <1>2 DEF Kept
<1>4. ASSUME NEW n \in 0..N, n \in S, n < N
      PROVE  n + 1 \in S
  <2>1. entries[n + 1] \in R /\ IsString(entries[n + 1].eui)
    BY <1>4
  <2>2. f[n + 1] = Append(f[n], entries[n + 1])
    BY <1>1, <1>2, <1>4, <2>1 DEF Kept, Keep
  <2>3. f[n + 1] \in Seq(R) /\ Len(f[n + 1]) = n + 1
    BY <1>4, <2>1, <2>2, AppendProperties
  <2>4. \A i \in 1..(n + 1) : f[n + 1][i] = entries[i]
    BY <1>4, <2>1, <2>2, AppendProperties
  <2> QED BY <1>4, <2>3, <2>4
<1> HIDE DEF S
<1>5. N \in S
  <2> HIDE DEF N
  <2>1. \A n \in 0..N : n \in S
    BY <1>2, <1>3, <1>4, BoundedInduction
  <2> QED BY <1>2, <2>1
<1>6. f[N] \in Seq(R) /\ Len(f[N]) = N /\ \A i \in 1..N : f[N][i] = entries[i]
  BY <1>5 DEF S
<1> QED BY <1>1, <1>6, SeqEqual

-----------------------------------------------------------------------------
(* Gateways *)

\* What the filter writes of a gateway.
Entry(r) == [eui |-> r.eui, rssi |-> NumberOnly(r.rssi), snr |-> NumberOnly(r.snr)]

\* The list that the filter writes: one entry per gateway with an EUI, all of which the
\* parser keeps.
LEMMA FilteredGateways ==
  ASSUME NEW rx \in Seq(Receptions)
  PROVE  /\ FilterGateways(rx) = [i \in DOMAIN WithEui(rx) |-> Entry(WithEui(rx)[i])]
         /\ WithEui(FilterGateways(rx)) = FilterGateways(rx)
         /\ DOMAIN FilterGateways(rx) = DOMAIN WithEui(rx)
<1> DEFINE w == WithEui(rx)
           g == [i \in DOMAIN w |-> Entry(w[i])]
           E == {Entry(r) : r \in Receptions}
<1>1. FilterGateways(rx) = g
  BY DEF FilterGateways, Entry
<1>2. w \in Seq({r \in Receptions : IsString(r.eui)})
  BY KeptHasEui
<1> HIDE DEF w
<1>3. Len(w) \in Nat /\ DOMAIN w = 1..Len(w)
      /\ \A i \in DOMAIN w : w[i] \in Receptions /\ IsString(w[i].eui)
  BY <1>2
<1>4. g \in Seq(E)
  <2>1. \A i \in 1..Len(w) : Entry(w[i]) \in E
    BY <1>3
  <2>2. g \in [1..Len(w) -> E]
    BY <1>3, <2>1
  <2> QED BY <1>3, <2>2
<1>5. \A i \in DOMAIN g : IsString(g[i].eui)
  BY <1>3 DEF Entry
<1> HIDE DEF g, E
<1>6. WithEui(g) = g
  BY <1>4, <1>5, AllKept
<1> QED BY <1>1, <1>6 DEF g, w

\* A reading without a string that needs escaping has one gateway for each that the uplink
\* has and that has an EUI.
LEMMA GatewaysParsed ==
  ASSUME Followed, stage = "parsed", parsed.kind = "reading", Escaped(uplink)
  PROVE  LET w == WithEui(uplink.rx_metadata)
         IN  /\ w \in Seq(Receptions)
             /\ parsed.gateways = [i \in DOMAIN w |-> ReadGateway(Entry(w[i]))]
<1> DEFINE rx == uplink.rx_metadata
           w == WithEui(rx)
           b == Filtered(uplink)
           g == FilterGateways(rx)
<1>1. rx \in Seq(Receptions)
  BY UplinksAssumption DEF Followed, Uplink
<1>2. w \in Seq(Receptions)
  <2>1. w \in Seq({r \in Receptions : IsString(r.eui)})
    BY <1>1, KeptHasEui
  <2> HIDE DEF w
  <2> QED BY <2>1
<1>3. parsed = ParseBody(b)
  BY ReadingFiltered
<1>4. b.gateway_ids = g
  BY DEF Filtered
<1>5. WithEui(g) = g /\ g = [i \in DOMAIN w |-> Entry(w[i])] /\ DOMAIN g = DOMAIN w
  BY <1>1, FilteredGateways
<1> HIDE DEF b, g, w
<1>6. parsed.gateways = ReadGateways(g)
  BY <1>3, <1>4 DEF ParseBody, NoReading
<1>7. ReadGateways(g) = [i \in DOMAIN w |-> ReadGateway(Entry(w[i]))]
  BY <1>5 DEF ReadGateways
<1> QED BY <1>2, <1>6, <1>7 DEF w

\* What the Consumer stores of the gateways is what the uplink says of them, as far as its
\* types can tell it and whatever is odd about some: the filter drops, repeats, moves or
\* mixes up none (Producer main.cpp:217-273, Consumer main.cpp:168-206).
THEOREM GatewaysCorrect == Spec => []FilterKeepsGateways
<1>1. Followed => FilterKeepsGateways
  <2> SUFFICES ASSUME Followed, stage = "parsed", parsed.kind = "reading", Escaped(uplink)
               PROVE  LET heard == WithEui(uplink.rx_metadata)
                      IN  /\ Len(parsed.gateways) = Len(heard)
                          /\ \A i \in DOMAIN heard :
                               /\ parsed.gateways[i].gateway_id = heard[i].eui.text
                               /\ heard[i].rssi.type = "int" /\ FitsInt(heard[i].rssi.number) =>
                                    parsed.gateways[i].rssi = heard[i].rssi.number
                               /\ heard[i].rssi.type # "int" => parsed.gateways[i].rssi = Zero
                               /\ Arrives(parsed.gateways[i].snr, heard[i].snr)
    BY DEF FilterKeepsGateways
  <2> DEFINE heard == WithEui(uplink.rx_metadata)
  <2>1. /\ heard \in Seq(Receptions)
        /\ parsed.gateways = [i \in DOMAIN heard |-> ReadGateway(Entry(heard[i]))]
    BY GatewaysParsed
  <2> HIDE DEF heard
  <2>2. Len(parsed.gateways) = Len(heard)
    BY <2>1
  <2>3. ASSUME NEW i \in DOMAIN heard
        PROVE  /\ parsed.gateways[i].gateway_id = heard[i].eui.text
               /\ parsed.gateways[i].rssi = ReadInt(NumberOnly(heard[i].rssi))
               /\ parsed.gateways[i].snr = ReadDouble(NumberOnly(heard[i].snr))
               /\ heard[i].rssi \in Values /\ heard[i].snr \in Values
    <3>1. heard[i] \in Receptions
      BY <2>1
    <3> QED BY <2>1, <3>1 DEF ReadGateway, Entry, Receptions
  <2> QED BY <2>2, <2>3, IntArrives, DoubleArrives DEF heard
<1> QED BY <1>1, FollowedCorrect, PTL

-----------------------------------------------------------------------------
(* Well-formed uplinks *)

\* The filter does not give up on a well-formed uplink, and copies no string that it
\* should have escaped.
LEMMA WellFormedFiltered ==
  ASSUME NEW u, WellFormed(u)
  PROVE  FilterMessageData(u) = {Filtered(u)} /\ Escaped(u)
<1>1. ~CastsThrow(u.decoded_payload)
  BY DEF WellFormed, Exact, CastsThrow, CastsToDouble, CastsToInt64, IsNumber
<1>2. Escaped(u)
  <2> SUFFICES ASSUME NEW v \in CopiedStrings(u) PROVE v.type # "text"
    BY DEF Escaped
  <2>1. IsString(v)
    BY DEF CopiedStrings
  <2>2. CASE v \in {u.dev_eui, u.received_at}
    BY <2>2 DEF WellFormed, Plain
  <2>3. CASE v = u.decoded_payload.last_updated
    BY <2>1, <2>3 DEF WellFormed, IsString
  <2>4. CASE v \in {u.rx_metadata[i].eui : i \in DOMAIN u.rx_metadata}
    BY <2>4 DEF WellFormed, Plain
  <2> QED BY <2>2, <2>3, <2>4 DEF CopiedStrings
<1> QED BY <1>1, <1>2 DEF FilterMessageData, WellFormed

\* An exact number arrives as it is.
LEMMA ExactArrives ==
  ASSUME NEW v, Exact(v), NEW k, Arrives(k, v)
  PROVE  k = v.number
<1>1. IsNumber(v)
  BY DEF Exact, IsNumber
<1>2. IsNearest(k, v.number, Printed(v)) /\ v.number \in Printed(v)
  BY <1>1 DEF Arrives, Exact
<1>3. Printed(v) \subseteq Int
  BY NumbersAssumption DEF Printed
<1> QED BY <1>2, <1>3, NearestIsExact

\* The two programs agree on the format of a message: a well-formed uplink is parsed to
\* the measurements it carries, and to each of its gateways in order with its own signal
\* (Producer main.cpp:41-293, Consumer main.cpp:142-232).
THEOREM ReadingIntactCorrect == Spec => []ReadingArrivesIntact
<1>1. Followed => ReadingArrivesIntact
  <2> SUFFICES ASSUME Followed, stage = "parsed", WellFormed(uplink)
               PROVE  /\ parsed.kind = "reading"
                      /\ parsed.dev_eui = uplink.dev_eui.text
                      /\ parsed.received_at = uplink.received_at.text
                      /\ parsed.temperature = uplink.decoded_payload.temperature_c.number
                      /\ parsed.humidity = uplink.decoded_payload.humidity.number
                      /\ Len(parsed.gateways) = Len(uplink.rx_metadata)
                      /\ \A i \in DOMAIN uplink.rx_metadata :
                           parsed.gateways[i] =
                             [gateway_id |-> uplink.rx_metadata[i].eui.text,
                              rssi |-> uplink.rx_metadata[i].rssi.number,
                              snr |-> uplink.rx_metadata[i].snr.number]
    BY DEF ReadingArrivesIntact
  <2> DEFINE b == Filtered(uplink)
             p == uplink.decoded_payload
             rx == uplink.rx_metadata
  <2>1. parsed = ParseBody(b) /\ Escaped(uplink) /\ b.json
    BY WellFormedFiltered DEF Followed, Filtered
  <2>2. /\ IsString(uplink.dev_eui) /\ uplink.dev_eui.text # Nothing
        /\ IsString(uplink.received_at)
    BY DEF WellFormed, Plain, IsString
  <2>3. b.dev_eui = uplink.dev_eui /\ b.received_at = uplink.received_at
    BY <2>2 DEF Filtered, StringOnly
  <2>4. /\ parsed.kind = "reading"
        /\ parsed.dev_eui = uplink.dev_eui.text /\ parsed.received_at = uplink.received_at.text
    <3> HIDE DEF b
    <3> QED BY <2>1, <2>2, <2>3 DEF ParseBody
  <2>5. parsed.temperature = p.temperature_c.number /\ parsed.humidity = p.humidity.number
    <3>1. Arrives(parsed.temperature, p.temperature_c) /\ Arrives(parsed.humidity, p.humidity)
      BY <2>1, <2>4, MeasurementsArrive
    <3>2. Exact(p.temperature_c) /\ Exact(p.humidity)
      BY DEF WellFormed
    <3> QED BY <3>1, <3>2, ExactArrives
  <2>6. rx \in Seq(Receptions) /\ WithEui(rx) = rx
    <3>1. rx \in Seq(Receptions)
      BY UplinksAssumption DEF Followed, Uplink
    <3>2. \A i \in DOMAIN rx : IsString(rx[i].eui)
      BY DEF WellFormed, Plain, IsString
    <3> QED BY <3>1, <3>2, AllKept
  <2>7. parsed.gateways = [i \in DOMAIN rx |-> ReadGateway(Entry(rx[i]))]
    BY <2>1, <2>4, <2>6, GatewaysParsed
  <2>8. Len(parsed.gateways) = Len(rx)
    BY <2>6, <2>7
  <2>9. ASSUME NEW i \in DOMAIN rx
        PROVE  parsed.gateways[i] = [gateway_id |-> rx[i].eui.text,
                                     rssi |-> rx[i].rssi.number, snr |-> rx[i].snr.number]
    <3> DEFINE r == rx[i]
    <3>1. r.rssi \in Values /\ r.snr \in Values
      <4>1. r \in Receptions
        BY <2>6
      <4> HIDE DEF r
      <4> QED BY <4>1 DEF Receptions
    <3>2. r.rssi.type = "int" /\ FitsInt(r.rssi.number) /\ Exact(r.snr)
      BY DEF WellFormed
    <3>3. parsed.gateways[i] = ReadGateway(Entry(r))
      BY <2>7
    <3> HIDE DEF r
    <3>4. ReadInt(NumberOnly(r.rssi)) = r.rssi.number
      BY <3>1, <3>2, IntArrives
    <3>5. ReadDouble(NumberOnly(r.snr)) = r.snr.number
      BY <3>1, <3>2, DoubleArrives, ExactArrives
    <3>6. ReadGateway(Entry(r)) = [gateway_id |-> r.eui.text, rssi |-> r.rssi.number,
                                   snr |-> r.snr.number]
      BY <3>4, <3>5 DEF ReadGateway, Entry
    <3> QED BY <3>3, <3>6 DEF r
  <2> QED BY <2>4, <2>5, <2>8, <2>9
<1> QED BY <1>1, FollowedCorrect, PTL

-----------------------------------------------------------------------------
(* Message ids *)

\* An id that was found is the string in the first of the places that has one.
LEMMA FirstFoundIn ==
  ASSUME NEW u, Found(u) # {}
  PROVE  FirstFound(u) \in Found(u)
<1>1. Found(u) \subseteq Nat
  BY DEF Found
<1>2. \E i \in Found(u) : \A j \in Found(u) : i <= j
  BY <1>1, LeastNumber
<1> QED BY <1>2 DEF FirstFound

\* Two JSON uplinks with the same id have a string in common.
LEMMA SameIdShared ==
  ASSUME NEW u, NEW w, u.json, w.json, w # u, MessageId(w) = MessageId(u)
  PROVE  \E i, j \in 1..3 : /\ IsString(IdPlaces(w)[i]) /\ IsString(IdPlaces(u)[j])
                            /\ IdPlaces(w)[i].text = IdPlaces(u)[j].text
<1> DEFINE idOf(x) == IdPlaces(x)[FirstFound(x)].text
<1>1. ASSUME NEW x, x.json
      PROVE  MessageId(x) = IF Found(x) # {} THEN <<idOf(x)>> ELSE <<"hash", x>>
  BY <1>1 DEF MessageId
<1>2. Found(u) # {} /\ Found(w) # {} /\ idOf(u) = idOf(w)
  <2> HIDE DEF idOf
  <2>1. \A a, c, d, e, f : <<a>> # <<c, d>> /\ (<<a>> = <<f>> => a = f)
                          /\ (<<c, d>> = <<c, e>> => d = e)
    OBVIOUS
  <2> QED BY <1>1, <2>1
<1>3. FirstFound(u) \in Found(u) /\ FirstFound(w) \in Found(w)
  BY <1>2, FirstFoundIn
<1>4. /\ FirstFound(u) \in 1..3 /\ IsString(IdPlaces(u)[FirstFound(u)])
      /\ FirstFound(w) \in 1..3 /\ IsString(IdPlaces(w)[FirstFound(w)])
  BY <1>3 DEF Found
<1> QED BY <1>2, <1>4

\* No two JSON uplinks end up under a common default id: that two share one means that
\* they share a string at one of the three places where the Producer looks for an id
\* (Producer main.cpp:409-470).
THEOREM IdsCorrect == Spec => []IdsTellUplinksApart
<1>1. Followed => IdsTellUplinksApart
  BY SameIdShared DEF Followed, IdsTellUplinksApart
<1> QED BY <1>1, FollowedCorrect, PTL

=============================================================================
