-------------------------- MODULE RdmResponderProof --------------------------
(***************************************************************************)
(* Proofs about RdmResponder, for every universe size, footprint, label,   *)
(* pattern and number of sub-devices.                                      *)
(***************************************************************************)
EXTENDS RdmResponder, TLAPS

\* s_is_on of the firmware: the pattern before is saved while, and only
\* while, the device identifies itself.
IdentifyFlag == identify.on <=> identify.enabled /\ identify.mode = "loud"

Invariants ==
  TypeOK /\ OnePixelSource /\ IdentifyFlag /\ AddressAgrees /\ OutputFollows
         /\ LabelStored

\* A sub-device, as TypeOK has it.
Sub == [address : Addresses, personality : 1 .. SubPersonalities, label : Labels,
        isDefaults : BOOLEAN]

\* The power-up establishes the invariants, whatever the store holds.
LEMMA BootInvariants ==
  ASSUME NEW l \in Labels \cup {NoLabel}, NEW pat \in Patterns,
         NEW px \in [address : Addresses, footprint : Footprints], NEW mode \in BOOLEAN
  PROVE  /\ BootDevice(l, px) \in
              [personality : Personalities, address : Addresses,
               footprint : Footprints \cup {ConfigFootprint}, label : Labels,
               labelSum : Nat, isDefaults : BOOLEAN, sum : Nat]
         /\ BootReceiver(pat, mode) \in
              [type : {"pixel", "config"}, active : BOOLEAN,
               started : BOOLEAN, disabled : BOOLEAN]
         /\ BootIdentify \in
              [enabled : BOOLEAN, mode : {"quiet", "loud"}, on : BOOLEAN,
               saved : Patterns]
         /\ [s \in SubDevices |-> NewSub] \in
              [SubDevices -> [address : Addresses, personality : 1 .. SubPersonalities,
                              label : Labels, isDefaults : BOOLEAN]]
<1>1. px.address \in Nat /\ 1 \in Addresses /\ 1 \in 1 .. SubPersonalities
  BY ResponderAssumption DEF Addresses
<1>2. BootDevice(l, px) \in
        [personality : Personalities, address : Addresses,
         footprint : Footprints \cup {ConfigFootprint}, label : Labels,
         labelSum : Nat, isDefaults : BOOLEAN, sum : Nat]
  <2>1. (IF l = NoLabel THEN DefaultLabel ELSE l) \in Labels
    BY ResponderAssumption
  <2>2. (IF l = NoLabel THEN LabelSum[DefaultLabel] ELSE 0) \in Nat
    BY ResponderAssumption
  <2> QED
    BY <1>1, <2>1, <2>2 DEF BootDevice, Personalities, PersonalityCount
<1>3. BootReceiver(pat, mode) \in
        [type : {"pixel", "config"}, active : BOOLEAN,
         started : BOOLEAN, disabled : BOOLEAN]
  BY DEF BootReceiver
<1>4. BootIdentify \in
        [enabled : BOOLEAN, mode : {"quiet", "loud"}, on : BOOLEAN, saved : Patterns]
  BY DEF BootIdentify, Patterns
<1>5. NewSub \in [address : Addresses, personality : 1 .. SubPersonalities,
                  label : Labels, isDefaults : BOOLEAN]
  BY <1>1, ResponderAssumption DEF NewSub, StartAddressDefault
<1> QED
  BY <1>2, <1>3, <1>4, <1>5

LEMMA InitInvariants == Init => Invariants
<1> SUFFICES ASSUME Init PROVE Invariants
  OBVIOUS
<1>1. TypeOK
  BY BootInvariants DEF Init, TypeOK
<1>2. OnePixelSource /\ IdentifyFlag /\ OutputFollows
  BY DEF Init, OnePixelSource, IdentifyFlag, OutputFollows, BootReceiver, BootIdentify
<1>3. AddressAgrees
  BY DEF Init, AddressAgrees, BootDevice, BootReceiver, AddressOf, FootprintOf, OutputOf
<1>4. LabelStored
  BY DEF Init, LabelStored, BootDevice
<1> QED
  BY <1>1, <1>2, <1>3, <1>4 DEF Invariants

LEMMA BootStep ==
  ASSUME Boot, stored' \in [label : Labels \cup {NoLabel}, pattern : Patterns],
         pixel' \in [address : Addresses, footprint : Footprints]
  PROVE  Invariants'
<1>1. TypeOK'
  BY BootInvariants DEF Boot, TypeOK
<1>2. (OnePixelSource /\ IdentifyFlag /\ OutputFollows)'
  BY DEF Boot, OnePixelSource, IdentifyFlag, OutputFollows, BootReceiver, BootIdentify
<1>3. AddressAgrees'
  BY DEF Boot, AddressAgrees, BootDevice, BootReceiver, AddressOf, FootprintOf, OutputOf
<1>4. LabelStored'
  BY DEF Boot, LabelStored, BootDevice
<1> QED
  BY <1>1, <1>2, <1>3, <1>4 DEF Invariants

\* A request that selects a pattern and the receiver's switch with it keeps
\* the invariants, when it keeps the one source and shows the identify.
LEMMA PatternStep ==
  ASSUME Invariants,
         identify' \in [enabled : BOOLEAN, mode : {"quiet", "loud"}, on : BOOLEAN,
                        saved : Patterns],
         pattern' \in Patterns, NEW d \in BOOLEAN,
         receiver' = [receiver EXCEPT !.disabled = d],
         UNCHANGED <<device, subs, pixel, stored, configMode, halted>>,
         OnePixelSource', IdentifyFlag'
  PROVE  Invariants'
<1>1. receiver' \in [type : {"pixel", "config"}, active : BOOLEAN,
                     started : BOOLEAN, disabled : BOOLEAN]
  BY DEF Invariants, TypeOK
<1>2. TypeOK'
  BY <1>1 DEF Invariants, TypeOK
<1>3. receiver'.type = receiver.type /\ receiver'.active = receiver.active
      /\ receiver'.started = receiver.started
  BY DEF Invariants, TypeOK
<1>4. AddressAgrees' /\ OutputFollows' /\ LabelStored'
  BY <1>3 DEF Invariants, AddressAgrees, OutputFollows, LabelStored, AddressOf, FootprintOf
<1> QED
  BY <1>2, <1>4 DEF Invariants

LEMMA IdentifyOnStep ==
  ASSUME Invariants, NEW e \in BOOLEAN, NEW m \in {"quiet", "loud"},
         IdentifyOn(e, m), m = "loud" => e, m = "quiet" => identify.mode = "quiet",
         UNCHANGED <<device, subs, pixel, stored, configMode, halted>>
  PROVE  Invariants'
<1>1. CASE m = "loud" /\ ~identify.on
  <2>1. /\ identify' = [enabled |-> e, mode |-> m, on |-> TRUE, saved |-> pattern]
        /\ pattern' = "fade"
        /\ receiver' = [receiver EXCEPT !.disabled = TRUE]
    BY <1>1 DEF IdentifyOn
  <2>2. receiver'.disabled
    BY <2>1 DEF Invariants, TypeOK
  <2>3. OnePixelSource' /\ IdentifyFlag'
    BY <1>1, <2>1, <2>2 DEF OnePixelSource, IdentifyFlag
  <2>4. pattern \in Patterns /\ "fade" \in Patterns
    BY DEF Invariants, TypeOK, Patterns
  <2> QED
    BY <2>1, <2>3, <2>4, PatternStep
<1>2. CASE ~(m = "loud" /\ ~identify.on)
  <2>1. /\ identify' = [identify EXCEPT !.enabled = e, !.mode = m]
        /\ UNCHANGED <<pattern, receiver>>
    BY <1>2 DEF IdentifyOn
  <2>2. /\ identify'.enabled = e /\ identify'.mode = m /\ identify'.on = identify.on
        /\ identify' \in [enabled : BOOLEAN, mode : {"quiet", "loud"}, on : BOOLEAN,
                          saved : Patterns]
    BY <2>1 DEF Invariants, TypeOK
  <2>3. IdentifyFlag' /\ OnePixelSource'
    BY <1>2, <2>1, <2>2 DEF Invariants, IdentifyFlag, OnePixelSource
  <2>4. TypeOK'
    BY <2>1, <2>2 DEF Invariants, TypeOK
  <2>5. AddressAgrees' /\ OutputFollows' /\ LabelStored'
    BY <2>1 DEF Invariants, AddressAgrees, OutputFollows, LabelStored, AddressOf,
                FootprintOf
  <2> QED
    BY <2>3, <2>4, <2>5 DEF Invariants
<1> QED
  BY <1>1, <1>2

LEMMA IdentifyOffStep ==
  ASSUME Invariants, NEW e \in BOOLEAN, NEW m \in {"quiet", "loud"},
         IdentifyOff(e, m), ~(e /\ m = "loud"),
         UNCHANGED <<device, subs, pixel, stored, configMode, halted>>
  PROVE  Invariants'
<1>1. CASE identify.on
  <2>1. /\ identify' = [identify EXCEPT !.enabled = e, !.mode = m, !.on = FALSE]
        /\ pattern' = identify.saved
        /\ receiver' = [receiver EXCEPT !.disabled = (identify.saved # "none")]
    BY <1>1 DEF IdentifyOff
  <2>2. /\ receiver'.disabled = (identify.saved # "none")
        /\ identify'.enabled = e /\ identify'.mode = m /\ identify'.on = FALSE
        /\ identify' \in [enabled : BOOLEAN, mode : {"quiet", "loud"}, on : BOOLEAN,
                          saved : Patterns]
        /\ identify.saved \in Patterns
    BY <2>1 DEF Invariants, TypeOK
  <2>3. OnePixelSource' /\ IdentifyFlag'
    BY <2>1, <2>2 DEF OnePixelSource, IdentifyFlag
  <2> QED
    BY <2>1, <2>2, <2>3, PatternStep
<1>2. CASE ~identify.on
  <2>1. /\ identify' = [identify EXCEPT !.enabled = e, !.mode = m]
        /\ UNCHANGED <<pattern, receiver>>
    BY <1>2 DEF IdentifyOff
  <2>2. /\ identify'.enabled = e /\ identify'.mode = m /\ identify'.on = identify.on
        /\ identify' \in [enabled : BOOLEAN, mode : {"quiet", "loud"}, on : BOOLEAN,
                          saved : Patterns]
    BY <2>1 DEF Invariants, TypeOK
  <2>3. IdentifyFlag' /\ OnePixelSource'
    BY <1>2, <2>1, <2>2 DEF Invariants, IdentifyFlag, OnePixelSource
  <2>4. TypeOK'
    BY <2>1, <2>2 DEF Invariants, TypeOK
  <2>5. AddressAgrees' /\ OutputFollows' /\ LabelStored'
    BY <2>1 DEF Invariants, AddressAgrees, OutputFollows, LabelStored, AddressOf,
                FootprintOf
  <2> QED
    BY <2>3, <2>4, <2>5 DEF Invariants
<1> QED
  BY <1>1, <1>2

\* The three ways in which requests switch identify.
LEMMA IdentifyStep ==
  ASSUME Invariants,
         \/ \E enable \in BOOLEAN : SetIdentifyDevice(enable)
         \/ \E mode \in {"quiet", "loud"} : SetIdentifyMode(mode)
  PROVE  Invariants'
<1>1. identify.mode \in {"quiet", "loud"} /\ identify.enabled \in BOOLEAN
  BY DEF Invariants, TypeOK
<1>2. ASSUME NEW enable \in BOOLEAN, SetIdentifyDevice(enable) PROVE Invariants'
  <2>1. UNCHANGED <<device, subs, pixel, stored, configMode, halted>>
    BY <1>2 DEF SetIdentifyDevice
  <2>2. CASE enable
    <3>1. IdentifyOn(TRUE, identify.mode)
      BY <1>2, <2>2 DEF SetIdentifyDevice
    <3> QED
      BY <1>1, <2>1, <3>1, IdentifyOnStep
  <2>3. CASE ~enable /\ identify.mode = "quiet"
    <3>1. /\ identify' = [identify EXCEPT !.enabled = FALSE]
          /\ UNCHANGED <<pattern, receiver>>
      BY <1>2, <2>3 DEF SetIdentifyDevice
    <3>2. ~identify.on
      BY <2>3 DEF Invariants, IdentifyFlag
    <3>3. identify' = [identify EXCEPT !.enabled = FALSE, !.mode = "quiet"]
      BY <2>3, <3>1 DEF Invariants, TypeOK
    <3>4. IdentifyOff(FALSE, "quiet")
      BY <3>1, <3>2, <3>3 DEF IdentifyOff
    <3> QED
      BY <2>1, <3>4, IdentifyOffStep
  <2>4. CASE ~enable /\ identify.mode # "quiet"
    <3>1. IdentifyOff(FALSE, identify.mode)
      BY <1>2, <2>4 DEF SetIdentifyDevice
    <3> QED
      BY <1>1, <2>1, <3>1, IdentifyOffStep
  <2> QED
    BY <2>2, <2>3, <2>4
<1>3. ASSUME NEW mode \in {"quiet", "loud"}, SetIdentifyMode(mode) PROVE Invariants'
  <2>1. UNCHANGED <<device, subs, pixel, stored, configMode, halted>>
    BY <1>3 DEF SetIdentifyMode
  <2>2. CASE identify.enabled /\ mode = "loud"
    <3>1. IdentifyOn(identify.enabled, mode)
      BY <1>3, <2>2 DEF SetIdentifyMode, SetMode
    <3> QED
      BY <1>1, <2>1, <2>2, <3>1, IdentifyOnStep
  <2>3. CASE ~(identify.enabled /\ mode = "loud")
    <3>1. IdentifyOff(identify.enabled, mode)
      BY <1>3, <2>3 DEF SetIdentifyMode, SetMode
    <3> QED
      BY <1>1, <2>1, <2>3, <3>1, IdentifyOffStep
  <2> QED
    BY <2>2, <2>3
<1> QED
  BY <1>2, <1>3

\* A change of the label or of a sub-device.
LEMMA LabelStep ==
  ASSUME Invariants, NEW sub \in {0} \cup SubDevices, NEW label \in Labels,
         NEW isBlank \in BOOLEAN, SetDeviceLabel(sub, label, isBlank)
  PROVE  Invariants'
<1>1. UNCHANGED <<pixel, receiver, identify, pattern, configMode, halted>>
  BY DEF SetDeviceLabel
<1>2. OnePixelSource' /\ IdentifyFlag' /\ OutputFollows'
  BY <1>1 DEF Invariants, OnePixelSource, IdentifyFlag, OutputFollows
<1>3. TypeOK' /\ AddressAgrees' /\ LabelStored'
  <2>1. CASE sub = 0 /\ ~isBlank
    <3>1. /\ device' = [device EXCEPT !.label = label]
          /\ stored' = [stored EXCEPT !.label = label]
          /\ subs' = subs
      BY <2>1 DEF SetDeviceLabel
    <3>2. TypeOK'
      BY <1>1, <3>1 DEF Invariants, TypeOK
    <3>3. AddressAgrees'
      BY <1>1, <3>1 DEF Invariants, TypeOK, AddressAgrees, AddressOf, FootprintOf, OutputOf
    <3>4. LabelStored'
      BY <3>1 DEF Invariants, TypeOK, LabelStored
    <3> QED
      BY <3>2, <3>3, <3>4
  <2>2. CASE sub = 0 /\ isBlank
    <3>1. UNCHANGED <<device, stored, subs>>
      BY <2>2 DEF SetDeviceLabel
    <3> QED
      BY <1>1, <3>1 DEF Invariants, TypeOK, AddressAgrees, AddressOf, FootprintOf, OutputOf,
                        LabelStored
  <2>3. CASE sub # 0
    <3>1. UNCHANGED <<device, stored>> /\ subs' = [subs EXCEPT ![sub].label = label]
      BY <2>3 DEF SetDeviceLabel
    <3>2. TypeOK'
      <4>1. sub \in SubDevices
        BY <2>3
      <4>2. subs[sub] \in Sub /\ subs \in [SubDevices -> Sub]
        BY <4>1 DEF Invariants, TypeOK, Sub
      <4>3. [subs[sub] EXCEPT !.label = label] \in Sub
        BY <4>2, <3>1 DEF Sub
      <4>4. subs' \in [SubDevices -> Sub]
        BY <4>1, <4>2, <4>3, <3>1
      <4> QED
        BY <1>1, <3>1, <4>4 DEF Invariants, TypeOK, Sub
    <3> QED
      BY <1>1, <3>1, <3>2 DEF Invariants, AddressAgrees, AddressOf, FootprintOf, OutputOf,
                              LabelStored
  <2> QED
    BY <2>1, <2>2, <2>3
<1> QED
  BY <1>2, <1>3 DEF Invariants

\* The receiver with another output type has its type, its switch and no
\* output started that it does not feed.
LEMMA OutputTypeSwitched ==
  ASSUME Invariants, NEW type \in {"pixel", "config"},
         receiver' = SetDmxNodeOutputType(type)
  PROVE  /\ receiver' \in [type : {"pixel", "config"}, active : BOOLEAN,
                           started : BOOLEAN, disabled : BOOLEAN]
         /\ receiver'.type = type
         /\ receiver'.disabled = receiver.disabled
         /\ OutputFollows'
  BY DEF Invariants, TypeOK, OutputFollows, SetDmxNodeOutputType

LEMMA PersonalityStep ==
  ASSUME Invariants, NEW sub \in {0} \cup SubDevices, NEW p \in Nat,
         SetPersonality(sub, p)
  PROVE  Invariants'
<1>1. UNCHANGED <<pixel, identify, pattern, stored, configMode, halted>>
  BY DEF SetPersonality
<1>2. CASE sub = 0
  <2>1. /\ device' = WithPersonality(device, p)
        /\ receiver' = SetDmxNodeOutputType(OutputOf(p))
        /\ subs' = subs
    BY <1>2 DEF SetPersonality
  <2>2. p \in Personalities
    BY <1>2 DEF SetPersonality, ValidPersonality, Personalities, PersonalityCount
  <2>3. /\ receiver' \in [type : {"pixel", "config"}, active : BOOLEAN,
                          started : BOOLEAN, disabled : BOOLEAN]
        /\ receiver'.type = OutputOf(p)
        /\ receiver'.disabled = receiver.disabled
        /\ OutputFollows'
    BY <2>1, OutputTypeSwitched DEF OutputOf
  <2>4. /\ device'.personality = p /\ device'.address = AddressOf(p, pixel)
        /\ device'.footprint = FootprintOf(p, pixel) /\ device'.label = device.label
    BY <2>1 DEF WithPersonality, Invariants, TypeOK
  <2>5. AddressOf(p, pixel) \in Addresses
        /\ FootprintOf(p, pixel) \in Footprints \cup {ConfigFootprint}
    BY ResponderAssumption DEF Invariants, TypeOK, AddressOf, FootprintOf, Addresses,
                               StartAddressDefault
  <2>6. TypeOK'
    BY <1>1, <2>1, <2>2, <2>3, <2>5 DEF WithPersonality, Invariants, TypeOK
  <2> QED
    BY <1>1, <2>3, <2>4, <2>6 DEF Invariants, OnePixelSource, IdentifyFlag, AddressAgrees,
                                  LabelStored
<1>3. CASE sub # 0
  <2>1. UNCHANGED <<device, receiver>> /\ subs' = [subs EXCEPT ![sub].personality = p]
        /\ p \in 1 .. SubPersonalities
    BY <1>3, ResponderAssumption DEF SetPersonality, ValidPersonality
  <2>2. TypeOK'
    <3>1. sub \in SubDevices
      BY <1>3
    <3>2. subs[sub] \in Sub /\ subs \in [SubDevices -> Sub]
      BY <3>1 DEF Invariants, TypeOK, Sub
    <3>3. [subs[sub] EXCEPT !.personality = p] \in Sub
      BY <3>2, <2>1 DEF Sub
    <3>4. subs' \in [SubDevices -> Sub]
      BY <3>1, <3>2, <3>3, <2>1
    <3> QED
      BY <1>1, <2>1, <3>4 DEF Invariants, TypeOK, Sub
  <2> QED
    BY <1>1, <2>1, <2>2 DEF Invariants, OnePixelSource, IdentifyFlag, AddressAgrees,
                            OutputFollows, LabelStored
<1> QED
  BY <1>2, <1>3

LEMMA AddressStep ==
  ASSUME Invariants, NEW sub \in {0} \cup SubDevices, NEW a \in Addresses,
         SetDmxStartAddress(sub, a)
  PROVE  Invariants'
<1>1. UNCHANGED <<receiver, identify, pattern, stored, configMode, halted>>
  BY DEF SetDmxStartAddress
<1>2. OnePixelSource' /\ IdentifyFlag' /\ OutputFollows'
  BY <1>1 DEF Invariants, OnePixelSource, IdentifyFlag, OutputFollows
<1>3. TypeOK' /\ AddressAgrees' /\ LabelStored'
  <2>1. CASE sub = 0 /\ OutputAccepts(device.personality, a)
    <3>1. /\ device' = [device EXCEPT !.address = a]
          /\ pixel' = [pixel EXCEPT !.address = a]
          /\ subs' = subs
      BY <2>1 DEF SetDmxStartAddress
    <3>2. TypeOK'
      BY <1>1, <3>1 DEF Invariants, TypeOK
    <3>3. device.personality = 1
      BY <2>1 DEF OutputAccepts
    <3>4. AddressAgrees'
      BY <1>1, <3>1, <3>3 DEF Invariants, TypeOK, AddressAgrees, AddressOf, FootprintOf,
                              OutputOf
    <3>5. LabelStored'
      BY <1>1, <3>1 DEF Invariants, TypeOK, LabelStored
    <3> QED
      BY <3>2, <3>4, <3>5
  <2>2. CASE sub = 0 /\ ~OutputAccepts(device.personality, a)
    <3>1. UNCHANGED <<device, pixel, subs>>
      BY <2>2 DEF SetDmxStartAddress
    <3> QED
      BY <1>1, <3>1 DEF Invariants, TypeOK, AddressAgrees, LabelStored
  <2>3. CASE sub # 0
    <3>1. UNCHANGED <<device, pixel>> /\ subs' = [subs EXCEPT ![sub].address = a]
      BY <2>3 DEF SetDmxStartAddress
    <3>2. TypeOK'
      <4>1. sub \in SubDevices
        BY <2>3
      <4>2. subs[sub] \in Sub /\ subs \in [SubDevices -> Sub]
        BY <4>1 DEF Invariants, TypeOK, Sub
      <4>3. [subs[sub] EXCEPT !.address = a] \in Sub
        BY <4>2, <3>1 DEF Sub
      <4>4. subs' \in [SubDevices -> Sub]
        BY <4>1, <4>2, <4>3, <3>1
      <4> QED
        BY <1>1, <3>1, <4>4 DEF Invariants, TypeOK, Sub
    <3> QED
      BY <1>1, <3>1, <3>2 DEF Invariants, AddressAgrees, LabelStored
  <2> QED
    BY <2>1, <2>2, <2>3
<1> QED
  BY <1>2, <1>3 DEF Invariants

\* The root device after SET FACTORY_DEFAULTS.
LEMMA ResetDeviceFacts ==
  ASSUME Invariants
  PROVE  /\ ResetDevice \in
              [personality : Personalities, address : Addresses,
               footprint : Footprints \cup {ConfigFootprint}, label : Labels,
               labelSum : Nat, isDefaults : BOOLEAN, sum : Nat]
         /\ ResetDevice.personality = 1 /\ ResetDevice.label = DefaultLabel
         /\ ResetDevice.footprint = pixel.footprint
         /\ ResetDevice.isDefaults
         /\ ResetDevice.labelSum = LabelSum[DefaultLabel]
         /\ ResetDevice.sum = ResetDevice.address + 1
         /\ \/ ResetDevice.address = StartAddressDefault
            \/ ~PixelAccepts(StartAddressDefault)
<1> DEFINE d == WithPersonality(LabelReset, 1)
           a == IF PixelAccepts(StartAddressDefault) THEN StartAddressDefault ELSE d.address
<1>1. /\ LabelReset \in
           [personality : Personalities, address : Addresses,
            footprint : Footprints \cup {ConfigFootprint}, label : Labels,
            labelSum : Nat, isDefaults : BOOLEAN, sum : Nat]
      /\ LabelReset.label = DefaultLabel
      /\ LabelReset.labelSum = LabelSum[DefaultLabel]
  BY ResponderAssumption DEF Invariants, TypeOK, LabelReset
<1>2. pixel.address \in Addresses /\ pixel.footprint \in Footprints /\ 1 \in Personalities
  BY DEF Invariants, TypeOK, Personalities, PersonalityCount
<1>3. /\ d \in [personality : Personalities, address : Addresses,
                footprint : Footprints \cup {ConfigFootprint}, label : Labels,
                labelSum : Nat, isDefaults : BOOLEAN, sum : Nat]
      /\ d.label = DefaultLabel /\ d.labelSum = LabelSum[DefaultLabel]
      /\ d.personality = 1 /\ d.address = pixel.address /\ d.footprint = pixel.footprint
  BY <1>1, <1>2 DEF WithPersonality, AddressOf, FootprintOf
<1>4. a \in Addresses /\ a + 1 \in Nat
  BY <1>2, <1>3, ResponderAssumption DEF Addresses, StartAddressDefault
<1>5. ResetDevice = [d EXCEPT !.address = a, !.isDefaults = TRUE, !.sum = a + 1]
  BY DEF ResetDevice
<1> HIDE DEF d
<1>6. a = StartAddressDefault \/ ~PixelAccepts(StartAddressDefault)
  OBVIOUS
<1> HIDE DEF a
<1> QED
  BY <1>3, <1>4, <1>5, <1>6

LEMMA FactoryDefaultsStep ==
  ASSUME Invariants, SetFactoryDefaults
  PROVE  Invariants'
<1>1. /\ device' = ResetDevice
      /\ pixel' = [pixel EXCEPT !.address = device'.address]
      /\ receiver' = SetDmxNodeOutputType("pixel")
      /\ stored' = [stored EXCEPT !.label = NoLabel]
      /\ subs' = [s \in SubDevices |-> ResetSub(subs[s])]
      /\ UNCHANGED <<identify, pattern, configMode, halted>>
  BY DEF SetFactoryDefaults, LabelErased
<1>2. /\ receiver' \in [type : {"pixel", "config"}, active : BOOLEAN,
                        started : BOOLEAN, disabled : BOOLEAN]
      /\ receiver'.type = "pixel"
      /\ receiver'.disabled = receiver.disabled
      /\ OutputFollows'
  BY <1>1, OutputTypeSwitched
<1>3. subs' \in [SubDevices -> Sub]
  <2>1. subs \in [SubDevices -> Sub]
    BY DEF Invariants, TypeOK, Sub
  <2>2. NewSub \in Sub
    BY ResponderAssumption DEF NewSub, Sub, StartAddressDefault, Addresses
  <2> QED
    BY <1>1, <2>1, <2>2 DEF ResetSub
<1>4. /\ pixel' \in [address : Addresses, footprint : Footprints]
      /\ pixel'.address = device'.address /\ pixel'.footprint = pixel.footprint
  BY <1>1, ResetDeviceFacts DEF Invariants, TypeOK
<1>5. stored' \in [label : Labels \cup {NoLabel}, pattern : Patterns] /\ stored'.label = NoLabel
  BY <1>1 DEF Invariants, TypeOK
<1>6. TypeOK'
  BY <1>1, <1>2, <1>3, <1>4, <1>5, ResetDeviceFacts DEF Invariants, TypeOK, Sub
<1>7. OnePixelSource' /\ IdentifyFlag'
  BY <1>1, <1>2 DEF Invariants, OnePixelSource, IdentifyFlag
<1>8. AddressAgrees'
  BY <1>1, <1>2, <1>4, ResetDeviceFacts DEF AddressAgrees, AddressOf, FootprintOf, OutputOf
<1>9. LabelStored'
  BY <1>5 DEF LabelStored
<1> QED
  BY <1>2, <1>6, <1>7, <1>8, <1>9 DEF Invariants

LEMMA GetFactoryDefaultsStep ==
  ASSUME Invariants, GetFactoryDefaults
  PROVE  Invariants'
<1> DEFINE b == RootAtDefaults /\ \A s \in SubDevices : SubIsDefaults(subs[s])
<1>1. /\ device' = [device EXCEPT !.isDefaults = b]
      /\ subs' = [s \in SubDevices |->
                    IF Asked(s) THEN [subs[s] EXCEPT !.isDefaults = SubIsDefaults(subs[s])]
                    ELSE subs[s]]
      /\ UNCHANGED <<pixel, receiver, identify, pattern, stored, configMode, halted>>
  BY DEF GetFactoryDefaults
<1>2. b \in BOOLEAN
  OBVIOUS
<1> HIDE DEF b
<1>3. /\ device' \in [personality : Personalities, address : Addresses,
                      footprint : Footprints \cup {ConfigFootprint}, label : Labels,
                      labelSum : Nat, isDefaults : BOOLEAN, sum : Nat]
      /\ device'.personality = device.personality /\ device'.address = device.address
      /\ device'.footprint = device.footprint /\ device'.label = device.label
  BY <1>1, <1>2 DEF Invariants, TypeOK
<1>4. subs' \in [SubDevices -> Sub]
  <2>1. ASSUME NEW s \in SubDevices
        PROVE  [subs[s] EXCEPT !.isDefaults = SubIsDefaults(subs[s])] \in Sub /\ subs[s] \in Sub
    <3>1. subs[s] \in Sub
      BY DEF Invariants, TypeOK, Sub
    <3>2. SubIsDefaults(subs[s]) \in BOOLEAN
      BY <3>1 DEF SubIsDefaults, SubAtDefaults, Sub
    <3> QED
      BY <3>1, <3>2 DEF Sub
  <2> QED
    BY <1>1, <2>1
<1>5. TypeOK'
  BY <1>1, <1>3, <1>4 DEF Invariants, TypeOK, Sub
<1> QED
  BY <1>1, <1>3, <1>5 DEF Invariants, OnePixelSource, IdentifyFlag, AddressAgrees, AddressOf,
                          FootprintOf, OutputFollows, LabelStored

LEMMA SelfTestStep ==
  ASSUME Invariants, NEW p \in Patterns, SetPerformSelfTest(p)
  PROVE  Invariants'
<1>1. /\ pattern' = p /\ receiver' = [receiver EXCEPT !.disabled = (p # "none")]
      /\ UNCHANGED <<device, subs, pixel, identify, stored, configMode, halted>>
  BY DEF SetPerformSelfTest
<1>2. receiver'.disabled = (p # "none")
  BY <1>1 DEF Invariants, TypeOK
<1>3. OnePixelSource' /\ IdentifyFlag'
  BY <1>1, <1>2 DEF Invariants, OnePixelSource, IdentifyFlag
<1>4. identify' \in [enabled : BOOLEAN, mode : {"quiet", "loud"}, on : BOOLEAN,
                    saved : Patterns]
  BY <1>1 DEF Invariants, TypeOK
<1> QED
  BY <1>1, <1>3, <1>4, PatternStep

\* DMXReceiver::Run starts and stops the output it feeds.
LEMMA ReceiveStep ==
  ASSUME Invariants, Receive
  PROVE  Invariants'
<1>1. /\ Started \in [type : {"pixel", "config"}, active : BOOLEAN,
                      started : BOOLEAN, disabled : BOOLEAN]
      /\ Stopped \in [type : {"pixel", "config"}, active : BOOLEAN,
                      started : BOOLEAN, disabled : BOOLEAN]
      /\ Started.type = receiver.type /\ Started.disabled = receiver.disabled
      /\ Stopped.type = receiver.type /\ Stopped.disabled = receiver.disabled
      /\ Started.started <=> Started.active /\ Started.type = "pixel"
      /\ Stopped.started <=> Stopped.active /\ Stopped.type = "pixel"
  BY DEF Invariants, TypeOK, Started, Stopped, OutputFollows
<1>2. /\ UNCHANGED <<device, subs, identify, pattern, configMode, halted>>
      /\ receiver' \in {receiver, Started, Stopped}
      /\ \/ UNCHANGED <<pixel, stored>>
         \/ /\ receiver.type = "config"
            /\ \E f \in Footprints : pixel' = [pixel EXCEPT !.footprint = f]
            /\ \E p \in Patterns : stored' = [stored EXCEPT !.pattern = p]
  BY DEF Receive, ReceiveData, ReceiveProgram, SignalLost
<1>3. /\ receiver' \in [type : {"pixel", "config"}, active : BOOLEAN,
                        started : BOOLEAN, disabled : BOOLEAN]
      /\ receiver'.type = receiver.type /\ receiver'.disabled = receiver.disabled
      /\ OutputFollows'
  BY <1>1, <1>2 DEF Invariants, TypeOK, OutputFollows
<1>4. /\ pixel' \in [address : Addresses, footprint : Footprints]
      /\ stored' \in [label : Labels \cup {NoLabel}, pattern : Patterns]
      /\ stored'.label = stored.label
      /\ pixel'.address = pixel.address
      /\ receiver.type = "config" \/ pixel'.footprint = pixel.footprint
  BY <1>2 DEF Invariants, TypeOK
<1>5. TypeOK'
  BY <1>2, <1>3, <1>4 DEF Invariants, TypeOK
<1>6. AddressAgrees'
  BY <1>2, <1>3, <1>4 DEF Invariants, AddressAgrees, AddressOf, FootprintOf, OutputOf
<1> QED
  BY <1>2, <1>3, <1>4, <1>5, <1>6 DEF Invariants, OnePixelSource, IdentifyFlag, LabelStored

\* Every step keeps the invariants, one step of the proof per action.
LEMMA StepInvariants == Invariants /\ [Next]_vars => Invariants'
<1> SUFFICES ASSUME Invariants, [Next]_vars PROVE Invariants'
  OBVIOUS
<1>1. CASE RootRequest
  <2>1. ASSUME SetResetDevice PROVE Invariants'
    BY <2>1, BootStep DEF SetResetDevice, Invariants, TypeOK
  <2> QED
    BY <1>1, <2>1, GetFactoryDefaultsStep, FactoryDefaultsStep, IdentifyStep, SelfTestStep
       DEF RootRequest
<1>2. CASE SubRequest
  <2>1. \A p \in 0 .. (SubPersonalities + 2) : p \in Nat
    BY ResponderAssumption
  <2> QED
    BY <1>2, <2>1, LabelStep, PersonalityStep, AddressStep DEF SubRequest
<1>3. CASE AllCall
  BY <1>3 DEF AllCall, Invariants, TypeOK, OnePixelSource, IdentifyFlag, AddressAgrees,
              OutputFollows, LabelStored
<1>4. CASE Receive
  BY <1>4, ReceiveStep
<1>5. CASE Restart
  BY <1>5, BootStep DEF Restart
<1>6. CASE UNCHANGED vars
  BY <1>6 DEF vars, Invariants, TypeOK, OnePixelSource, IdentifyFlag, AddressAgrees,
              OutputFollows, LabelStored
<1> QED
  BY <1>1, <1>2, <1>3, <1>4, <1>5, <1>6 DEF Next

\* The invariants hold together; each theorem below names one of them.
THEOREM ResponderInvariants == Spec => []Invariants
<1> QED
  BY InitInvariants, StepInvariants, PTL DEF Spec

\* The state of the responder keeps its type.
THEOREM ResponderTypeCorrect == Spec => []TypeOK
<1>1. Invariants => TypeOK
  BY DEF Invariants
<1> QED
  BY <1>1, ResponderInvariants, PTL

\* The DMX output is disabled exactly while a test pattern runs.
THEOREM DisabledWithPattern == Spec => []OnePixelSource
<1>1. Invariants => OnePixelSource
  BY DEF Invariants
<1> QED
  BY <1>1, ResponderInvariants, PTL

\* The device reports the address and the footprint of its personality's output.
THEOREM AddressOfPersonality == Spec => []AddressAgrees
<1>1. Invariants => AddressAgrees
  BY DEF Invariants
<1> QED
  BY <1>1, ResponderInvariants, PTL

\* The pixel output is started exactly while an active receiver feeds it.
THEOREM OutputStartedWithReceiver == Spec => []OutputFollows
<1>1. Invariants => OutputFollows
  BY DEF Invariants
<1> QED
  BY <1>1, ResponderInvariants, PTL

\* The store has the label that the device shows.
THEOREM StoreHasLabel == Spec => []LabelStored
<1>1. Invariants => LabelStored
  BY DEF Invariants
<1> QED
  BY <1>1, ResponderInvariants, PTL

\* What SET FACTORY_DEFAULTS leaves behind.
LEMMA ResetStep ==
  ASSUME Invariants, SetFactoryDefaults
  PROVE  /\ device'.personality = 1 /\ device'.label = DefaultLabel
         /\ \/ device'.address = StartAddressDefault
            \/ 1 + pixel.footprint > UniverseSize
         /\ RootAtDefaults'
         /\ \A s \in SubDevices : (subs[s].isDefaults => SubAtDefaults(subs[s]))
                                    => subs'[s] = NewSub \/ SubIsDefaults(subs'[s])
<1>1. /\ device' = ResetDevice
      /\ subs' = [s \in SubDevices |-> ResetSub(subs[s])]
  BY DEF SetFactoryDefaults
<1>2. device'.address = StartAddressDefault \/ 1 + pixel.footprint > UniverseSize
  <2>1. pixel.footprint \in Nat
    BY ResponderAssumption DEF Invariants, TypeOK
  <2> QED
    BY <1>1, <2>1, ResetDeviceFacts, ResponderAssumption DEF PixelAccepts, StartAddressDefault
<1>3. RootAtDefaults'
  BY <1>1, ResetDeviceFacts DEF RootAtDefaults
<1>4. ASSUME NEW s \in SubDevices, subs[s].isDefaults => SubAtDefaults(subs[s])
      PROVE  subs'[s] = NewSub \/ SubIsDefaults(subs'[s])
  <2>1. subs'[s] = ResetSub(subs[s])
    BY <1>1
  <2>2. CASE subs[s].isDefaults
    BY <1>4, <2>1, <2>2 DEF ResetSub, SubIsDefaults
  <2>3. CASE ~subs[s].isDefaults
    BY <2>1, <2>3 DEF ResetSub
  <2> QED
    BY <2>2, <2>3
<1> QED
  BY <1>1, <1>2, <1>3, <1>4, ResetDeviceFacts

\* A reset restores the defaults of every part that knows it has left them.
THEOREM ResetRestoresDefaults == Spec => FactoryReset
<1>1. Invariants /\ [Next]_vars =>
        [SetFactoryDefaults =>
           /\ device'.personality = 1 /\ device'.label = DefaultLabel
           /\ \/ device'.address = StartAddressDefault
              \/ 1 + pixel.footprint > UniverseSize
           /\ RootAtDefaults'
           /\ \A s \in SubDevices : (subs[s].isDefaults => SubAtDefaults(subs[s]))
                                      => subs'[s] = NewSub \/ SubIsDefaults(subs'[s])]_vars
  BY ResetStep
<1> QED
  BY <1>1, ResponderInvariants, PTL DEF Spec, FactoryReset
\* RDMIdentify::On(Mode) of the firmware, called as its callers call it.
LEMMA IdentifyOnPixels ==
  ASSUME Invariants, NEW m \in {"quiet", "loud"},
         IdentifyOn(TRUE, m), m = "quiet" => identify.mode = "quiet"
  PROVE  /\ ~Identifying /\ Identifying' => Fading' /\ identify'.saved = pattern
         /\ Identifying => UNCHANGED <<identify.saved, pattern, receiver>>
         /\ Identifying => Identifying'
<1>1. CASE m = "loud" /\ ~identify.on
  <2>1. /\ identify' = [enabled |-> TRUE, mode |-> m, on |-> TRUE, saved |-> pattern]
        /\ pattern' = "fade" /\ receiver' = [receiver EXCEPT !.disabled = TRUE]
    BY <1>1 DEF IdentifyOn
  <2>2. receiver'.disabled
    BY <2>1 DEF Invariants, TypeOK
  <2> QED
    BY <1>1, <2>1, <2>2 DEF Invariants, IdentifyFlag, Identifying, Fading
<1>2. CASE ~(m = "loud" /\ ~identify.on)
  <2>1. /\ identify' = [identify EXCEPT !.enabled = TRUE, !.mode = m]
        /\ UNCHANGED <<pattern, receiver>>
    BY <1>2 DEF IdentifyOn
  <2>2. identify'.enabled /\ identify'.mode = m /\ identify'.saved = identify.saved
    BY <2>1 DEF Invariants, TypeOK
  <2> QED
    BY <1>2, <2>1, <2>2 DEF Invariants, IdentifyFlag, Identifying
<1> QED
  BY <1>1, <1>2

\* RDMIdentify::Off(Mode): what ran before comes back.
LEMMA IdentifyOffPixels ==
  ASSUME Invariants, NEW e \in BOOLEAN, NEW m \in {"quiet", "loud"},
         IdentifyOff(e, m), ~(e /\ m = "loud")
  PROVE  /\ ~Identifying'
         /\ Identifying => /\ pattern' = identify.saved
                           /\ receiver'.disabled = (pattern' # "none")
<1>1. identify'.enabled = e /\ identify'.mode = m
  BY DEF IdentifyOff, Invariants, TypeOK
<1>2. ASSUME Identifying
      PROVE  /\ pattern' = identify.saved
             /\ receiver'.disabled = (pattern' # "none")
  <2>1. identify.on
    BY <1>2 DEF Invariants, IdentifyFlag, Identifying
  <2>2. /\ pattern' = identify.saved
        /\ receiver' = [receiver EXCEPT !.disabled = (identify.saved # "none")]
    BY <2>1 DEF IdentifyOff
  <2> QED
    BY <2>2 DEF Invariants, TypeOK
<1> QED
  BY <1>1, <1>2 DEF Identifying

\* What a step may do to the pixels of a device that identifies itself.
PixelsStep ==
  /\ ~Identifying /\ Identifying' => Fading' /\ identify'.saved = pattern
  /\ Identifying /\ Identifying' =>
       /\ identify'.saved = identify.saved
       /\ Fading => Fading' \/ \E p \in Patterns : SetPerformSelfTest(p)
  /\ Identifying /\ ~Identifying' =>
       \/ pattern' = identify.saved /\ receiver'.disabled = (pattern' # "none")
       \/ Boot

\* The two requests that switch identify.
LEMMA IdentifyRequestPixels ==
  ASSUME Invariants,
         \/ \E enable \in BOOLEAN : SetIdentifyDevice(enable)
         \/ \E mode \in {"quiet", "loud"} : SetIdentifyMode(mode)
  PROVE  PixelsStep
<1>1. identify.mode \in {"quiet", "loud"} /\ identify.enabled \in BOOLEAN
  BY DEF Invariants, TypeOK
<1>2. ASSUME NEW m \in {"quiet", "loud"}, IdentifyOn(TRUE, m),
             m = "quiet" => identify.mode = "quiet"
      PROVE  PixelsStep
  BY <1>2, IdentifyOnPixels DEF PixelsStep, Fading
<1>3. ASSUME NEW e \in BOOLEAN, NEW m \in {"quiet", "loud"}, IdentifyOff(e, m),
             ~(e /\ m = "loud")
      PROVE  PixelsStep
  BY <1>3, IdentifyOffPixels DEF PixelsStep
<1>4. ASSUME NEW enable \in BOOLEAN, SetIdentifyDevice(enable) PROVE PixelsStep
  <2>1. CASE enable
    BY <1>1, <1>2, <1>4, <2>1 DEF SetIdentifyDevice
  <2>2. CASE ~enable /\ identify.mode = "quiet"
    <3>1. identify' = [identify EXCEPT !.enabled = FALSE]
      BY <1>4, <2>2 DEF SetIdentifyDevice
    <3>2. ~Identifying /\ ~Identifying'
      BY <2>2, <3>1 DEF Identifying, Invariants, TypeOK
    <3> QED
      BY <3>2 DEF PixelsStep
  <2>3. CASE ~enable /\ identify.mode # "quiet"
    BY <1>1, <1>3, <1>4, <2>3 DEF SetIdentifyDevice
  <2> QED
    BY <2>1, <2>2, <2>3
<1>5. ASSUME NEW mode \in {"quiet", "loud"}, SetIdentifyMode(mode) PROVE PixelsStep
  <2>1. CASE identify.enabled /\ mode = "loud"
    BY <1>1, <1>2, <1>5, <2>1 DEF SetIdentifyMode, SetMode
  <2>2. CASE ~(identify.enabled /\ mode = "loud")
    BY <1>1, <1>3, <1>5, <2>2 DEF SetIdentifyMode, SetMode
  <2> QED
    BY <2>1, <2>2
<1> QED
  BY <1>4, <1>5

\* No other step than a self-test and a restart touches them.
LEMMA EveryStepPixels == Invariants /\ [Next]_vars => [PixelsStep]_vars
<1> SUFFICES ASSUME Invariants, Next PROVE PixelsStep
  OBVIOUS
<1>1. ASSUME Boot PROVE PixelsStep
  <2>1. ~Identifying'
    BY <1>1 DEF Boot, BootIdentify, Identifying
  <2> QED
    BY <1>1, <2>1 DEF PixelsStep
<1>2. ASSUME UNCHANGED <<identify, pattern>>, receiver'.disabled = receiver.disabled
      PROVE  PixelsStep
  BY <1>2 DEF PixelsStep, Identifying, Fading
<1>3. CASE RootRequest
  <2>1. ASSUME GetFactoryDefaults PROVE PixelsStep
    BY <1>2, <2>1 DEF GetFactoryDefaults
  <2>2. ASSUME SetFactoryDefaults PROVE PixelsStep
    BY <1>2, <2>2, OutputTypeSwitched DEF SetFactoryDefaults
  <2>3. ASSUME NEW p \in Patterns, SetPerformSelfTest(p) PROVE PixelsStep
    BY <2>3 DEF SetPerformSelfTest, PixelsStep, Identifying
  <2>4. ASSUME SetResetDevice PROVE PixelsStep
    BY <1>1, <2>4 DEF SetResetDevice
  <2> QED
    BY <1>3, <2>1, <2>2, <2>3, <2>4, IdentifyRequestPixels DEF RootRequest
<1>4. CASE SubRequest
  <2>1. ASSUME NEW sub, NEW label, NEW isBlank, SetDeviceLabel(sub, label, isBlank)
        PROVE  PixelsStep
    BY <1>2, <2>1 DEF SetDeviceLabel
  <2>2. ASSUME NEW sub, NEW p, SetPersonality(sub, p) PROVE PixelsStep
    <3>1. receiver' = receiver \/ receiver' = SetDmxNodeOutputType(OutputOf(p))
      BY <2>2 DEF SetPersonality
    <3>2. OutputOf(p) \in {"pixel", "config"}
      BY DEF OutputOf
    <3> QED
      BY <1>2, <2>2, <3>1, <3>2, OutputTypeSwitched DEF SetPersonality
  <2>3. ASSUME NEW sub, NEW a, SetDmxStartAddress(sub, a) PROVE PixelsStep
    BY <1>2, <2>3 DEF SetDmxStartAddress
  <2> QED
    BY <1>4, <2>1, <2>2, <2>3 DEF SubRequest
<1>5. CASE AllCall
  BY <1>2, <1>5 DEF AllCall
<1>6. CASE Receive
  <2>1. UNCHANGED <<identify, pattern>> /\ receiver' \in {receiver, Started, Stopped}
    BY <1>6 DEF Receive, ReceiveData, ReceiveProgram, SignalLost
  <2>2. receiver'.disabled = receiver.disabled
    BY <2>1 DEF Started, Stopped, Invariants, TypeOK
  <2> QED
    BY <1>2, <2>1, <2>2
<1>7. CASE Restart
  BY <1>1, <1>7 DEF Restart
<1> QED
  BY <1>3, <1>4, <1>5, <1>6, <1>7 DEF Next

\* A device that identifies itself fades from the step that starts it, until
\* it stops or a self-test is set, and shows then what ran before.
THEOREM IdentifyOnPixelsShown == Spec => IdentifyShown
<1>1. Invariants /\ [Next]_vars => [PixelsStep]_vars
  BY EveryStepPixels
<1> QED
  BY <1>1, ResponderInvariants, PTL DEF Spec, IdentifyShown, PixelsStep
=============================================================================
