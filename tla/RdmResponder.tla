---------------------------- MODULE RdmResponder ----------------------------
(***************************************************************************)
(* The RDM responder: RDMResponder::Run (lib-rdm/include/rdmresponder.h)   *)
(* takes one RDM request at a time to RDMHandler::HandleData               *)
(* (lib-rdm/src/handlers/rdmhandler.cpp), whose handlers change the root   *)
(* device, its sub-devices, the pixel output, the identify and self-test   *)
(* patterns and the DMX receiver (lib-dmx/include/dmxreceiver.h).          *)
(*                                                                         *)
(* The firmware is gd32_rdm_responder: personality 1 shows DMX on the      *)
(* pixels, personality 2 ("Config mode") configures them.  Everything runs *)
(* in the main loop, so an action is one request or one call of            *)
(* DMXReceiver::Run.  The model has the requests that change these; those  *)
(* that a handler refuses, and those that only read, do not.               *)
(***************************************************************************)
EXTENDS Integers

CONSTANTS
  UniverseSize,      \* dmxnode::kUniverseSize
  Footprints,        \* the footprints that the pixel configurations have
  ConfigFootprint,   \* pixeldmx::paramsdmx::kDmxFootprint
  Labels,            \* the label texts
  LabelSum,          \* [Labels -> Nat]: CalculateChecksum of each text
  DefaultLabel,      \* rdm::device::RootLabel
  OtherPatterns,     \* the test patterns other than kNone and kFade
  SubCount,          \* RdmSubDevices::GetCount
  SubPersonalities   \* the personalities a sub-device has

PersonalityCount == 2
Personalities == 1 .. PersonalityCount
StartAddressDefault == 1
Addresses == 1 .. UniverseSize
SubDevices == 1 .. SubCount
NoLabel == "no label"        \* the store holds no label
Patterns == {"none", "fade"} \cup OtherPatterns

ASSUME ResponderAssumption ==
  /\ UniverseSize \in Nat \ {0}
  /\ Footprints \subseteq Nat \ {0}
  /\ ConfigFootprint \in Nat
  /\ LabelSum \in [Labels -> Nat \ {0}]
  /\ DefaultLabel \in Labels /\ NoLabel \notin Labels
  /\ SubCount \in Nat
  /\ SubPersonalities \in Nat \ {0}

VARIABLES
  device,     \* rdm::device::Device and RDMDeviceResponder
  subs,       \* the sub-devices
  pixel,      \* PixelDmxConfiguration: start address and footprint
  receiver,   \* DMXReceiver, and PixelDmx::started_
  identify,   \* RDMIdentify
  pattern,    \* PixelTestPattern::pattern_
  stored,     \* the configuration store: the label and the test pattern
  configMode, \* IsConfigMode(), the key held at power up
  halted      \* an assertion of RdmSubDevices has failed

vars == <<device, subs, pixel, receiver, identify, pattern, stored, configMode,
          halted>>

\* The state has its type.
TypeOK ==
  /\ device \in [personality : Personalities, address : Addresses,
                 footprint : Footprints \cup {ConfigFootprint}, label : Labels,
                 labelSum : Nat, isDefaults : BOOLEAN, sum : Nat]
  /\ subs \in [SubDevices -> [address : Addresses, personality : 1 .. SubPersonalities,
                              label : Labels, isDefaults : BOOLEAN]]
  /\ pixel \in [address : Addresses, footprint : Footprints]
  /\ receiver \in [type : {"pixel", "config"}, active : BOOLEAN,
                   started : BOOLEAN, disabled : BOOLEAN]
  /\ identify \in [enabled : BOOLEAN, mode : {"quiet", "loud"}, on : BOOLEAN,
                   saved : Patterns]
  /\ pattern \in Patterns
  /\ stored \in [label : Labels \cup {NoLabel}, pattern : Patterns]
  /\ configMode \in BOOLEAN
  /\ halted \in BOOLEAN

-----------------------------------------------------------------------------
(***************************************************************************)
(* The power-up of main(), from what the store holds.                      *)
(***************************************************************************)
NewSub == [address |-> StartAddressDefault, personality |-> 1,
           label |-> DefaultLabel, isDefaults |-> TRUE]

BootDevice(label, px) ==
  [personality |-> 1, address |-> px.address, footprint |-> px.footprint,
   label |-> IF label = NoLabel THEN DefaultLabel ELSE label,
   \* The constructor leaves checksum_ at 0 when it finds a label.
   labelSum |-> IF label = NoLabel THEN LabelSum[DefaultLabel] ELSE 0,
   isDefaults |-> TRUE, sum |-> px.address + 1]

BootReceiver(pat, isConfigMode) ==
  [type |-> "pixel", active |-> FALSE, started |-> FALSE,
   disabled |-> ~isConfigMode /\ pat # "none"]

BootIdentify == [enabled |-> FALSE, mode |-> "quiet", on |-> FALSE, saved |-> "none"]

Init ==
  /\ stored \in [label : Labels \cup {NoLabel}, pattern : Patterns]
  /\ pixel \in [address : Addresses, footprint : Footprints]
  /\ configMode \in BOOLEAN
  /\ device = BootDevice(stored.label, pixel)
  /\ subs = [s \in SubDevices |-> NewSub]
  /\ receiver = BootReceiver(stored.pattern, configMode)
  /\ identify = BootIdentify
  /\ pattern = stored.pattern
  /\ halted = FALSE

\* The pixels' settings are written to the store whenever they change.
Boot ==
  /\ configMode' \in BOOLEAN
  /\ device' = BootDevice(stored'.label, pixel')
  /\ subs' = [s \in SubDevices |-> NewSub]
  /\ receiver' = BootReceiver(stored'.pattern, configMode')
  /\ identify' = BootIdentify
  /\ pattern' = stored'.pattern
  /\ halted' = FALSE

\* The watchdog or the power restarts the program; what was not committed
\* yet is lost, so the store holds some earlier settings.
Restart ==
  /\ stored' \in [label : Labels \cup {NoLabel}, pattern : Patterns]
  /\ pixel' \in [address : Addresses, footprint : Footprints]
  /\ Boot

-----------------------------------------------------------------------------
(***************************************************************************)
(* SET requests for the root device (sub = 0) or a sub-device.             *)
(***************************************************************************)
\* ALL_CALL passes the range check of Handlers, and the handlers of these
\* three requests index the sub-devices with it.
AllCall ==
  /\ halted' = TRUE
  /\ UNCHANGED <<device, subs, pixel, receiver, identify, pattern, stored,
                 configMode>>

SetDeviceLabel(sub, label, isBlank) ==
  /\ IF sub = 0
     \* Device::SetLabel ignores a text of one character or without one.
     THEN /\ device' = IF isBlank THEN device ELSE [device EXCEPT !.label = label]
          /\ stored' = IF isBlank THEN stored ELSE [stored EXCEPT !.label = label]
          /\ UNCHANGED subs
     ELSE /\ subs' = [subs EXCEPT ![sub].label = label]
          /\ UNCHANGED <<device, stored>>
  /\ UNCHANGED <<pixel, receiver, identify, pattern, configMode, halted>>

\* The output type of a personality, its start address and its footprint.
OutputOf(p) == IF p = 1 THEN "pixel" ELSE "config"
AddressOf(p, px) == IF p = 1 THEN px.address ELSE StartAddressDefault
FootprintOf(p, px) == IF p = 1 THEN px.footprint ELSE ConfigFootprint

WithPersonality(d, p) ==
  [d EXCEPT !.personality = p, !.address = AddressOf(p, pixel),
            !.footprint = FootprintOf(p, pixel)]

\* Mutant: the output type before is not stopped.
SetDmxNodeOutputTypeOnly(type) ==
  IF type = receiver.type THEN receiver
  ELSE [receiver EXCEPT !.type = type, !.active = FALSE]

\* The output type before is stopped; PixelDmxParamsRdm::Stop does nothing.
SetDmxNodeOutputType(type) ==
  IF type = receiver.type THEN receiver
  ELSE [receiver EXCEPT !.type = type, !.active = FALSE,
                        !.started = IF receiver.type = "pixel" THEN FALSE ELSE @]

\* The condition of the handler, RDMHandler::SetPersonality.
ValidPersonality(sub, p) ==
  p # 0 /\ p <= IF sub = 0 THEN PersonalityCount ELSE SubPersonalities

SetPersonality(sub, p) ==
  /\ ValidPersonality(sub, p)
  /\ IF sub = 0
     THEN /\ device' = WithPersonality(device, p)
          /\ receiver' = SetDmxNodeOutputType(OutputOf(p))
          /\ UNCHANGED subs
     ELSE /\ subs' = [subs EXCEPT ![sub].personality = p]
          /\ UNCHANGED <<device, receiver>>
  /\ UNCHANGED <<pixel, identify, pattern, stored, configMode, halted>>

\* PixelDmx::SetDmxStartAddress: its last slot may not be slot 512.
PixelAccepts(a) == a = pixel.address \/ a + pixel.footprint <= UniverseSize

\* Mutant: the output of personality 1 is asked in every personality.
OutputAcceptsAny(p, a) == PixelAccepts(a)

\* DmxNodeOutputRdmPixel::SetDmxStartAddress, of the config mode, refuses.
OutputAccepts(p, a) == p = 1 /\ PixelAccepts(a)

SetDmxStartAddress(sub, a) ==
  /\ IF sub = 0
     THEN /\ IF OutputAccepts(device.personality, a)
             THEN /\ device' = [device EXCEPT !.address = a]
                  /\ pixel' = [pixel EXCEPT !.address = a]
             ELSE UNCHANGED <<device, pixel>>
          /\ UNCHANGED subs
     ELSE /\ subs' = [subs EXCEPT ![sub].address = a]
          /\ UNCHANGED <<device, pixel>>
  /\ UNCHANGED <<receiver, identify, pattern, stored, configMode, halted>>

-----------------------------------------------------------------------------
(***************************************************************************)
(* Factory defaults.                                                       *)
(***************************************************************************)
SubSum(s) == s.address + s.personality + LabelSum[s.label]

SubAtDefaults(s) == SubSum(s) = SubSum(NewSub)

\* Mutant: the early return is inverted.
ResetSubInverted(s) == IF s.isDefaults THEN NewSub ELSE s

\* RDMSubDevice::SetFactoryDefaults returns early while it still believes
\* it has its defaults, and only a GET makes it look.
ResetSub(s) == IF s.isDefaults THEN s ELSE NewSub

LabelReset == [device EXCEPT !.label = DefaultLabel,
                             !.labelSum = LabelSum[DefaultLabel]]

\* The personality is 1 again, so the pixel output decides on the address.
ResetDevice ==
  LET d == WithPersonality(LabelReset, 1)
      a == IF PixelAccepts(StartAddressDefault) THEN StartAddressDefault ELSE d.address
  IN  [d EXCEPT !.address = a, !.isDefaults = TRUE, !.sum = a + 1]

\* Mutant: it saves the label it still has.
LabelSaved == [stored EXCEPT !.label = device.label]

\* Device::SetFactoryDefaults saves an empty label.
LabelErased == [stored EXCEPT !.label = NoLabel]

SetFactoryDefaults ==
  /\ device' = ResetDevice
  /\ pixel' = [pixel EXCEPT !.address = device'.address]
  /\ receiver' = SetDmxNodeOutputType("pixel")
  /\ stored' = LabelErased
  /\ subs' = [s \in SubDevices |-> ResetSub(subs[s])]
  /\ UNCHANGED <<identify, pattern, configMode, halted>>

\* What the sums say: the root device first, then the sub-devices in turn.
RootAtDefaults ==
  /\ device.isDefaults
  /\ device.labelSum = LabelSum[device.label]
  /\ device.sum = device.address + device.personality

SubIsDefaults(s) == s.isDefaults /\ SubAtDefaults(s)

\* A sub-device is asked only when all before it have answered TRUE.
Asked(s) == RootAtDefaults /\ \A r \in 1 .. (s - 1) : SubIsDefaults(subs[r])

\* E120_FACTORY_DEFAULTS GET: a FALSE stays until the next SET.
GetFactoryDefaults ==
  LET isDefaults == RootAtDefaults /\ \A s \in SubDevices : SubIsDefaults(subs[s])
  IN  /\ device' = [device EXCEPT !.isDefaults = isDefaults]
      /\ subs' = [s \in SubDevices |->
                    IF Asked(s) THEN [subs[s] EXCEPT !.isDefaults = SubIsDefaults(subs[s])]
                    ELSE subs[s]]
      /\ UNCHANGED <<pixel, receiver, identify, pattern, stored, configMode, halted>>

-----------------------------------------------------------------------------
(***************************************************************************)
(* Identify, the self-test and the reset.                                  *)
(***************************************************************************)
\* RDMIdentify::On(Mode) of the firmware: the first loud call saves the
\* pattern and shows kFade; enabled and mode are what the caller has set.
IdentifyOn(enabled, mode) ==
  IF mode = "loud" /\ ~identify.on
  THEN /\ identify' = [enabled |-> enabled, mode |-> mode, on |-> TRUE, saved |-> pattern]
       /\ pattern' = "fade"
       /\ receiver' = [receiver EXCEPT !.disabled = TRUE]
  ELSE /\ identify' = [identify EXCEPT !.enabled = enabled, !.mode = mode]
       /\ UNCHANGED <<pattern, receiver>>

\* Mutant: the DMX output is enabled whatever pattern comes back.
IdentifyOffEnabled(enabled, mode) ==
  IF identify.on
  THEN /\ identify' = [identify EXCEPT !.enabled = enabled, !.mode = mode, !.on = FALSE]
       /\ pattern' = identify.saved
       /\ receiver' = [receiver EXCEPT !.disabled = FALSE]
  ELSE /\ identify' = [identify EXCEPT !.enabled = enabled, !.mode = mode]
       /\ UNCHANGED <<pattern, receiver>>

\* RDMIdentify::Off(Mode) of the firmware.
IdentifyOff(enabled, mode) ==
  IF identify.on
  THEN /\ identify' = [identify EXCEPT !.enabled = enabled, !.mode = mode, !.on = FALSE]
       /\ pattern' = identify.saved
       /\ receiver' = [receiver EXCEPT !.disabled = (identify.saved # "none")]
  ELSE /\ identify' = [identify EXCEPT !.enabled = enabled, !.mode = mode]
       /\ UNCHANGED <<pattern, receiver>>

\* RDMIdentify::On() and Off(), which skip the firmware in the quiet mode.
SetIdentifyDevice(enable) ==
  /\ IF enable THEN IdentifyOn(TRUE, identify.mode)
     ELSE IF identify.mode = "quiet"
     THEN identify' = [identify EXCEPT !.enabled = FALSE] /\ UNCHANGED <<pattern, receiver>>
     ELSE IdentifyOff(FALSE, identify.mode)
  /\ UNCHANGED <<device, subs, pixel, stored, configMode, halted>>

\* Mutant: the new mode only counts from the next SET IDENTIFY_DEVICE on.
SetModeOnly(mode) ==
  /\ identify' = [identify EXCEPT !.mode = mode]
  /\ UNCHANGED <<pattern, receiver>>

\* RDMIdentify::SetMode
SetMode(mode) ==
  IF identify.enabled /\ mode = "loud" THEN IdentifyOn(identify.enabled, mode)
  ELSE IdentifyOff(identify.enabled, mode)

SetIdentifyMode(mode) ==
  /\ SetMode(mode)
  /\ UNCHANGED <<device, subs, pixel, stored, configMode, halted>>

\* rdm::selftest::Set, also while the device identifies itself.
SetPerformSelfTest(p) ==
  /\ pattern' = p
  /\ receiver' = [receiver EXCEPT !.disabled = (p # "none")]
  /\ UNCHANGED <<device, subs, pixel, identify, stored, configMode, halted>>

\* board::Reboot commits the store first; nothing is answered.
SetResetDevice ==
  /\ UNCHANGED <<stored, pixel>>
  /\ Boot

-----------------------------------------------------------------------------
(***************************************************************************)
(* DMXReceiver::Run, which does nothing while its output is disabled.      *)
(***************************************************************************)
Started == [receiver EXCEPT !.active = TRUE,
                            !.started = IF receiver.type = "pixel" THEN TRUE ELSE @]

Stopped == [receiver EXCEPT !.active = FALSE,
                            !.started = IF receiver.type = "pixel" THEN FALSE ELSE @]

ReceiveData ==
  /\ receiver' = IF receiver.active THEN receiver ELSE Started
  /\ UNCHANGED <<device, subs, pixel, identify, pattern, stored, configMode, halted>>

\* PixelDmxParamsRdm::SetDataImpl programs the pixels from a packet: at once
\* their footprint, and with the next start their test pattern.
ReceiveProgram(footprint, p) ==
  /\ receiver.type = "config"
  /\ pixel' = [pixel EXCEPT !.footprint = footprint]
  /\ stored' = [stored EXCEPT !.pattern = p]
  /\ receiver' = IF receiver.active THEN receiver ELSE Started
  /\ UNCHANGED <<device, subs, identify, pattern, configMode, halted>>

\* No packet in the last second.
SignalLost ==
  /\ receiver' = IF receiver.active THEN Stopped ELSE receiver
  /\ UNCHANGED <<device, subs, pixel, identify, pattern, stored, configMode, halted>>

Receive ==
  /\ ~receiver.disabled
  /\ \/ ReceiveData
     \/ \E footprint \in Footprints, p \in Patterns : ReceiveProgram(footprint, p)
     \/ SignalLost

-----------------------------------------------------------------------------
RootRequest ==
  \/ GetFactoryDefaults
  \/ SetFactoryDefaults
  \/ \E enable \in BOOLEAN : SetIdentifyDevice(enable)
  \/ \E mode \in {"quiet", "loud"} : SetIdentifyMode(mode)
  \/ \E p \in Patterns : SetPerformSelfTest(p)
  \/ SetResetDevice

SubRequest ==
  \E sub \in {0} \cup SubDevices :
    \/ \E label \in Labels, isBlank \in BOOLEAN : SetDeviceLabel(sub, label, isBlank)
    \/ \E p \in 0 .. (SubPersonalities + 2) : SetPersonality(sub, p)
    \/ \E a \in Addresses : SetDmxStartAddress(sub, a)

Next ==
  \/ ~halted /\ (RootRequest \/ SubRequest \/ AllCall \/ Receive)
  \/ Restart

Spec == Init /\ [][Next]_vars

-----------------------------------------------------------------------------
(***************************************************************************)
(* Properties.                                                             *)
(***************************************************************************)
\* The pixels have one source: the DMX output is disabled exactly while a
\* test pattern runs, whatever identify, self-test and their order did
\* (but for a start in the config mode, main.cpp:101).
OnePixelSource == ~configMode => (receiver.disabled <=> pattern # "none")

\* The device identifies itself while identify is enabled in the loud mode;
\* the pixels show it while kFade runs and the DMX output is disabled.
Identifying == identify.enabled /\ identify.mode = "loud"
Fading == pattern = "fade" /\ receiver.disabled

\* Whichever of IDENTIFY_DEVICE and IDENTIFY_MODE is set last, the pixels
\* fade as soon as the device identifies itself, go on until it stops unless
\* a self-test is set (rdm_selftest.cpp:43), and show again then what ran
\* before it started, also after such a self-test (rdmidentify.cpp:36), but
\* for a restart.
IdentifyShown ==
  [][/\ ~Identifying /\ Identifying' => Fading' /\ identify'.saved = pattern
     /\ Identifying /\ Identifying' =>
          /\ identify'.saved = identify.saved
          /\ Fading => Fading' \/ \E p \in Patterns : SetPerformSelfTest(p)
     /\ Identifying /\ ~Identifying' =>
          \/ pattern' = identify.saved /\ receiver'.disabled = (pattern' # "none")
          \/ Boot]_vars

\* The pixels show the identify pattern all the time that the device
\* identifies itself.  It does not hold: a self-test that is set meanwhile
\* shows its own pattern, or DMX, and identify stays on; no run claims it.
IdentifyVisible == Identifying => Fading

\* The start address and the footprint that the device reports are those of
\* the output that its personality selects, and the DMX receiver feeds that
\* output (rdmdeviceresponder.h:330, pixeldmx.h:292).
AddressAgrees ==
  /\ device.address = AddressOf(device.personality, pixel)
  /\ device.footprint = FootprintOf(device.personality, pixel)
  /\ receiver.type = OutputOf(device.personality)

\* The pixel output is started exactly while it is the receiver's output and
\* the receiver is active (dmxreceiver.h:51).
OutputFollows == receiver.started <=> receiver.active /\ receiver.type = "pixel"

\* The store has the label that the device shows, so that a restart after a
\* commit shows it again (rdmdevice.h:119).
LabelStored ==
  stored.label = IF stored.label = NoLabel THEN NoLabel ELSE device.label

\* After SET FACTORY_DEFAULTS the device has its defaults and a GET says so,
\* unless a sub-device was changed and no GET has looked at it since
\* (rdmsubdevice.h:145); the address is the default unless the footprint
\* does not leave a slot behind it (pixeldmx.h:297).
FactoryReset ==
  [][SetFactoryDefaults =>
       /\ device'.personality = 1 /\ device'.label = DefaultLabel
       /\ \/ device'.address = StartAddressDefault
          \/ 1 + pixel.footprint > UniverseSize
       /\ RootAtDefaults'
       /\ \A s \in SubDevices : (subs[s].isDefaults => SubAtDefaults(subs[s]))
                                  => subs'[s] = NewSub \/ SubIsDefaults(subs'[s])]_vars

\* No SET reaches the sub-devices with an index they do not have:
\* assert((sub_device != 0) && (sub_device <= count_)), rdmsubdevices.h:184.
\* AllCall breaks it; no run claims it.
SubDeviceAssert == ~halted
=============================================================================
