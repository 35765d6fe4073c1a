---------------------------- MODULE DeviceProofs ----------------------------
(***************************************************************************)
(* The identity, the network key and the screens of a device, for every    *)
(* number of slots, provisionings and power failures.  These four results  *)
(* are proved together: a device gets an identity only through the screens *)
(* of the setup, gets to those only without an identity, and leaves them   *)
(* only with one.  On top of them, the types and the eviction of messages: *)
(* an iteration in STATE_IDLE may fill two slots, and between the two it   *)
(* lets messages expire.                                                   *)
(***************************************************************************)
EXTENDS Device, FiniteSetTheorems, SequenceTheorems, WellFoundedInduction, TLAPS

IdleScreens == {"inbox", "conversation", "compose", "settings", "network",
                "wipe_confirm", "test"}

\* What the EEPROM contains in the middle of identity::provision ...
Provisioning ==
    /\ ~Provisioned /\ screen = "device_info" /\ state = "setup" /\ gen > 0
    /\ \/ todo = ProvisionWrites(gen)
       \/ /\ todo = <<<<"key", gen>>, <<"pin", gen>>, <<"magic", 1>>>>
          /\ ee["id"] = gen
       \/ /\ todo = <<<<"pin", gen>>, <<"magic", 1>>>>
          /\ ee["id"] = gen /\ ee["key"] = gen
       \/ /\ todo = <<<<"magic", 1>>>>
          /\ ee["id"] = gen /\ ee["key"] = gen /\ ee["pin"] = gen

\* ... and of identity::wipe.
Wiping ==
    /\ screen = "setup_welcome" /\ state = "setup"
    /\ fsmKey = 0 /\ \A i \in Slots : msgs[i] = None
    /\ \/ todo = Erasures
       \/ /\ ~Provisioned
          /\ todo \in {<<<<"id", 0>>, <<"key", 0>>, <<"pin", 0>>>>,
                       <<<<"key", 0>>, <<"pin", 0>>>>,
                       <<<<"pin", 0>>>>}

WriteInv == phase = "write" => Provisioning \/ Wiping

\* The setup screens and the identity.
SetupInv ==
    /\ phase # "write" /\ screen \in {"setup_welcome", "setup_pin"} => ~Provisioned
    /\ phase # "write" /\ state = "setup" /\ screen \in {"device_info", "inbox"}
          => Provisioned

\* Before fsm::tick, a press may have led to a screen of the next state.
ScreenInv ==
    /\ state = "boot" => screen = "splash"
    /\ state = "setup" => screen \in {"setup_welcome", "setup_pin", "device_info", "inbox"}
    /\ state = "idle" => screen \in IdleScreens \cup {"sending"}
    /\ state = "error" => screen \in {"error", "inbox"}

KeyInv ==
    /\ idKey \in {0, gen}
    /\ Provisioned => gen > 0

Kinds ==
    /\ gen \in Nat /\ ee \in EEPROM
    /\ phase \in {"input", "write", "tick"}
    /\ state \in {"boot", "setup", "idle", "error"}
    /\ radioOk \in BOOLEAN
    /\ state = "error" => ~radioOk

DevInv ==
    /\ Kinds /\ WriteInv /\ SetupInv /\ ScreenInv /\ KeyInv
    /\ IdentityWhole /\ KeyedWhenIdle /\ BlankUntilSetUp /\ ScreenFitsState

\* The writes still to do after the first of at most four.
LEMMA ShortTails ==
    ASSUME NEW a, NEW b, NEW c, NEW d
    PROVE  /\ Tail(<<a, b, c, d>>) = <<b, c, d>> /\ Tail(<<a, b, c>>) = <<b, c>>
           /\ Tail(<<a, b>>) = <<b>> /\ Tail(<<a>>) = <<>>
  OBVIOUS

\* The first of at most four writes.
LEMMA ShortHeads ==
    ASSUME NEW a, NEW b, NEW c, NEW d
    PROVE  /\ Head(<<a, b, c, d>>) = a /\ Head(<<a, b, c>>) = a
           /\ Head(<<a, b>>) = a /\ Head(<<a>>) = a
  OBVIOUS

\* A new device satisfies the invariant.
LEMMA DevInit == Init => DevInv
<1> SUFFICES ASSUME Init PROVE DevInv
  OBVIOUS
<1> USE DEF Init, DevInv, Kinds, WriteInv, SetupInv, ScreenInv, KeyInv, IdentityWhole,
         KeyedWhenIdle, BlankUntilSetUp, ScreenFitsState, Provisioned, EEPROM, Fields, Field
<1>1. CASE radioOk
  BY <1>1
<1>2. CASE ~radioOk
  BY <1>2
<1> QED
  BY <1>1, <1>2

\* Presses that touch neither the identity nor the store.
LEMMA DevPress ==
    ASSUME DevInv, Skip \/ Move \/ Compose \/ Edit \/ SendDraft
    PROVE  DevInv'
<1> USE DEF DevInv, Pressed, idVars, storeVars, Kinds
<1>1. UNCHANGED <<gen, ee, idKey, radioOk, state, fsmKey, msgs>> /\ phase' = "tick"
      /\ phase = "input"
  BY DEF Skip, Move, Compose, Edit, SendDraft
<1>2. WriteInv' /\ KeyInv' /\ Kinds' /\ IdentityWhole' /\ KeyedWhenIdle'
      /\ BlankUntilSetUp' /\ ScreenFitsState'
  BY <1>1 DEF WriteInv, KeyInv, IdentityWhole, KeyedWhenIdle, BlankUntilSetUp,
              ScreenFitsState, Provisioned, Slots
<1>3. screen' = screen \/ screen' \in Exits[screen]
      \/ (screen \in {"inbox", "conversation", "compose"} /\ screen' \in {"compose", "sending"})
  BY DEF Skip, Move, Compose, Edit, SendDraft
<1>4. SetupInv' /\ ScreenInv'
  BY <1>1, <1>3 DEF SetupInv, ScreenInv, ScreenFitsState, Provisioned, IdleScreens,
                    Exits, Screens
<1> QED
  BY <1>2, <1>4

\* Opening a conversation marks messages, and there are none without an identity.
LEMMA DevOpen ==
    ASSUME DevInv, OpenConversation
    PROVE  DevInv'
<1> USE DEF DevInv, Pressed, idVars, OpenConversation, Kinds
<1>1. BlankUntilSetUp'
  BY DEF BlankUntilSetUp, Provisioned, InConversation, Slots
<1>2. WriteInv' /\ SetupInv' /\ KeyInv' /\ IdentityWhole' /\ KeyedWhenIdle' /\ Kinds'
  BY DEF WriteInv, SetupInv, KeyInv, IdentityWhole, KeyedWhenIdle, Provisioned
<1>3. ScreenInv' /\ ScreenFitsState'
  BY DEF ScreenInv, ScreenFitsState, IdleScreens
<1> QED
  BY <1>1, <1>2, <1>3

\* identity::provision starts only on a device without an identity.
LEMMA DevProvision ==
    ASSUME DevInv, Provision
    PROVE  DevInv'
<1> USE DEF DevInv, Provision, storeVars, Kinds
<1>1. state = "setup" /\ ~Provisioned
  BY DEF ScreenFitsState, SetupInv
<1>2. WriteInv' /\ KeyInv' /\ Kinds'
  BY <1>1 DEF WriteInv, Provisioning, KeyInv, Provisioned
<1>3. SetupInv' /\ ScreenInv' /\ ScreenFitsState'
  BY <1>1 DEF SetupInv, ScreenInv, ScreenFitsState, Provisioned
<1>4. IdentityWhole' /\ KeyedWhenIdle' /\ BlankUntilSetUp'
  BY <1>1 DEF IdentityWhole, KeyedWhenIdle, BlankUntilSetUp, Provisioned, Slots
<1> QED
  BY <1>2, <1>3, <1>4

\* panic_wipe may start in every state.
LEMMA DevPanic ==
    ASSUME DevInv, Panic
    PROVE  DevInv'
<1> USE DEF DevInv, Panic, ClearStore, WipeEnds, Kinds
<1>1. WriteInv' /\ KeyInv' /\ IdentityWhole' /\ BlankUntilSetUp' /\ KeyedWhenIdle' /\ Kinds'
  BY DEF WriteInv, Wiping, KeyInv, IdentityWhole, BlankUntilSetUp, KeyedWhenIdle,
         Provisioned, Slots
<1>2. SetupInv' /\ ScreenInv' /\ ScreenFitsState'
  BY DEF SetupInv, ScreenInv, ScreenFitsState
<1> QED
  BY <1>1, <1>2

\* One write changes one field of the EEPROM.
LEMMA FieldWritten ==
    ASSUME WriteStep, ee \in EEPROM, NEW f \in Fields, NEW v \in Nat,
           Head(todo) = <<f, v>>
    PROVE  /\ ee' \in EEPROM
           /\ ee'[f] = v
           /\ \A g \in Fields \ {f} : ee'[g] = ee[g]
<1>1. Head(todo)[1] = f /\ Head(todo)[2] = v
  OBVIOUS
<1>2. ee' = [ee EXCEPT ![f] = v]
  BY <1>1, Zenon DEF WriteStep
<1>3. v \in Field
  BY DEF Field
<1> QED
  BY <1>2, <1>3 DEF EEPROM

\* Each write of a provisioning or of a wipe keeps the magic number truthful.
LEMMA DevWrite ==
    ASSUME DevInv, WriteStep
    PROVE  DevInv'
<1> USE DEF DevInv, Kinds
<1>0. /\ UNCHANGED <<gen, idKey, radioOk, state, fsmKey, screen, msgs>>
      /\ phase = "write"
      /\ phase' = IF Tail(todo) = <<>> THEN "tick" ELSE "write"
      /\ todo' = Tail(todo)
  BY DEF WriteStep, storeVars
<1>1. CASE Provisioning
  <2>1. CASE todo = ProvisionWrites(gen)
    <3>1. Head(todo) = <<"id", gen>> /\ Tail(todo) = <<<<"key", gen>>, <<"pin", gen>>, <<"magic", 1>>>>
      BY <2>1, ShortHeads, ShortTails DEF ProvisionWrites
    <3>2. /\ ee' \in EEPROM /\ ee'["id"] = gen
          /\ \A g \in Fields \ {"id"} : ee'[g] = ee[g]
      BY <3>1, FieldWritten DEF Fields
    <3>3. ee'["id"] = gen /\ ee'["magic"] = ee["magic"]
      BY <2>1, <3>2 DEF Fields
    <3>4. phase' = "write"
      BY <1>0, <3>1
    <3> QED
      BY <1>0, <1>1, <3>1, <3>2, <3>3, <3>4 DEF Provisioning, Provisioned, WriteInv, SetupInv, ScreenInv,
         KeyInv, IdentityWhole, KeyedWhenIdle, BlankUntilSetUp, ScreenFitsState
  <2>2. CASE todo = <<<<"key", gen>>, <<"pin", gen>>, <<"magic", 1>>>> /\ ee["id"] = gen
    <3>1. Head(todo) = <<"key", gen>> /\ Tail(todo) = <<<<"pin", gen>>, <<"magic", 1>>>>
      BY <2>2, ShortHeads, ShortTails
    <3>2. /\ ee' \in EEPROM /\ ee'["key"] = gen
          /\ \A g \in Fields \ {"key"} : ee'[g] = ee[g]
      BY <3>1, FieldWritten DEF Fields
    <3>3. ee'["id"] = gen /\ ee'["key"] = gen /\ ee'["magic"] = ee["magic"]
      BY <2>2, <3>2 DEF Fields
    <3>4. phase' = "write"
      BY <1>0, <3>1
    <3> QED
      BY <1>0, <1>1, <3>1, <3>2, <3>3, <3>4 DEF Provisioning, Provisioned, WriteInv, SetupInv, ScreenInv,
         KeyInv, IdentityWhole, KeyedWhenIdle, BlankUntilSetUp, ScreenFitsState
  <2>3. CASE /\ todo = <<<<"pin", gen>>, <<"magic", 1>>>>
             /\ ee["id"] = gen /\ ee["key"] = gen
    <3>1. Head(todo) = <<"pin", gen>> /\ Tail(todo) = <<<<"magic", 1>>>>
      BY <2>3, ShortHeads, ShortTails
    <3>2. /\ ee' \in EEPROM /\ ee'["pin"] = gen
          /\ \A g \in Fields \ {"pin"} : ee'[g] = ee[g]
      BY <3>1, FieldWritten DEF Fields
    <3>3. ee'["id"] = gen /\ ee'["key"] = gen /\ ee'["pin"] = gen /\ ee'["magic"] = ee["magic"]
      BY <2>3, <3>2 DEF Fields
    <3>4. phase' = "write"
      BY <1>0, <3>1
    <3> QED
      BY <1>0, <1>1, <3>1, <3>2, <3>3, <3>4 DEF Provisioning, Provisioned, WriteInv, SetupInv, ScreenInv,
         KeyInv, IdentityWhole, KeyedWhenIdle, BlankUntilSetUp, ScreenFitsState
  <2>4. CASE /\ todo = <<<<"magic", 1>>>>
             /\ ee["id"] = gen /\ ee["key"] = gen /\ ee["pin"] = gen
    <3>1. Head(todo) = <<"magic", 1>> /\ Tail(todo) = <<>>
      BY <2>4, ShortHeads, ShortTails
    <3>2. /\ ee' \in EEPROM /\ ee'["magic"] = 1
          /\ \A g \in Fields \ {"magic"} : ee'[g] = ee[g]
      BY <3>1, FieldWritten DEF Fields
    <3>3. ee'["id"] = gen /\ ee'["key"] = gen /\ ee'["pin"] = gen /\ ee'["magic"] = 1
      BY <2>4, <3>2 DEF Fields
    <3>4. phase' = "tick"
      BY <1>0, <3>1
    <3> QED
      BY <1>0, <1>1, <3>1, <3>2, <3>3, <3>4 DEF Provisioning, Provisioned, WriteInv, SetupInv, ScreenInv,
         KeyInv, IdentityWhole, KeyedWhenIdle, BlankUntilSetUp, ScreenFitsState
  <2> QED
    BY <1>1, <2>1, <2>2, <2>3, <2>4 DEF Provisioning
<1>2. CASE Wiping
  <2>1. /\ ~Provisioned' /\ ee' \in EEPROM
        /\ \/ phase' = "tick"
           \/ /\ phase' = "write"
              /\ todo' \in {<<<<"id", 0>>, <<"key", 0>>, <<"pin", 0>>>>,
                            <<<<"key", 0>>, <<"pin", 0>>>>,
                            <<<<"pin", 0>>>>}
    <3>1. CASE todo = Erasures
      <4>1. Head(todo) = <<"magic", 0>> /\ Tail(todo) = <<<<"id", 0>>, <<"key", 0>>, <<"pin", 0>>>>
        BY <3>1, ShortHeads, ShortTails DEF Erasures
      <4>2. /\ ee' \in EEPROM /\ ee'["magic"] = 0
            /\ \A g \in Fields \ {"magic"} : ee'[g] = ee[g]
        BY <4>1, FieldWritten DEF Fields
      <4>3. ~Provisioned'
        BY <3>1, <4>2 DEF Provisioned, Fields
      <4> QED
        BY <1>0, <4>1, <4>2, <4>3
    <3>2. CASE ~Provisioned /\ todo = <<<<"id", 0>>, <<"key", 0>>, <<"pin", 0>>>>
      <4>1. Head(todo) = <<"id", 0>> /\ Tail(todo) = <<<<"key", 0>>, <<"pin", 0>>>>
        BY <3>2, ShortHeads, ShortTails
      <4>2. /\ ee' \in EEPROM /\ ee'["id"] = 0
            /\ \A g \in Fields \ {"id"} : ee'[g] = ee[g]
        BY <4>1, FieldWritten DEF Fields
      <4>3. ~Provisioned'
        BY <3>2, <4>2 DEF Provisioned, Fields
      <4> QED
        BY <1>0, <4>1, <4>2, <4>3
    <3>3. CASE ~Provisioned /\ todo = <<<<"key", 0>>, <<"pin", 0>>>>
      <4>1. Head(todo) = <<"key", 0>> /\ Tail(todo) = <<<<"pin", 0>>>>
        BY <3>3, ShortHeads, ShortTails
      <4>2. /\ ee' \in EEPROM /\ ee'["key"] = 0
            /\ \A g \in Fields \ {"key"} : ee'[g] = ee[g]
        BY <4>1, FieldWritten DEF Fields
      <4>3. ~Provisioned'
        BY <3>3, <4>2 DEF Provisioned, Fields
      <4> QED
        BY <1>0, <4>1, <4>2, <4>3
    <3>4. CASE ~Provisioned /\ todo = <<<<"pin", 0>>>>
      <4>1. Head(todo) = <<"pin", 0>> /\ Tail(todo) = <<>>
        BY <3>4, ShortHeads, ShortTails
      <4>2. /\ ee' \in EEPROM /\ ee'["pin"] = 0
            /\ \A g \in Fields \ {"pin"} : ee'[g] = ee[g]
        BY <4>1, FieldWritten DEF Fields
      <4>3. ~Provisioned'
        BY <3>4, <4>2 DEF Provisioned, Fields
      <4> QED
        BY <1>0, <4>1, <4>2, <4>3
    <3> QED
      BY <1>2, <3>1, <3>2, <3>3, <3>4 DEF Wiping
  <2> QED
    BY <1>0, <1>2, <2>1 DEF Wiping, WriteInv, SetupInv, ScreenInv, KeyInv,
       IdentityWhole, KeyedWhenIdle, BlankUntilSetUp, ScreenFitsState, Slots, Provisioned
<1> QED
  BY <1>0, <1>1, <1>2 DEF WriteInv

\* fsm::tick: the key is loaded on every way into STATE_IDLE but the one from STATE_ERROR.
LEMMA DevTick ==
    ASSUME DevInv, Tick
    PROVE  DevInv'
<1> USE DEF DevInv, Kinds
<1>0. UNCHANGED <<gen, ee, radioOk>> /\ phase = "tick" /\ phase' = "input"
  BY DEF Tick
<1>1. CASE TickBoot
  BY <1>0, <1>1 DEF TickBoot, LoadKey, storeVars, WriteInv, SetupInv, ScreenInv, KeyInv,
     IdentityWhole, KeyedWhenIdle, BlankUntilSetUp, ScreenFitsState, Provisioned, Slots,
     IdleScreens
<1>2. CASE TickSetup
  <2>1. CASE Provisioned /\ screen = "inbox"
    BY <1>0, <1>2, <2>1 DEF TickSetup, LoadKey, storeVars, WriteInv, SetupInv, ScreenInv,
       KeyInv, IdentityWhole, KeyedWhenIdle, BlankUntilSetUp, ScreenFitsState, Provisioned,
       Slots, IdleScreens
  <2>2. CASE ~(Provisioned /\ screen = "inbox")
    BY <1>0, <1>2, <2>2 DEF TickSetup, storeVars, WriteInv, SetupInv, ScreenInv,
       KeyInv, IdentityWhole, KeyedWhenIdle, BlankUntilSetUp, ScreenFitsState, Provisioned,
       Slots, IdleScreens
  <2> QED
    BY <2>1, <2>2
<1>3. CASE TickError
  BY <1>0, <1>3 DEF TickError, storeVars, WriteInv, SetupInv, ScreenInv, KeyInv,
     IdentityWhole, KeyedWhenIdle, BlankUntilSetUp, ScreenFitsState, Provisioned, Slots,
     IdleScreens
<1>4. ASSUME NEW p \in Incoming, NEW ok1 \in BOOLEAN, NEW ok2 \in BOOLEAN,
             TickIdle(p, ok1, ok2)
      PROVE  DevInv'
  <2>1. /\ state = "idle" /\ UNCHANGED <<state, fsmKey, idKey>>
        /\ screen' = IF screen = "sending" THEN "inbox" ELSE screen
    BY <1>4 DEF TickIdle
  <2> QED
    BY <1>0, <2>1 DEF WriteInv, SetupInv, ScreenInv, KeyInv, IdentityWhole,
       KeyedWhenIdle, BlankUntilSetUp, ScreenFitsState, Provisioned, IdleScreens
<1> QED
  BY <1>1, <1>2, <1>3, <1>4 DEF Tick

\* A power failure, also one that tears the field being written.
LEMMA DevPowerLoss ==
    ASSUME DevInv, PowerLoss
    PROVE  DevInv'
<1> USE DEF DevInv, Kinds
<1>1. PICK ok \in BOOLEAN : Boot(ok)
  BY DEF PowerLoss
<1>2. /\ gen' = gen /\ ee' \in EEPROM
      /\ Provisioned' => Provisioned /\ ee' = ee
  <2>1. CASE ee' = ee
    BY <2>1 DEF PowerLoss, Provisioned
  <2>2. CASE phase = "write" /\ ee' = [ee EXCEPT ![Head(todo)[1]] = -1]
    <3>1. Provisioning \/ Wiping
      BY <2>2 DEF WriteInv
    <3>2. Head(todo)[1] \in {"magic", "id", "key", "pin"}
          /\ (Provisioned => Head(todo)[1] = "magic")
      BY <3>1 DEF Provisioning, Wiping, ProvisionWrites, Erasures
    <3> QED
      BY <2>2, <3>2 DEF PowerLoss, EEPROM, Fields, Field, Provisioned
  <2> QED
    BY <2>1, <2>2 DEF PowerLoss
<1>3. CASE ok
  BY <1>1, <1>2, <1>3 DEF Boot, WriteInv, SetupInv, ScreenInv, KeyInv, IdentityWhole,
     KeyedWhenIdle, BlankUntilSetUp, ScreenFitsState, Provisioned, Slots
<1>4. CASE ~ok
  BY <1>1, <1>2, <1>4 DEF Boot, WriteInv, SetupInv, ScreenInv, KeyInv, IdentityWhole,
     KeyedWhenIdle, BlankUntilSetUp, ScreenFitsState, Provisioned, Slots
<1> QED
  BY <1>3, <1>4

\* Every step preserves the invariant.
LEMMA DevNext == DevInv /\ [Next]_vars => DevInv'
<1> SUFFICES ASSUME DevInv, [Next]_vars PROVE DevInv'
  OBVIOUS
<1>1. CASE UNCHANGED <<gen, ee, todo, idKey, phase, radioOk, state, fsmKey, screen, msgs>>
  <2>1. (Provisioning => Provisioning') /\ (Wiping => Wiping')
    BY <1>1 DEF Provisioning, Wiping, Provisioned, ProvisionWrites, Erasures, Slots
  <2>2. Provisioned' <=> Provisioned
    BY <1>1 DEF Provisioned
  <2>3. Kinds' /\ WriteInv'
    BY <1>1, <2>1 DEF DevInv, Kinds, WriteInv
  <2>4. SetupInv' /\ ScreenInv' /\ ScreenFitsState'
    BY <1>1, <2>2 DEF DevInv, SetupInv, ScreenInv, ScreenFitsState
  <2>5. KeyInv' /\ IdentityWhole' /\ KeyedWhenIdle' /\ BlankUntilSetUp'
    BY <1>1, <2>2 DEF DevInv, KeyInv, IdentityWhole, KeyedWhenIdle, BlankUntilSetUp, Slots
  <2> QED
    BY <2>3, <2>4, <2>5 DEF DevInv
<1>2. CASE Draw \/ Clock \/ UNCHANGED vars
  BY <1>1, <1>2 DEF Draw, Clock, vars, idVars, storeVars
<1> QED
  BY <1>2, DevPress, DevOpen, DevProvision, DevPanic, DevWrite, DevTick, DevPowerLoss
     DEF Next, Press

\* The invariant of the device.
LEMMA DevAlways == Spec => []DevInv
  BY DevInit, DevNext, PTL DEF Spec

\* identity::provision and identity::wipe: wherever the power fails, a device
\* that starts as provisioned has the id, the key and the PIN of one
\* provisioning.
THEOREM IdentityNeverTorn == Spec => []IdentityWhole
<1>1. DevInv => IdentityWhole
  BY DEF DevInv
<1> QED
  BY <1>1, DevAlways, PTL

\* fsm::tick: a device with a working radio processes messages only with the
\* key of the identity it holds.
THEOREM NeverIdleWithoutKey == Spec => []KeyedWhenIdle
<1>1. DevInv => KeyedWhenIdle
  BY DEF DevInv
<1> QED
  BY <1>1, DevAlways, PTL

\* fsm::panic_wipe: after it, and until the next setup, there is no key and no
\* message in a device with a working radio.
THEOREM WipedDeviceStaysBlank == Spec => []BlankUntilSetUp
<1>1. DevInv => BlankUntilSetUp
  BY DEF DevInv
<1> QED
  BY <1>1, DevAlways, PTL

\* No sequence of presses and power failures leads to a screen that does not
\* belong to the state.
THEOREM ScreensFollowState == Spec => []ScreenFitsState
<1>1. DevInv => ScreenFitsState
  BY DEF DevInv
<1> QED
  BY <1>1, DevAlways, PTL

-----------------------------------------------------------------------------
(* The slots of the message store *)

Store == [Slots -> Message \cup {None}]
MsgStates == {"queued", "sending", "sent", "delivered", "expired"}

\* A set of naturals has a least element: what the loops over slots start from.
LEMMA LeastExists ==
    ASSUME NEW S, S \subseteq Nat, S # {}
    PROVE  \E i \in S : \A j \in S : i <= j
<1> DEFINE R == OpToRel(<, Nat)
<1>1. IsWellFoundedOn(R, Nat)
  BY NatLessThanWellFounded
<1>2. \A i, j \in Nat : i < j => <<i, j>> \in R
  BY DEF OpToRel
<1> HIDE DEF R
<1>3. PICK i \in S : \A j \in S : ~(<<j, i>> \in R)
  BY <1>1, WFMin
<1>4. ASSUME NEW j \in S PROVE i <= j
  <2>1. i \in Nat /\ j \in Nat
    OBVIOUS
  <2>2. ~(j < i)
    BY <1>2, <1>3, <2>1
  <2> QED
    BY <2>1, <2>2
<1> QED
  BY <1>4

\* The first slot of a set is one of it.
LEMMA FirstIn ==
    ASSUME NEW S, S \subseteq Slots, S # {}
    PROVE  First(S) \in S
<1>1. S \subseteq Nat
  BY DEF Slots
<1>2. \E i \in S : \A j \in S : i <= j
  BY <1>1, LeastExists
<1> QED
  BY <1>2 DEF First

\* A full store has an oldest message.
LEMMA OldestExists ==
    ASSUME NEW ms \in Store, Free(ms) = {}
    PROVE  Oldest(ms) # {}
<1>1. \A i \in Slots : ms[i] \in Message
  BY DEF Store, Free
<1>2. \A i \in Slots : ms[i].at \in Nat
  BY <1>1 DEF Message
<1> DEFINE T == {ms[i].at : i \in Slots}
<1>3. T \subseteq Nat /\ T # {}
  <2>1. 1 \in Slots
    BY DeviceAssumption DEF Slots
  <2> QED
    BY <1>2, <2>1
<1>4. PICK t \in T : \A u \in T : t <= u
  <2> HIDE DEF T
  <2> QED
    BY <1>3, LeastExists
<1>5. PICK i \in Slots : t = ms[i].at
  OBVIOUS
<1>6. \A j \in Slots : ms[i].at <= ms[j].at
  BY <1>4, <1>5
<1> QED
  BY <1>6 DEF Oldest

\* find_slot: what it gives up.
LEMMA SlotFound ==
    ASSUME NEW ms \in Store
    PROVE  /\ FindSlot(ms) \in Slots
           /\ ms[FindSlot(ms)] # None => Free(ms) = {}
           /\ ms[FindSlot(ms)] # None /\ ~Expired(ms[FindSlot(ms)]) =>
                 /\ Dead(ms) = {}
                 /\ \A j \in Slots : ms[FindSlot(ms)].at <= ms[j].at
<1>1. Free(ms) \subseteq Slots /\ Dead(ms) \subseteq Slots /\ Oldest(ms) \subseteq Slots
  BY DEF Free, Dead, Oldest
<1>2. CASE Free(ms) # {}
  <2>1. FindSlot(ms) = First(Free(ms))
    BY <1>2 DEF FindSlot
  <2>2. FindSlot(ms) \in Free(ms)
    BY <1>1, <1>2, <2>1, FirstIn
  <2> QED
    BY <1>1, <2>2 DEF Free
<1>3. CASE Free(ms) = {} /\ Dead(ms) # {}
  <2>1. FindSlot(ms) = First(Dead(ms))
    BY <1>3 DEF FindSlot
  <2>2. FindSlot(ms) \in Dead(ms)
    BY <1>1, <1>3, <2>1, FirstIn
  <2> QED
    BY <1>1, <1>3, <2>2 DEF Dead
<1>4. CASE Free(ms) = {} /\ Dead(ms) = {}
  <2>1. FindSlot(ms) = First(Oldest(ms))
    BY <1>4 DEF FindSlot
  <2>2. FindSlot(ms) \in Oldest(ms)
    BY <1>1, <1>4, <2>1, FirstIn, OldestExists
  <2> QED
    BY <1>1, <1>4, <2>2 DEF Oldest
<1> QED
  BY <1>2, <1>3, <1>4

\* What never changes while a message keeps its slot.
Kept(m, n) ==
    /\ m \in Message /\ n \in Message
    /\ n.id = m.id /\ n.at = m.at /\ n.exp = m.exp
    /\ n.in = m.in /\ n.burn = m.burn /\ n.read = m.read

\* A change of status, ...
LEMMA StatusSet ==
    ASSUME NEW m \in Message, NEW s \in MsgStates
    PROVE  Kept(m, [m EXCEPT !.st = s]) /\ [m EXCEPT !.st = s].st = s
  BY DEF Kept, Message, MsgStates

\* ... a transmission ...
LEMMA SentSet ==
    ASSUME NEW m \in Message, NEW s \in MsgStates, NEW k \in Nat
    PROVE  /\ Kept(m, [m EXCEPT !.st = s, !.sentAs = k])
           /\ [m EXCEPT !.st = s, !.sentAs = k].st = s
  BY DEF Kept, Message, MsgStates

\* ... and a reading keep the message.
LEMMA ReadSet ==
    ASSUME NEW m \in Message
    PROVE  /\ [m EXCEPT !.read = TRUE] \in Message
           /\ [m EXCEPT !.read = TRUE].id = m.id
           /\ [m EXCEPT !.read = TRUE].at = m.at
  BY DEF Message

\* A slot after something was received: as before, a new message in the slot
\* that find_slot names, or an outgoing message that is acknowledged.
LEMMA ReceivedSlots ==
    ASSUME NEW ms \in Store, NEW p \in Incoming, now \in Nat
    PROVE  /\ Received(ms, p) \in Store
           /\ \A i \in Slots :
                 \/ Received(ms, p)[i] = ms[i]
                 \/ /\ i = FindSlot(ms)
                    /\ Received(ms, p)[i] \in Message
                    /\ Received(ms, p)[i].at = now /\ ~Received(ms, p)[i].read
                 \/ Kept(ms[i], Received(ms, p)[i]) /\ Received(ms, p)[i].st = "delivered"
<1> DEFINE r == Received(ms, p)
<1>1. CASE r = ms
  BY <1>1
<1>2. CASE p # None /\ p.kind = "text" /\ r = AddIncoming(ms, p) /\ r # ms
  <2>1. p.id \in Texts /\ p.burn \in BOOLEAN
    BY <1>2, DeviceAssumption DEF Incoming
  <2> DEFINE m == [in |-> TRUE, id |-> p.id, peer |-> PeerOf[p.id], at |-> now,
                   exp |-> now + MsgTTL, read |-> FALSE, burn |-> p.burn,
                   sentAs |-> 0, st |-> "delivered"]
  <2>2. r = [ms EXCEPT ![FindSlot(ms)] = m]
    BY <1>2 DEF AddIncoming
  <2>3. PeerOf[p.id] \in Peers /\ now + MsgTTL \in Nat
    BY <2>1, DeviceAssumption
  <2>4. m \in Message
    BY <2>1, <2>3 DEF Message
  <2>5. m.at = now /\ ~m.read
    OBVIOUS
  <2> HIDE DEF m
  <2>6. FindSlot(ms) \in Slots
    BY SlotFound
  <2> HIDE DEF r
  <2>7. r \in Store /\ r[FindSlot(ms)] = m /\ \A i \in Slots : i # FindSlot(ms) => r[i] = ms[i]
    BY <2>2, <2>4, <2>6 DEF Store
  <2>8. /\ r \in Store
        /\ \A i \in Slots : r[i] = ms[i] \/ (i = FindSlot(ms) /\ r[i] \in Message /\ r[i].at = now /\ ~r[i].read)
    BY <2>4, <2>5, <2>7
  <2> QED
    BY <2>8, Zenon DEF r
<1>3. CASE Acked(ms, p) # {} /\ r = [ms EXCEPT ![First(Acked(ms, p))].st = "delivered"]
  <2> DEFINE k == First(Acked(ms, p))
             m == [ms[k] EXCEPT !.st = "delivered"]
  <2>1. k \in Acked(ms, p)
    BY <1>3, FirstIn DEF Acked, Used
  <2>2. k \in Slots /\ ms[k] \in Message
    BY <2>1 DEF Acked, Used, Free, Store
  <2>3. Kept(ms[k], m) /\ m.st = "delivered" /\ m \in Message
    BY <2>2, StatusSet DEF MsgStates, Kept
  <2>4. r = [ms EXCEPT ![k] = m]
    BY <1>3
  <2> HIDE DEF k, m, r
  <2>5. r \in Store /\ r[k] = m /\ \A i \in Slots : i # k => r[i] = ms[i]
    BY <2>2, <2>3, <2>4 DEF Store
  <2>6. /\ r \in Store
        /\ \A i \in Slots : r[i] = ms[i] \/ (Kept(ms[i], r[i]) /\ r[i].st = "delivered")
    BY <2>3, <2>5
  <2> QED
    BY <2>6, Zenon DEF r
<1> QED
  BY <1>1, <1>2, <1>3 DEF Received

\* send_text_message changes one slot.
LEMMA TransmitSlots ==
    ASSUME NEW ms \in Store, NEW k \in Slots, ms[k] \in Message, NEW ok \in BOOLEAN, NEW n \in Nat
    PROVE  /\ Transmit(ms, k, ok, n) \in Store
           /\ Kept(ms[k], Transmit(ms, k, ok, n)[k])
           /\ Transmit(ms, k, ok, n)[k].st \in {"sent", "queued"}
           /\ \A i \in Slots : i # k => Transmit(ms, k, ok, n)[i] = ms[i]
<1> DEFINE st == IF ok THEN "sent" ELSE "queued"
           as == IF ok THEN n ELSE ms[k].sentAs
           m == [ms[k] EXCEPT !.st = st, !.sentAs = as]
           r == Transmit(ms, k, ok, n)
<1>1. st \in MsgStates /\ st \in {"sent", "queued"}
  BY DEF MsgStates
<1>2. as \in Nat
  BY DEF Message
<1>3. r = [ms EXCEPT ![k] = m]
  <2>1. r = [ms EXCEPT ![k].st = st, ![k].sentAs = IF ok THEN n ELSE @]
    BY Zenon DEF Transmit
  <2>2. CASE ok
    BY <2>1, <2>2 DEF Store
  <2>3. CASE ~ok
    BY <2>1, <2>3 DEF Store
  <2> QED
    BY <2>2, <2>3
<1> HIDE DEF st, as
<1>4. Kept(ms[k], m) /\ m.st = st /\ m \in Message
  <2>1. Kept(ms[k], m) /\ m.st = st
    BY <1>1, <1>2, SentSet
  <2> HIDE DEF m
  <2> QED
    BY <2>1 DEF Kept
<1> HIDE DEF m, r
<1>5. r \in Store /\ r[k] = m /\ \A i \in Slots : i # k => r[i] = ms[i]
  BY <1>3, <1>4 DEF Store
<1> QED
  BY <1>1, <1>4, <1>5, Zenon DEF r

\* msg_store::tick: a message expires, or is taken up for sending.
LEMMA AgedMessage ==
    ASSUME NEW m \in Message \cup {None}, now \in Nat
    PROVE  /\ m = None => Aged(m) = None
           /\ m # None => /\ Kept(m, Aged(m))
                          /\ m.burn /\ m.read /\ m.in => Expired(Aged(m))
                          /\ ~Expired(m) /\ now <= m.exp /\ ~(m.burn /\ m.read /\ m.in)
                                => ~Expired(Aged(m))
<1>1. CASE m = None
  BY <1>1 DEF Aged
<1>2. CASE m # None
  <2>1. m \in Message /\ m.exp \in Nat
    BY <1>2 DEF Message
  <2>2. Kept(m, m)
    BY <2>1 DEF Kept
  <2>3. /\ Kept(m, [m EXCEPT !.st = "expired"]) /\ [m EXCEPT !.st = "expired"].st = "expired"
        /\ Kept(m, [m EXCEPT !.st = "sending"]) /\ [m EXCEPT !.st = "sending"].st = "sending"
    BY <2>1, StatusSet DEF MsgStates
  <2> DEFINE burnt == m.burn /\ m.read /\ m.in
  <2>4. CASE Expired(m)
    BY <1>2, <2>2, <2>4, Zenon DEF Aged
  <2>5. CASE ~Expired(m) /\ (now > m.exp \/ burnt)
    <3>1. Aged(m) = [m EXCEPT !.st = "expired"]
      BY <1>2, <2>5, Zenon DEF Aged
    <3>2. Kept(m, Aged(m)) /\ Expired(Aged(m))
      BY <2>3, <3>1, Zenon DEF Expired
    <3>3. ~(now <= m.exp /\ ~burnt)
      <4>1. now > m.exp => ~(now <= m.exp)
        BY <2>1
      <4> QED
        BY <2>5, <4>1, Zenon
    <3> QED
      BY <1>2, <3>2, <3>3, Zenon
  <2>6. CASE ~Expired(m) /\ ~(now > m.exp \/ burnt)
    <3>1. Aged(m) = m \/ Aged(m) = [m EXCEPT !.st = "sending"]
      BY <1>2, <2>6, Zenon DEF Aged
    <3>2. ~Expired([m EXCEPT !.st = "sending"])
      BY <2>3 DEF Expired
    <3>3. Kept(m, Aged(m)) /\ ~Expired(Aged(m))
      BY <2>2, <2>3, <2>6, <3>1, <3>2, Zenon
    <3> QED
      BY <1>2, <2>6, <3>3, Zenon
  <2> QED
    BY <2>4, <2>5, <2>6, Zenon
<1> QED
  BY <1>1, <1>2

\* A message kept by two steps is kept by both together.
LEMMA KeptOn ==
    ASSUME NEW l, NEW m, NEW n, Kept(l, m), Kept(m, n)
    PROVE  Kept(l, n)
  BY DEF Kept

\* A message that was to burn when it was read, and was.
Burnt(m) == m # None /\ m.in /\ m.burn /\ m.read

\* What the store and the screens hold beside their types: a conversation
\* and a draft have a peer, no message is of the future, and a message that
\* burns expires in the iteration in which it was opened.
StoreInv ==
    /\ msgs \in Store
    /\ now \in Nat /\ counter \in Nat /\ sent \in Nat
    /\ peerList \in Seq(Peers)
    /\ screen = "conversation" => convPeer \in Peers
    /\ screen \in {"compose", "sending"} => draft.to \in Peers \cup {All}
    /\ \A i \in Slots : msgs[i] # None => msgs[i].at <= now
    /\ phase # "tick" \/ screen # "conversation"
          => \A i \in Slots : Burnt(msgs[i]) => Expired(msgs[i])

\* A slot of the store ms that msgs becomes before a draft is queued: empty
\* as before, with its message, or with a new one where find_slot put it.
Carried(ms, i) ==
    \/ msgs[i] = None /\ ms[i] = None
    \/ /\ Kept(msgs[i], ms[i])
       /\ Alive(msgs[i]) /\ ~Burnt(msgs[i]) => ~Expired(ms[i])
    \/ i = FindSlot(msgs) /\ ms[i] \in Message /\ ms[i].at = now

\* Receiving, sending the first pending message, and aging.
LEMMA CarriedSlots ==
    ASSUME StoreInv, NEW p \in Incoming, NEW ok \in BOOLEAN, NEW n \in Nat,
           NEW one, one = Received(msgs, p),
           NEW two, two = IF Sending(one) = {} THEN one ELSE Transmit(one, First(Sending(one)), ok, n),
           NEW old, old = [i \in Slots |-> Aged(two[i])]
    PROVE  /\ old \in Store
           /\ \A i \in Slots : Carried(old, i)
           /\ \A i \in Slots : Burnt(old[i]) => Expired(old[i])
<1>0. msgs \in Store /\ now \in Nat
  BY DEF StoreInv
<1> DEFINE New(ms, i) == i = FindSlot(msgs) /\ ms[i] \in Message /\ ms[i].at = now
<1>1. /\ one \in Store
      /\ \A i \in Slots :
            \/ one[i] = msgs[i]
            \/ New(one, i)
            \/ Kept(msgs[i], one[i]) /\ one[i].st = "delivered"
  <2>1. /\ Received(msgs, p) \in Store
        /\ \A i \in Slots :
                 \/ Received(msgs, p)[i] = msgs[i]
                 \/ /\ i = FindSlot(msgs)
                    /\ Received(msgs, p)[i] \in Message
                    /\ Received(msgs, p)[i].at = now /\ ~Received(msgs, p)[i].read
                 \/ Kept(msgs[i], Received(msgs, p)[i]) /\ Received(msgs, p)[i].st = "delivered"
    BY <1>0, ReceivedSlots
  <2> QED
    BY <2>1, Zenon
<1>2. /\ two \in Store
      /\ \A i \in Slots :
            \/ two[i] = msgs[i]
            \/ New(two, i)
            \/ Kept(msgs[i], two[i]) /\ ~Expired(two[i])
  <2>1. CASE Sending(one) = {}
    <3>1. two = one
      BY <2>1
    <3> QED
      BY <1>1, <3>1 DEF Expired
  <2>2. CASE Sending(one) # {}
    <3> DEFINE k == First(Sending(one))
    <3>1. k \in Sending(one)
      BY <2>2, FirstIn DEF Sending, Used
    <3>2. k \in Slots /\ one[k] \in Message
      BY <1>1, <3>1 DEF Sending, Used, Free, Store
    <3>3. two = Transmit(one, k, ok, n)
      BY <2>2
    <3> HIDE DEF k
    <3>4. /\ two \in Store
          /\ Kept(one[k], two[k]) /\ two[k].st \in {"sent", "queued"}
          /\ \A i \in Slots : i # k => two[i] = one[i]
      BY <1>1, <3>2, <3>3, TransmitSlots
    <3>5. two[k].at = one[k].at /\ two[k] \in Message /\ ~Expired(two[k])
      BY <3>4 DEF Kept, Expired
    <3>6. New(one, k) => New(two, k)
      BY <3>5
    <3>7. one[k] = msgs[k] \/ Kept(msgs[k], one[k]) => Kept(msgs[k], two[k])
      BY <3>4, KeptOn
    <3>8. ASSUME NEW i \in Slots, i # k
          PROVE  two[i] = msgs[i] \/ New(two, i) \/ (Kept(msgs[i], two[i]) /\ ~Expired(two[i]))
      BY <1>1, <3>4, <3>8 DEF Expired
    <3>9. New(two, k) \/ (Kept(msgs[k], two[k]) /\ ~Expired(two[k]))
      BY <1>1, <3>2, <3>5, <3>6, <3>7
    <3> QED
      BY <3>4, <3>8, <3>9
  <2> QED
    BY <2>1, <2>2
<1>3. ASSUME NEW i \in Slots
      PROVE  /\ old[i] \in Message \cup {None}
             /\ Carried(old, i)
             /\ Burnt(old[i]) => Expired(old[i])
  <2>0. two[i] \in Message \cup {None} /\ old[i] = Aged(two[i])
    BY <1>2 DEF Store
  <2>1. CASE two[i] = None
    <3>1. old[i] = None
      BY <1>0, <2>0, <2>1, AgedMessage
    <3>2. msgs[i] = None
      BY <1>2, <2>1, NoneAssumption DEF Kept
    <3> QED
      BY <3>1, <3>2 DEF Carried, Burnt
  <2>2. CASE two[i] # None
    <3> DEFINE m == two[i]
               a == Aged(two[i])
    <3>1. /\ Kept(m, a)
          /\ m.burn /\ m.read /\ m.in => Expired(a)
          /\ ~Expired(m) /\ now <= m.exp /\ ~(m.burn /\ m.read /\ m.in) => ~Expired(a)
      BY <1>0, <2>0, <2>2, AgedMessage
    <3>2. old[i] = a /\ m # None
      BY <2>0, <2>2
    <3>3. m = msgs[i] \/ New(two, i) \/ (Kept(msgs[i], m) /\ ~Expired(m))
      BY <1>2
    <3> HIDE DEF m, a
    <3>4. a \in Message /\ (Burnt(a) => Expired(a))
      BY <3>1, Zenon DEF Kept, Burnt
    <3>5. CASE New(two, i)
      <4>1. m.at = now
        BY <3>5 DEF m
      <4>2. a.at = now
        BY <3>1, <4>1 DEF Kept
      <4> QED
        BY <3>2, <3>4, <3>5, <4>2, Zenon DEF Carried
    <3>6. CASE m = msgs[i]
      <4>1. Alive(m) /\ ~Burnt(m) => ~Expired(a)
        BY <3>1, <3>2, Zenon DEF Alive, Burnt
      <4> QED
        BY <3>1, <3>2, <3>4, <3>6, <4>1, Zenon DEF Carried
    <3>7. CASE Kept(msgs[i], m) /\ ~Expired(m)
      <4>1. Kept(msgs[i], a)
        BY <3>1, <3>7, KeptOn
      <4>2. /\ m.exp = msgs[i].exp /\ m.in = msgs[i].in /\ m.burn = msgs[i].burn
            /\ m.read = msgs[i].read /\ msgs[i] # None
        BY <3>7, NoneAssumption, Zenon DEF Kept
      <4>3. Alive(msgs[i]) /\ ~Burnt(msgs[i]) => ~Expired(a)
        BY <3>1, <3>7, <4>2, Zenon DEF Alive, Burnt
      <4> QED
        BY <3>2, <3>4, <4>1, <4>3, Zenon DEF Carried
    <3> QED
      BY <3>3, <3>5, <3>6, <3>7
  <2> QED
    BY <2>1, <2>2
<1>4. old \in Store
  BY <1>3 DEF Store
<1> QED
  BY <1>3, <1>4

\* msg_store::queue_outgoing and its transmission.
LEMMA QueuedSlots ==
    ASSUME NEW ms \in Store, now \in Nat, counter \in Nat, NEW to \in Peers \cup {All},
           NEW ok \in BOOLEAN, NEW n \in Nat,
           NEW r, r = Transmit(QueueOutgoing(ms, to), FindSlot(ms), ok, n)
    PROVE  /\ r \in Store
           /\ r[FindSlot(ms)] \in Message /\ r[FindSlot(ms)].at = now
           /\ ~r[FindSlot(ms)].in /\ ~Expired(r[FindSlot(ms)])
           /\ \A i \in Slots : i # FindSlot(ms) => r[i] = ms[i]
<1> DEFINE k == FindSlot(ms)
           m == [in |-> FALSE, id |-> CounterId(counter + 1), peer |-> to, at |-> now,
                 exp |-> now + MsgTTL, read |-> TRUE, burn |-> FALSE, sentAs |-> 0, st |-> "queued"]
           q == QueueOutgoing(ms, to)
<1>1. k \in Slots
  BY SlotFound
<1>2. m \in Message
  <2>1. CounterId(counter + 1) \in {"counter"} \X Nat /\ now + MsgTTL \in Nat
    BY DeviceAssumption DEF CounterId
  <2> QED
    BY <2>1 DEF Message
<1>3. m.at = now /\ ~m.in
  OBVIOUS
<1>4. q = [ms EXCEPT ![k] = m]
  BY DEF QueueOutgoing
<1> HIDE DEF m, q
<1>5. q \in Store /\ q[k] = m /\ \A i \in Slots : i # k => q[i] = ms[i]
  BY <1>1, <1>2, <1>4 DEF Store
<1>6. r = Transmit(q, k, ok, n)
  BY DEF q
<1> HIDE DEF k
<1>7. /\ r \in Store /\ Kept(q[k], r[k]) /\ r[k].st \in {"sent", "queued"}
      /\ \A i \in Slots : i # k => r[i] = q[i]
  BY <1>1, <1>2, <1>5, <1>6, TransmitSlots
<1>8. r[k] \in Message /\ r[k].at = now /\ ~r[k].in /\ ~Expired(r[k])
  BY <1>3, <1>5, <1>7 DEF Kept, Expired
<1> QED
  BY <1>5, <1>7, <1>8 DEF k

\* The store after fsm::tick in STATE_IDLE: its invariant, and whom a new
\* message may replace.
LEMMA IdleStore ==
    ASSUME StoreInv, phase = "tick", NEW p \in Incoming, NEW ok1 \in BOOLEAN, NEW ok2 \in BOOLEAN,
           TickIdle(p, ok1, ok2)
    PROVE  /\ msgs' \in Store /\ counter' \in Nat /\ sent' \in Nat
           /\ \A i \in Slots : msgs'[i] # None => msgs'[i].at <= now
           /\ \A i \in Slots : Burnt(msgs'[i]) => Expired(msgs'[i])
           /\ \A i \in Slots : Overwritten(i) =>
                 \A j \in Slots :
                    /\ msgs'[j] # None
                    /\ msgs'[j].at >= msgs[i].at
                    /\ Expired(msgs'[j]) => ~Expired(msgs[j])
<1> DEFINE one == Received(msgs, p)
           due == Sending(one)
           n1 == IF due # {} /\ ok1 THEN sent + 1 ELSE sent
           two == IF due = {} THEN one ELSE Transmit(one, First(due), ok1, n1)
           old == [i \in Slots |-> Aged(two[i])]
           n2 == IF ok2 THEN n1 + 1 ELSE n1
           k == FindSlot(old)
<1>1. n1 \in Nat /\ n2 \in Nat
  BY DEF StoreInv
<1>2. /\ sent' = IF screen = "sending" THEN n2 ELSE n1
      /\ \/ /\ screen = "sending"
            /\ msgs' = Transmit(QueueOutgoing(old, draft.to), k, ok2, n2)
            /\ counter' = counter + 1
         \/ screen # "sending" /\ msgs' = old /\ counter' = counter
  BY Zenon DEF TickIdle
<1>3. two = IF Sending(one) = {} THEN one ELSE Transmit(one, First(Sending(one)), ok1, n1)
  OBVIOUS
<1> HIDE DEF n1, n2
<1>4. /\ old \in Store
      /\ \A i \in Slots : Carried(old, i)
      /\ \A i \in Slots : Burnt(old[i]) => Expired(old[i])
  BY <1>1, CarriedSlots
<1> HIDE DEF one, due, two, old
<1>5. k \in Slots
  BY <1>4, SlotFound
<1>6. /\ msgs' \in Store
      /\ \A i \in Slots : msgs'[i] = old[i] \/ (i = k /\ screen = "sending")
      /\ screen = "sending" => /\ msgs'[k] \in Message /\ msgs'[k].at = now
                               /\ ~msgs'[k].in /\ ~Expired(msgs'[k])
  <2>1. CASE screen # "sending"
    BY <1>2, <1>4, <2>1
  <2>2. CASE screen = "sending"
    <3>1. draft.to \in Peers \cup {All} /\ now \in Nat /\ counter \in Nat
      BY <2>2 DEF StoreInv
    <3>2. msgs' = Transmit(QueueOutgoing(old, draft.to), FindSlot(old), ok2, n2)
      BY <1>2, <2>2
    <3>3. /\ msgs' \in Store
          /\ msgs'[k] \in Message /\ msgs'[k].at = now
          /\ ~msgs'[k].in /\ ~Expired(msgs'[k])
          /\ \A i \in Slots : i # k => msgs'[i] = old[i]
      BY <1>1, <1>4, <3>1, <3>2, QueuedSlots
    <3> QED
      BY <2>2, <3>3
  <2> QED
    BY <2>1, <2>2
<1>7. counter' \in Nat /\ sent' \in Nat
  BY <1>1, <1>2 DEF StoreInv
<1>n. now \in Nat /\ \A m \in Message : m.at \in Nat
  BY DEF StoreInv, Message
\* No slot holds a message of the future.
<1>8. ASSUME NEW i \in Slots PROVE old[i] = None \/ (old[i] \in Message /\ old[i].at <= now)
  <2>1. Carried(old, i)
    BY <1>4
  <2>2. Kept(msgs[i], old[i]) => old[i] \in Message /\ old[i].at = msgs[i].at /\ msgs[i] # None
    BY NoneAssumption DEF Kept
  <2>3. msgs[i] # None => msgs[i].at <= now
    BY DEF StoreInv
  <2> QED
    BY <1>n, <2>1, <2>2, <2>3 DEF Carried
<1>9. \A i \in Slots : msgs'[i] # None => msgs'[i].at <= now
  BY <1>6, <1>8, <1>n
<1>10. \A i \in Slots : Burnt(msgs'[i]) => Expired(msgs'[i])
  BY <1>4, <1>6 DEF Burnt
\* A message that is alive gives up its slot.
<1>11. ASSUME NEW i \in Slots, Overwritten(i), NEW j \in Slots
       PROVE  /\ msgs'[j] # None
              /\ msgs'[j].at >= msgs[i].at
              /\ Expired(msgs'[j]) => ~Expired(msgs[j])
  <2>1. msgs[i] # None /\ ~Expired(msgs[i]) /\ Alive(msgs[i]) /\ msgs'[i].id # msgs[i].id
    BY <1>11 DEF Overwritten, Alive
  <2>2. msgs[i].at \in Nat /\ msgs[i].at <= now
    BY <1>n, <2>1 DEF StoreInv, Store
  <2>3. Carried(old, i) /\ Carried(old, j)
    BY <1>4
  <2>q. ASSUME screen = "sending", j = k
        PROVE  msgs'[j] # None /\ msgs'[j].at >= msgs[i].at /\ ~Expired(msgs'[j])
    BY <1>6, <1>n, <2>q, <2>2, NoneAssumption
  \* To the draft: old holds no expired message and none older.
  <2>4. CASE Kept(msgs[i], old[i]) /\ (Alive(msgs[i]) /\ ~Burnt(msgs[i]) => ~Expired(old[i]))
    <3>1. old[i].id = msgs[i].id /\ old[i].at = msgs[i].at /\ old[i] # None
      BY <2>4, NoneAssumption DEF Kept
    <3>2. i = k /\ screen = "sending"
      BY <1>6, <2>1, <3>1
    <3>3. ~Burnt(msgs[i])
      BY <2>1, <3>2 DEF StoreInv
    <3>4. ~Expired(old[i])
      BY <2>1, <2>4, <3>3
    <3>5. Free(old) = {} /\ Dead(old) = {} /\ \A h \in Slots : old[i].at <= old[h].at
      <4>1. old[k] # None /\ ~Expired(old[k])
        BY <3>1, <3>2, <3>4
      <4>2. Free(old) = {} /\ Dead(old) = {} /\ \A h \in Slots : old[k].at <= old[h].at
        BY <1>4, <4>1, SlotFound
      <4> QED
        BY <3>2, <4>2
    <3>6. old[j] # None /\ ~Expired(old[j]) /\ old[j].at >= msgs[i].at
      <4>1. old[j] # None /\ ~Expired(old[j]) /\ msgs[i].at <= old[j].at
        BY <3>1, <3>5 DEF Free, Dead
      <4>2. old[j].at \in Nat
        BY <1>8, <1>n, <4>1
      <4> QED
        BY <2>2, <4>1, <4>2
    <3>7. msgs'[j] = old[j] \/ j = k
      BY <1>6
    <3> QED
      BY <2>q, <3>2, <3>6, <3>7
  \* To what was received: msgs held no expired message and none older.
  <2>5. CASE i = FindSlot(msgs)
    <3>1. Free(msgs) = {} /\ Dead(msgs) = {} /\ \A h \in Slots : msgs[i].at <= msgs[h].at
      <4>1. msgs \in Store
        BY DEF StoreInv
      <4> QED
        BY <2>1, <2>5, <4>1, SlotFound
    <3>2. msgs[j] # None /\ ~Expired(msgs[j]) /\ msgs[i].at <= msgs[j].at
      BY <3>1 DEF Free, Dead
    <3>3. old[j] # None /\ msgs[i].at <= old[j].at /\ old[j].at \in Nat
      <4>1. Kept(msgs[j], old[j]) => old[j] \in Message /\ old[j].at = msgs[j].at
        BY DEF Kept
      <4> QED
        BY <1>n, <2>2, <2>3, <3>2, <4>1, NoneAssumption DEF Carried
    <3>4. msgs'[j] = old[j] \/ (j = k /\ screen = "sending")
      BY <1>6
    <3> QED
      BY <2>q, <2>2, <3>2, <3>3, <3>4
  <2> QED
    BY <2>1, <2>3, <2>4, <2>5 DEF Carried
<1> QED
  BY <1>6, <1>7, <1>9, <1>10, <1>11

-----------------------------------------------------------------------------
(* The list of peers *)

\* get_peers: there is a k-th slot among at least k.
LEMMA NthIn ==
    ASSUME NEW S, S \subseteq Slots, NEW k \in 1 .. Cardinality(S)
    PROVE  Nth(S, k) \in S
<1> DEFINE Upto(n) == {j \in S : j <= n}
           T == {n \in Nat : Cardinality(Upto(n)) >= k}
<1>0. MaxMsgs \in Nat /\ k \in Nat /\ k >= 1 /\ \A j \in S : j \in Nat /\ j >= 1 /\ j <= MaxMsgs
  BY DeviceAssumption DEF Slots
<1>1. IsFiniteSet(S)
  <2>1. IsFiniteSet(1 .. MaxMsgs)
    BY <1>0, FS_Interval
  <2> QED
    BY <2>1, FS_Subset DEF Slots
<1>2. \A n \in Nat : IsFiniteSet(Upto(n)) /\ Cardinality(Upto(n)) \in Nat
  <2> SUFFICES ASSUME NEW n \in Nat PROVE IsFiniteSet(Upto(n)) /\ Cardinality(Upto(n)) \in Nat
    OBVIOUS
  <2>1. Upto(n) \in SUBSET S
    OBVIOUS
  <2>2. IsFiniteSet(Upto(n))
    BY <1>1, <2>1, FS_Subset
  <2> QED
    BY <2>2, FS_CardinalityType
<1>3. MaxMsgs \in T
  <2>1. Upto(MaxMsgs) = S
    BY <1>0
  <2>2. Cardinality(S) >= k
    BY <1>1, FS_CardinalityType
  <2>3. Cardinality(Upto(MaxMsgs)) >= k
    BY <2>1, <2>2, Zenon
  <2> QED
    BY <1>0, <2>3
<1>4. PICK n \in T : \A m \in T : n <= m
  <2>1. T \subseteq Nat /\ T # {}
    BY <1>3
  <2> HIDE DEF T
  <2> QED
    BY <2>1, LeastExists
<1>5. n \in Nat /\ Cardinality(Upto(n)) >= k
  BY <1>4
<1>6. n # 0
  <2>1. Upto(0) = {}
    BY <1>0
  <2>2. Cardinality(Upto(0)) = 0
    BY <2>1, FS_EmptySet
  <2> QED
    BY <1>0, <1>5, <2>2
<1>7. n - 1 \in Nat /\ Cardinality(Upto(n - 1)) < k
  <2>1. n - 1 \in Nat /\ ~(n <= n - 1)
    BY <1>5, <1>6
  <2>2. n - 1 \notin T
    BY <1>4, <2>1
  <2>3. Cardinality(Upto(n - 1)) \in Nat
    BY <1>2, <2>1
  <2> QED
    BY <1>0, <2>1, <2>2, <2>3
<1>8. n \in S
  <2>1. SUFFICES ASSUME n \notin S PROVE FALSE
    OBVIOUS
  <2>2. Upto(n) = Upto(n - 1)
    BY <1>0, <1>5, <2>1
  <2> DEFINE c == Cardinality(Upto(n))
  <2>3. c \in Nat /\ c >= k
    BY <1>2, <1>5
  <2>4. c < k
    BY <1>7, <2>2, Zenon
  <2> HIDE DEF c
  <2> QED
    BY <1>0, <2>3, <2>4
<1>9. Cardinality(Upto(n)) = k
  <2>0. \A j \in S : j <= n <=> j <= n - 1 \/ j = n
    BY <1>0, <1>5
  <2>1. Upto(n) = Upto(n - 1) \cup {n} /\ n \notin Upto(n - 1)
    <3>1. n <= n /\ ~(n <= n - 1)
      BY <1>5
    <3> QED
      BY <1>8, <2>0, <3>1, Zenon
  <2>2. IsFiniteSet(Upto(n - 1)) /\ Cardinality(Upto(n - 1)) \in Nat
    BY <1>2, <1>7
  <2> DEFINE L == Upto(n - 1)
             U == Upto(n)
  <2>3. U = L \cup {n} /\ n \notin L /\ IsFiniteSet(L) /\ Cardinality(L) \in Nat
        /\ Cardinality(L) < k /\ Cardinality(U) >= k
    BY <1>5, <1>7, <2>1, <2>2
  <2> HIDE DEF L, U
  <2>4. Cardinality(U) = Cardinality(L) + 1
    BY <2>3, FS_AddElement
  <2>5. Cardinality(U) = k
    BY <1>0, <2>3, <2>4
  <2> QED
    BY <2>5 DEF U
<1> QED
  BY <1>8, <1>9 DEF Nth

\* get_peers returns peers only, never BROADCAST_ID.
LEMMA PeersListed ==
    ASSUME NEW ms \in Store
    PROVE  PeerSeq(ms) \in Seq(Peers)
<1> DEFINE S == {i \in Slots : Leads(ms, i)}
           n == Cardinality(S)
           m == IF n < MaxPeers THEN n ELSE MaxPeers
<1>1. n \in Nat
  <2>1. IsFiniteSet(1 .. MaxMsgs)
    BY FS_Interval, DeviceAssumption
  <2>2. IsFiniteSet(S)
    BY <2>1, FS_Subset DEF Slots
  <2> QED
    BY <2>2, FS_CardinalityType
<1>2. m \in Nat /\ m <= n
  BY <1>1, DeviceAssumption
<1>3. \A i \in S : ms[i].peer \in Peers
  BY DEF Leads, Store, Message
<1>4. S \subseteq Slots
  OBVIOUS
<1>5. PeerSeq(ms) = [k \in 1 .. m |-> ms[Nth(S, k)].peer]
  BY DEF PeerSeq
<1> HIDE DEF S
<1>6. \A k \in 1 .. n : Nth(S, k) \in S
  BY <1>4, NthIn
<1> HIDE DEF n, m
<1>7. \A k \in 1 .. m : ms[Nth(S, k)].peer \in Peers
  BY <1>1, <1>2, <1>3, <1>6
<1>8. [k \in 1 .. m |-> ms[Nth(S, k)].peer] \in [1 .. m -> Peers]
  BY <1>7
<1> QED
  BY <1>2, <1>5, <1>8, SeqDef

\* draw_inbox keeps a list of peers.
LEMMA RedrawnPeers ==
    ASSUME NEW ms \in Store, peerList \in Seq(Peers)
    PROVE  Redrawn(ms) \in Seq(Peers)
<1> DEFINE s == PeerSeq(ms)
           t == SubSeq(peerList, Len(s) + 1, Len(peerList))
<1>1. s \in Seq(Peers)
  BY PeersListed
<1> HIDE DEF s
<1>2. Len(s) + 1 >= 1 /\ Len(s) \in Nat /\ Len(peerList) \in Nat
  BY <1>1
<1>3. t \in Seq(Peers)
  BY <1>2, SubSeqProperties
<1> HIDE DEF t
<1>4. s \o t \in Seq(Peers)
  BY <1>1, <1>3, ConcatProperties
<1> QED
  BY <1>4 DEF Redrawn, s, t

-----------------------------------------------------------------------------
(* The types and the eviction of messages *)

\* The other types: with DevInv and StoreInv they make TypeOK.
RamInv ==
    /\ losses \in Nat
    /\ todo \in Seq(Fields \X Nat)
    /\ phase # "write" => todo = <<>>
    /\ fsmKey \in Nat \cup {-1}
    /\ anyPeer \in BOOLEAN
    /\ convPeer \in Peers \cup {None}
    /\ draft \in [to : Peers \cup {All, None}, text : BOOLEAN]

FullInv == DevInv /\ StoreInv /\ RamInv

\* What OldestGoesFirst says of a step.
Evicts ==
    \A i \in Slots : Overwritten(i) =>
        \A j \in Slots :
            /\ msgs'[j] # None
            /\ msgs'[j].at >= msgs[i].at
            /\ Expired(msgs'[j]) => ~Expired(msgs[j])

\* msg_store::clear
LEMMA EmptyStore ==
    ASSUME NEW ms, ms = [i \in Slots |-> None]
    PROVE  ms \in Store /\ \A i \in Slots : ms[i] = None
  BY DEF Store

\* The draft of another screen than that of compose.
LEMMA NoDraftTyped == NoDraft \in [to : Peers \cup {All, None}, text : BOOLEAN]
  BY DEF NoDraft

\* A new device satisfies the invariant.
LEMMA FullInit == Init => FullInv
<1> SUFFICES ASSUME Init PROVE FullInv
  OBVIOUS
<1>1. msgs \in Store /\ \A i \in Slots : msgs[i] = None
  BY EmptyStore DEF Init
<1>2. screen \in {"splash", "error"}
  BY DEF Init
<1>3. StoreInv
  BY <1>1, <1>2 DEF Init, StoreInv, Burnt
<1>4. RamInv
  <2>1. losses \in Nat /\ todo \in Seq(Fields \X Nat) /\ todo = <<>> /\ fsmKey \in Nat \cup {-1}
        /\ anyPeer = FALSE /\ convPeer = None /\ draft = NoDraft
    BY DEF Init
  <2> QED
    BY <2>1, NoDraftTyped, Zenon DEF RamInv
<1> QED
  BY <1>3, <1>4, DevInit DEF FullInv

\* A press that only moves leads neither to a conversation nor to a draft.
LEMMA ExitsPlain ==
    ASSUME NEW s \in Screens, NEW t \in Exits[s]
    PROVE  t \notin {"conversation", "compose", "sending"}
  BY DEF Exits, Screens

\* The screen is always one that is drawn.
LEMMA ScreenKnown ==
    ASSUME DevInv
    PROVE  screen \in Screens
  BY DEF DevInv, ScreenInv, Kinds, Screens, IdleScreens

\* Steps that leave the store alone.
LEMMA StoreKept ==
    ASSUME FullInv, UNCHANGED <<msgs, now, counter, sent>>, peerList' \in Seq(Peers),
           screen' = "conversation" => convPeer' \in Peers,
           screen' \in {"compose", "sending"} => draft'.to \in Peers \cup {All},
           phase # "tick" \/ screen # "conversation"
    PROVE  StoreInv' /\ Evicts
<1>1. StoreInv'
  BY DEF FullInv, StoreInv, Store, Slots
<1>2. Evicts
  BY DEF Evicts, Overwritten
<1> QED
  BY <1>1, <1>2

\* Presses of a button.
LEMMA FullPress ==
    ASSUME FullInv, Press
    PROVE  StoreInv' /\ RamInv' /\ Evicts
<1> USE DEF FullInv
<1>0. phase = "input" /\ losses' = losses /\ now' = now /\ counter' = counter /\ sent' = sent
      /\ peerList' = peerList /\ anyPeer' = anyPeer
  BY DEF Press, Skip, Move, OpenConversation, Compose, Edit, SendDraft, Provision, Panic,
         Pressed, procVars, uiVars, storeVars
<1>1. CASE Skip \/ SendDraft
  <2>1. UNCHANGED <<todo, fsmKey, uiVars, storeVars>> /\ phase' = "tick"
        /\ (screen' = screen \/ (screen = "compose" /\ screen' = "sending"))
    BY <1>1 DEF Skip, SendDraft, Pressed, idVars
  <2>2. StoreInv' /\ Evicts
    BY <1>0, <2>1, StoreKept DEF StoreInv, uiVars, storeVars
  <2> QED
    BY <1>0, <2>1, <2>2 DEF RamInv, uiVars
<1>2. CASE Move
  <2>1. UNCHANGED <<todo, fsmKey, storeVars>> /\ phase' = "tick" /\ Forget
        /\ screen' \in Exits[screen]
    BY <1>2 DEF Move, Pressed, idVars
  <2>2. screen' \notin {"conversation", "compose", "sending"}
    BY <2>1, ExitsPlain, ScreenKnown
  <2>3. StoreInv' /\ Evicts
    BY <1>0, <2>1, <2>2, StoreKept DEF StoreInv, storeVars
  <2> QED
    BY <1>0, <2>1, <2>3 DEF RamInv, Forget, NoDraft
<1>3. CASE Compose
  <2>1. UNCHANGED <<todo, fsmKey, storeVars>> /\ phase' = "tick" /\ screen' = "compose"
        /\ convPeer' = None
    BY <1>3 DEF Compose, Pressed, idVars
  <2>2. PICK q \in Peers \cup {All} : draft' = [NoDraft EXCEPT !.to = q]
    BY <1>3 DEF Compose, StoreInv
  <2>3. draft' \in [to : Peers \cup {All, None}, text : BOOLEAN] /\ draft'.to = q
    BY <2>2 DEF NoDraft
  <2>4. StoreInv' /\ Evicts
    BY <1>0, <2>1, <2>3, StoreKept DEF StoreInv, storeVars
  <2> QED
    BY <1>0, <2>1, <2>3, <2>4 DEF RamInv
<1>4. CASE Edit
  <2>1. UNCHANGED <<todo, fsmKey, convPeer, storeVars>> /\ phase' = "tick"
        /\ screen' = "compose" /\ screen = "compose"
    BY <1>4 DEF Edit, Pressed, idVars
  <2>2. PICK b \in BOOLEAN : draft' = [draft EXCEPT !.text = b]
    BY <1>4, Zenon DEF Edit
  <2>3. draft' \in [to : Peers \cup {All, None}, text : BOOLEAN] /\ draft'.to = draft.to
    BY <2>2 DEF RamInv
  <2>4. StoreInv' /\ Evicts
    BY <1>0, <2>1, <2>3, StoreKept DEF StoreInv, storeVars
  <2> QED
    BY <1>0, <2>1, <2>3, <2>4 DEF RamInv
<1>5. CASE Provision
  <2>1. UNCHANGED <<fsmKey, uiVars, storeVars>> /\ phase' = "write" /\ screen' = "device_info"
        /\ todo' = ProvisionWrites(gen') /\ gen' \in Nat
    BY <1>5 DEF Provision, DevInv, Kinds
  <2>2. todo' \in Seq(Fields \X Nat)
    <3>1. ASSUME NEW f \in Fields PROVE <<f, gen'>> \in Fields \X Nat
      BY <2>1
    <3>2. /\ <<"id", gen'>> \in Fields \X Nat /\ <<"key", gen'>> \in Fields \X Nat
          /\ <<"pin", gen'>> \in Fields \X Nat /\ <<"magic", 1>> \in Fields \X Nat
      BY <3>1 DEF Fields
    <3> QED
      BY <2>1, <3>2 DEF ProvisionWrites
  <2>3. StoreInv' /\ Evicts
    BY <1>0, <2>1, StoreKept DEF StoreInv, storeVars
  <2> QED
    BY <1>0, <2>1, <2>2, <2>3 DEF RamInv, uiVars
<1>6. CASE Panic
  <2>1. phase' = "write" /\ screen' = "setup_welcome" /\ Forget /\ fsmKey' = 0 /\ todo' = Erasures
    BY <1>6 DEF Panic, WipeEnds
  <2>2. msgs' \in Store /\ \A i \in Slots : msgs'[i] = None
    BY <1>6, EmptyStore DEF Panic, ClearStore
  <2>3. todo' \in Seq(Fields \X Nat)
    BY <2>1 DEF Erasures, Fields
  <2>4. StoreInv'
    BY <1>0, <2>1, <2>2 DEF StoreInv, Store, Slots, Burnt
  <2>5. Evicts
    BY <2>2 DEF Evicts, Overwritten
  <2> QED
    BY <1>0, <2>1, <2>3, <2>4, <2>5 DEF RamInv, Forget, NoDraft
<1>7. CASE OpenConversation
  <2>1. UNCHANGED <<todo, fsmKey, draft>> /\ phase' = "tick" /\ screen' = "conversation"
    BY <1>7 DEF OpenConversation, Pressed, idVars
  <2>2. PICK k \in 1 .. Len(peerList) :
           /\ convPeer' = peerList[k]
           /\ msgs' = [i \in Slots |->
                         IF InConversation(msgs[i], peerList[k])
                         THEN [msgs[i] EXCEPT !.read = TRUE] ELSE msgs[i]]
    BY <1>7, Zenon DEF OpenConversation
  <2>3. convPeer' \in Peers
    BY <2>2, ElementOfSeq DEF StoreInv
  <2>4. ASSUME NEW i \in Slots
        PROVE  /\ msgs'[i] \in Message \cup {None}
               /\ msgs[i] = None => msgs'[i] = None
               /\ msgs[i] # None => msgs'[i].id = msgs[i].id /\ msgs'[i].at = msgs[i].at
    <3>1. msgs[i] \in Message \cup {None}
      BY DEF StoreInv, Store
    <3>2. CASE InConversation(msgs[i], peerList[k])
      <4>1. msgs'[i] = [msgs[i] EXCEPT !.read = TRUE] /\ msgs[i] # None
        BY <2>2, <3>2 DEF InConversation
      <4> QED
        BY <3>1, <4>1, ReadSet
    <3>3. CASE ~InConversation(msgs[i], peerList[k])
      BY <2>2, <3>1, <3>3
    <3> QED
      BY <3>2, <3>3
  <2>5. msgs' \in Store
    BY <2>2, <2>4 DEF Store
  <2>6. StoreInv'
    BY <1>0, <2>1, <2>3, <2>4, <2>5 DEF StoreInv, Store, Slots
  <2>7. Evicts
    BY <2>4 DEF Evicts, Overwritten, Alive
  <2> QED
    BY <1>0, <2>1, <2>3, <2>6, <2>7 DEF RamInv
<1> QED
  BY <1>1, <1>2, <1>3, <1>4, <1>5, <1>6, <1>7 DEF Press

\* fsm::tick.
LEMMA FullTick ==
    ASSUME FullInv, Tick
    PROVE  StoreInv' /\ RamInv' /\ Evicts
<1> USE DEF FullInv
<1>0. phase = "tick" /\ phase' = "input" /\ UNCHANGED <<now, losses, ee, todo, peerList, anyPeer>>
  BY DEF Tick, procVars
<1>k. idKey \in Nat /\ ee["key"] \in Nat \cup {-1}
  BY DEF DevInv, KeyInv, Kinds, EEPROM, Fields, Field
<1>1. CASE TickBoot \/ TickSetup \/ TickError
  <2>1. UNCHANGED <<convPeer, draft, storeVars>>
        /\ (fsmKey' = fsmKey \/ LoadKey)
        /\ state # "idle"
        /\ (screen' = screen \/ screen' \in {"splash", "inbox", "setup_welcome"})
    BY <1>1 DEF TickBoot, TickSetup, TickError
  <2>2. fsmKey' \in Nat \cup {-1}
    BY <1>k, <2>1 DEF LoadKey, RamInv
  <2>3. screen \notin {"conversation", "compose", "sending"}
    BY <2>1 DEF DevInv, ScreenInv, Kinds
  <2>4. StoreInv' /\ Evicts
    BY <1>0, <2>1, <2>3, StoreKept DEF StoreInv, storeVars
  <2> QED
    BY <1>0, <2>1, <2>2, <2>4 DEF RamInv
<1>2. ASSUME NEW p \in Incoming, NEW ok1 \in BOOLEAN, NEW ok2 \in BOOLEAN,
             TickIdle(p, ok1, ok2)
      PROVE  StoreInv' /\ RamInv' /\ Evicts
  <2>1. fsmKey' = fsmKey
        /\ \/ screen' = "inbox" /\ Forget
           \/ UNCHANGED <<screen, convPeer, draft>>
    BY <1>2 DEF TickIdle
  <2>2. /\ msgs' \in Store /\ counter' \in Nat /\ sent' \in Nat
        /\ \A i \in Slots : msgs'[i] # None => msgs'[i].at <= now
        /\ \A i \in Slots : Burnt(msgs'[i]) => Expired(msgs'[i])
        /\ Evicts
    BY <1>0, <1>2, IdleStore DEF Evicts
  <2>3. StoreInv'
    BY <1>0, <2>1, <2>2 DEF StoreInv, Store, Slots, Burnt
  <2> QED
    BY <1>0, <2>1, <2>2, <2>3, NoDraftTyped DEF RamInv, Forget
<1> QED
  BY <1>1, <1>2 DEF Tick

\* Every step preserves the invariant, and evicts what find_slot may.
LEMMA FullNext == FullInv /\ [Next]_vars => FullInv' /\ Evicts
<1> SUFFICES ASSUME FullInv, [Next]_vars PROVE StoreInv' /\ RamInv' /\ Evicts
  BY DevNext DEF FullInv
<1> USE DEF FullInv
<1>1. CASE WriteStep
  <2>1. UNCHANGED <<now, losses, fsmKey, screen, uiVars, storeVars>> /\ phase = "write"
        /\ todo' = Tail(todo) /\ phase' = IF Tail(todo) = <<>> THEN "tick" ELSE "write"
    BY <1>1 DEF WriteStep, procVars
  <2>2. todo # <<>>
    <3>1. Provisioning \/ Wiping
      BY <2>1 DEF DevInv, WriteInv
    <3>2. Provisioning => todo # <<>>
      BY DEF Provisioning, ProvisionWrites
    <3>3. Wiping => todo # <<>>
      BY DEF Wiping, Erasures
    <3> QED
      BY <3>1, <3>2, <3>3
  <2>3. todo' \in Seq(Fields \X Nat)
    BY <2>1, <2>2 DEF RamInv
  <2>4. StoreInv' /\ Evicts
    BY <2>1, StoreKept DEF StoreInv, uiVars, storeVars
  <2> QED
    BY <2>1, <2>3, <2>4 DEF RamInv, uiVars
<1>2. CASE Draw
  <2>1. UNCHANGED <<now, losses, todo, phase, fsmKey, screen, convPeer, draft, storeVars>>
        /\ phase = "input" /\ peerList' = Redrawn(msgs) /\ anyPeer' \in BOOLEAN
    BY <1>2 DEF Draw, procVars, idVars
  <2>2. peerList' \in Seq(Peers)
    BY <2>1, RedrawnPeers DEF StoreInv
  <2>3. StoreInv' /\ Evicts
    BY <2>1, <2>2, StoreKept DEF StoreInv, storeVars
  <2> QED
    BY <2>1, <2>3 DEF RamInv
<1>3. CASE Clock
  <2>1. UNCHANGED <<losses, todo, phase, fsmKey, screen, uiVars, storeVars>>
        /\ phase = "input" /\ now' = now + 1
    BY <1>3 DEF Clock, idVars
  <2>2. \A m \in Message : m.at \in Nat
    BY DEF Message
  <2>3. \A i \in Slots : msgs[i] # None => msgs[i].at <= now + 1
    BY <2>2 DEF StoreInv, Store
  <2>4. StoreInv'
    BY <2>1, <2>3 DEF StoreInv, Store, Slots, uiVars, storeVars
  <2>5. Evicts
    BY <2>1 DEF Evicts, Overwritten, storeVars
  <2> QED
    BY <2>1, <2>4, <2>5 DEF RamInv, uiVars
<1>4. CASE PowerLoss
  <2>1. /\ losses' = losses + 1 /\ UNCHANGED <<now, sent>>
        /\ screen' \in {"splash", "error"} /\ phase' = "input" /\ todo' = <<>>
        /\ fsmKey' = 0 /\ peerList' = <<>> /\ anyPeer' = FALSE /\ convPeer' = None
        /\ draft' = NoDraft /\ msgs' = [i \in Slots |-> None] /\ counter' = 0
    BY <1>4 DEF PowerLoss, Boot
  <2>2. msgs' \in Store /\ \A i \in Slots : msgs'[i] = None
    BY <2>1, EmptyStore
  <2>3. StoreInv'
    BY <2>1, <2>2 DEF StoreInv, Store, Slots, Burnt
  <2>4. Evicts
    BY <2>2 DEF Evicts, Overwritten
  <2> QED
    <3>1. losses' \in Nat /\ todo' \in Seq(Fields \X Nat) /\ fsmKey' \in Nat \cup {-1}
      BY <2>1 DEF RamInv
    <3>2. RamInv'
      BY <2>1, <3>1, NoDraftTyped, Zenon DEF RamInv
    <3> QED
      BY <2>3, <2>4, <3>2
<1>5. CASE UNCHANGED vars
  <2>1. UNCHANGED <<now, losses, todo, phase, fsmKey, screen, uiVars, storeVars>>
    BY <1>5 DEF vars, procVars, idVars
  <2>2. StoreInv'
    BY <2>1 DEF StoreInv, Store, Slots, uiVars, storeVars
  <2>3. Evicts
    BY <2>1 DEF Evicts, Overwritten, storeVars
  <2> QED
    BY <2>1, <2>2, <2>3 DEF RamInv, uiVars
<1> QED
  BY <1>1, <1>2, <1>3, <1>4, <1>5, FullPress, FullTick DEF Next

\* The invariant of the device and of its store.
LEMMA FullAlways == Spec => []FullInv
  BY FullInit, FullNext, PTL DEF Spec

\* The types of the device: among others, a conversation and an entry of the
\* inbox always have a peer that is not BROADCAST_ID.
THEOREM DeviceTypes == Spec => []TypeOK
<1>1. FullInv => TypeOK
  <2> SUFFICES ASSUME FullInv PROVE TypeOK
    OBVIOUS
  <2>1. idKey \in Nat \cup {-1} /\ gen \in Nat /\ ee \in EEPROM /\ radioOk \in BOOLEAN
        /\ phase \in {"input", "write", "tick"} /\ state \in {"boot", "setup", "idle", "error"}
    BY DEF FullInv, DevInv, KeyInv, Kinds
  <2>2. screen \in Screens
    BY ScreenKnown DEF FullInv
  <2> QED
    BY <2>1, <2>2 DEF FullInv, StoreInv, RamInv, Store, TypeOK
<1> QED
  BY <1>1, FullAlways, PTL

\* find_slot: only a full store without expired messages gives up a message
\* that is still alive, and then none that is younger than another.
THEOREM EvictionIsFair == Spec => OldestGoesFirst
<1>1. FullInv /\ [Next]_vars => [Evicts]_vars
  BY FullNext
<1>2. Spec => [][Evicts]_vars
  BY <1>1, FullAlways, PTL DEF Spec
<1> QED
  BY <1>2 DEF OldestGoesFirst, Evicts
=============================================================================
