------------------------------ MODULE FrameSwitch ------------------------------
(***************************************************************************)
(* Bridge.run up to the native call: the profile of the frame becomes      *)
(* self.cfg, its parameters are compared with those of the call, and for a *)
(* frame after the first the four native modules are given the parameter   *)
(* set of the frame, one after the other, unless _geo_key says they have   *)
(* it.  The native launch compares the parameters it is handed with the    *)
(* set of its module (geo2::parameters).                                   *)
(*                                                                         *)
(* The calls of one thread follow one another.  Param[f][l] stands for the *)
(* parameter block of launch l in frame f; frames may share blocks.        *)
(***************************************************************************)
EXTENDS Naturals, Sequences

CONSTANTS Frame,       \* frame numbers, 0 among them
          Launch,
          OwnerOf,     \* the owner of each launch
          Param,
          GeoModules,  \* _geo_modules, in order
          NoFrame

ASSUME FrameAssumption == /\ 0 \in Frame /\ Frame \subseteq Nat /\ NoFrame \notin Frame
                          /\ DOMAIN Param = Frame
                          /\ \A f \in Frame : DOMAIN Param[f] = Launch
                          /\ Len(GeoModules) \in Nat

VARIABLES cfg,    \* the frame whose profile self.cfg is
          key,    \* _geo_key: the parameter blocks the modules should hold
          geo,    \* the parameter blocks each module holds
          call,   \* the call in progress: frame, launch, params
          brun,   \* where Bridge.run is
          next,   \* the next module to configure
          packet, \* the parameters configure handed to bridge_prefix
          torn,   \* history: the frame of a switch that failed and was not completed since
          rose    \* history: a frame after the first was prepared

bvars == <<cfg, key, geo, call, brun, next, packet, torn, rose>>

NativeModule == {GeoModules[i] : i \in 1 .. Len(GeoModules)}

BInit == /\ cfg = 0 /\ key = Param[0]
         /\ geo = [m \in NativeModule |-> Param[0]]
         /\ call = [frame |-> 0, launch |-> NoFrame, params |-> NoFrame]
         /\ brun = "idle" /\ next = 1 /\ packet = NoFrame
         /\ torn = NoFrame /\ rose = FALSE

Free == brun \in {"idle", "raised", "refused"}

(* self.cfg=json.loads(verified(profile)) *)
Select(f, l, p) == /\ Free
                   /\ call' = [frame |-> f, launch |-> l, params |-> p]
                   /\ cfg' = f /\ brun' = "profile"
                   /\ UNCHANGED <<key, geo, next, packet, torn, rose>>
(* MISSING_FRAME_LAUNCH_PROFILE, or a pin that differs: cfg stays.         *)
SelectFails(f, l, p) == /\ Free
                        /\ call' = [frame |-> f, launch |-> l, params |-> p]
                        /\ brun' = "raised"
                        /\ UNCHANGED <<cfg, key, geo, next, packet, torn, rose>>

(* SEALED_PROFILE_CALL_PARAMETERS_DIFF *)
RefuseCall == /\ brun = "profile"
              /\ Param[cfg][call.launch] # call.params
              /\ brun' = "raised"
              /\ UNCHANGED <<cfg, key, geo, call, next, packet, torn, rose>>

Stale == call.frame > 0 /\ Param[cfg] # key

CheckCall == /\ brun = "profile"
             /\ Param[cfg][call.launch] = call.params
             /\ brun' = IF Stale THEN "switch" ELSE "configure"
             /\ next' = 1 /\ rose' = (rose \/ Stale)
             /\ UNCHANGED <<cfg, key, geo, call, packet, torn>>

SwitchModule == /\ brun = "switch" /\ next <= Len(GeoModules)
                /\ geo' = [geo EXCEPT ![GeoModules[next]] = Param[cfg]]
                /\ next' = next + 1
                /\ UNCHANGED <<cfg, key, call, brun, packet, torn, rose>>

SwitchFails_KeyFirst == /\ brun = "switch" /\ next <= Len(GeoModules)
                        /\ brun' = "raised" /\ torn' = call.frame
                        /\ key' = Param[cfg]
                        /\ UNCHANGED <<cfg, geo, call, next, packet, rose>>
(* A module refuses the set: the ones before it keep the new one, _geo_key *)
(* the old.                                                                *)
SwitchFails == /\ brun = "switch" /\ next <= Len(GeoModules)
               /\ brun' = "raised" /\ torn' = call.frame
               /\ UNCHANGED <<cfg, key, geo, call, next, packet, rose>>

SwitchDone == /\ brun = "switch" /\ next > Len(GeoModules)
              /\ key' = Param[cfg] /\ torn' = NoFrame
              /\ brun' = "configure"
              /\ UNCHANGED <<cfg, geo, call, next, packet, rose>>

(* abi.configure(self.cfg, ...) reads the parameters of the profile and    *)
(* hands them to bridge_prefix; it may fail before or after that.          *)
Configure == /\ brun = "configure"
             /\ packet' = Param[cfg][call.launch]
             /\ brun' \in {"run", "raised"}
             /\ UNCHANGED <<cfg, key, geo, call, next, torn, rose>>

(* geo2::parameters; the ViT families have no geometry of their own.       *)
Bound_Unchecked == TRUE
Bound == LET o == OwnerOf[call.launch]
         IN  o \in NativeModule => geo[o][call.launch] = packet

Admit  == /\ brun = "run" /\ Bound
          /\ brun' = "native"
          /\ UNCHANGED <<cfg, key, geo, call, next, packet, torn, rose>>
Refuse == /\ brun = "run" /\ ~Bound
          /\ brun' = "refused"
          /\ UNCHANGED <<cfg, key, geo, call, next, packet, torn, rose>>
Done   == /\ brun = "native"
          /\ brun' = "idle"
          /\ UNCHANGED <<cfg, key, geo, call, next, packet, torn, rose>>

BStep == RefuseCall \/ CheckCall \/ SwitchModule \/ SwitchFails \/ SwitchDone \/ Configure \/ Refuse

-----------------------------------------------------------------------------
(* A native launch never runs with the parameters or the geometry of       *)
(* another frame, whatever frames were run, refused or half switched       *)
(* before: what it is handed is what the call names and what its module    *)
(* checks against, and _geo_key tells the truth about all four modules, so *)
(* that skipping the switch is right, unless a switch failed half way or   *)
(* frame 0 is run again after a later frame.                               *)
OwnGeometry ==
  brun = "native" =>
    /\ packet = call.params
    /\ OwnerOf[call.launch] \in NativeModule => geo[OwnerOf[call.launch]][call.launch] = call.params
    /\ torn = NoFrame /\ ~(call.frame = 0 /\ rose)
         => \A m \in NativeModule : geo[m] = Param[call.frame]

(* GEO2_NATIVE_CB_BINDING_DIFF has a cause: a return to frame 0, which     *)
(* Bridge.run never switches back to (bridge.py:148), or a switch to other *)
(* parameters that failed half way.  Frames in rising order, and the retry *)
(* of the frame whose switch failed, are served.                           *)
RefusalExplained ==
  brun = "refused" => \/ call.frame = 0 /\ rose
                      \/ torn # NoFrame /\ Param[torn] # Param[call.frame]
=============================================================================
