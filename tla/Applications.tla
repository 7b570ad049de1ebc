---------------------------- MODULE Applications ----------------------------
(***************************************************************************)
(* The two demo applications that share the console of module Console, one *)
(* of which a build links with the kernel (src/platformio.ini).            *)
(***************************************************************************)
EXTENDS Showcase, PriorityDemo

VARIABLE app  \* the demo that was built

appVars == <<allVars, workVars, app>>

AppInit ==
    \/ /\ app = "showcase"
       /\ ShowcaseInit
       /\ rounds = [t \in Workers |-> 0] /\ release_tick = 0
    \/ /\ app = "priority"
       /\ PriorityInit
       /\ role = [t \in Slots |-> NULL]
       /\ shared = Shared!artos_queue_init /\ button = Button!artos_queue_init
       /\ shared_call = [t \in Slots |-> Shared!NoCall] /\ button_call = shared_call
       /\ shared_got = NULL /\ button_got = NULL /\ gaveup = FALSE
       /\ local = NULL /\ isr = "idle" /\ button_sequence = 0 /\ last_button_tick = 0
       /\ printed = NULL /\ dropped = NULL

AppNext ==
    /\ UNCHANGED app
    /\ \/ app = "showcase" /\ ShowcaseNext /\ UNCHANGED workVars
       \/ app = "priority" /\ PriorityNext /\ UNCHANGED demoVars

AppSpec == AppInit /\ [][AppNext]_appVars
=============================================================================
