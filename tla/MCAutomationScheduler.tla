----------------------- MODULE MCAutomationScheduler -----------------------
(* Instances of the scheduler: two runs of one device. *)
EXTENDS AutomationScheduler

CONSTANT d1

MCOneDevice == {d1}

\* Two runs of one device; the second one queued goes first.
MCSameDevice == <<d1, d1>>
MCLaterFirst == <<1, 0>>

\* One error or one crash, or both if the error hits the start after it.
OneMishap == faults' + crashes' > 1 => pc = "down" \/ UNCHANGED <<faults, crashes>>
=============================================================================
