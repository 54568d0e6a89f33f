------------------------- MODULE MCDelegationQueue -------------------------
(* Request mixes and symmetry for model-checking DelegationQueue. *)
EXTENDS DelegationQueue, TLC

CONSTANTS w1, s1

Ask(kind, ws, tp, req) == [kind |-> kind, ws |-> ws, tp |-> tp, req |-> req]

WorkspaceTask == Ask("task", w1, None, GlobalRoot)
VoiceTask     == Ask("task", w1, None, Voice)
Mention       == Ask("agentRun", w1, s1, GlobalRoot)
GlobalNote    == Ask("note", None, None, GlobalRoot)

WorkMix    == {WorkspaceTask, Mention}
MessageMix == {WorkspaceTask, VoiceTask, GlobalNote}

SlotSymmetry == Permutations(Slots)
=============================================================================
