---------------------------- MODULE MCSkillLimit ----------------------------
(* Two items for TLC: prompts of the older template with different caps.    *)
EXTENDS SkillLimit

MCTasks == 1 .. 2
MCCap == <<1, 2>>
=============================================================================
