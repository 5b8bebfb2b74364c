---------------------------- MODULE MCKernelStacks ----------------------------
(* Five frames, a region of seven pages and tables of four entries: requests  *)
(* run out of frames in the middle, a slot crosses from one table to the      *)
(* next, and a released slot is absorbed by a smaller request.                *)
EXTENDS KernelStacks
===============================================================================
