---------------------------- MODULE EventLoopMC ----------------------------
(* A loop with one periodic timer (periodic_save_timer), or with none when  *)
(* infofiles.save_interval is 0.                                            *)
EXTENDS EventLoop

CONSTANTS w1, w2, save, t1
=============================================================================
