-------------------------- MODULE ContextLifecycle --------------------------
(***************************************************************************)
(* The life of one context, as the main loop sees it: handle is called for *)
(* a descriptor when its event was asked for, until the context has ended. *)
(***************************************************************************)
EXTENDS ContextSteps

VARIABLE context  \* its step, its events and its descriptors

LifecycleInit == context = InitContext(0)

ClientReady ==
  /\ context.client_events # {}
  /\ ClientEventExpected(context, context.client_events)
  /\ context' \in AfterClientEvent(context, 1)

ServerReady ==
  /\ context.server_events # {} /\ context.server_fd # -1
  /\ ServerEventExpected(context, context.server_events)
  /\ context' \in AfterServerEvent(context)

LifecycleNext == context.handling_step \notin Ended /\ (ClientReady \/ ServerReady)

LifecycleSpec == LifecycleInit /\ [][LifecycleNext]_context

=============================================================================
