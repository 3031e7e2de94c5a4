------------------------------- MODULE Filter -------------------------------
(***************************************************************************)
(* Which objects the controller looks at (namespace/namespace.go,          *)
(* proxy/ats.go).  The three constants are the -namespaces,                *)
(* -ignoreNamespaces and -atsIngressClass flags; the watches themselves    *)
(* cover every namespace, so this filter is applied to each event.         *)
(***************************************************************************)
CONSTANTS
    Namespaces,         \* the set given with -namespaces; {} means all
    IgnoredNamespaces,  \* the set given with -ignoreNamespaces
    IngressClass,       \* the class given with -atsIngressClass
    AnyClass            \* the empty class, on either side

IncludeNamespace(n) ==
    /\ Namespaces = {} \/ n \in Namespaces
    /\ n \notin IgnoredNamespaces

IncludeIngressClass(c) == IngressClass \in {AnyClass, c}
=============================================================================
