\* One caller, hosts that may reject, three portals for two places.
CONSTANTS
  Portals = {p1, p2, p3}
  Resources = {r1, r2}
  Principals = {x}
  Callers = {c}
  Limit = 2
  NoOne = NoOne
  Nothing = Nothing
SPECIFICATION PortalSpec
INVARIANT SurfacesAccounted
PROPERTIES ControlStaysWithResource NothingComesBack
SYMMETRY Symmetry
