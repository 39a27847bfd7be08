SPECIFICATION Spec
CHECK_DEADLOCK FALSE
CONSTANTS
  SafeTags = {"div", "p", "br"}
  VoidTags = {"br"}
  Names <- MCNames
  Parts <- MCParts
  OnNames = {"onclick"}
  UrlNames = {"href"}
  ScriptUrls = {"javascript:"}
  Layouts <- MCLayouts
  Depth <- MCDepth
  MaxDepth = 2
  Roles <- MCRoles
  Permissions <- MCPermissions
  Docs <- MCDocs
  Schemas <- MCSchemas
  Strings = {"Acme", "Other"}
  Sensitive = {"salary"}
  NoPerms = NoPerms
  Keys = {"k1", "k2"}
  Tables <- MCTables
  Doctypes = {"doctype", "doc type"}
  Limits <- MCLimits
  Filters <- MCFilters
  Identifiers = {"doctype", "name", "status", "limit", "offset"}
  I64Max = 7
  AsF64 <- MCAsF64
  Jsons <- MCJsons
  Nesting <- MCNesting
  MaxNesting = 2
  HostNames <- MCHostNames
  Alphanumeric = {"a", "b", "d", "s", "x", "y", "l", "0", "1"}
  LocalNames <- MCLocalNames
  NoHost = NoHost
INVARIANTS PagesReadBack RolesAddUp TokensNeedSecret PagesCoverList ValuesSurvive SitesKeptApart
