\* Nothing built, nothing fails: what "No changes." is worth.
CONSTANTS
  web = web api = api job = job db = db shop = shop blog = blog
  m = m w1 = w1 w2 = w2 files = files media = media
  img = img img2 = img2 std = std big = big key = key
  NoVal = NoVal
  Names = {web, api, job}
  Databases = {db}
  Domains = {shop, blog}
  Servers = {m, w1, w2}
  Master = m
  Images = {img, img2}
  Specs = {std, big}
  Keys = {key}
  Buckets = {files, media}
  Custom = {media}
  Hashes = {h1, h2}
  Configs <- PlainConfigs
  Provisioned = {{m}, {}}
  Unread <- RouteReads
  Disturbances = {}
SPECIFICATION Spec
INVARIANTS NoChangesIsTrue ConvergedWhenDone
